----------------------------- MODULE CsiAttach ------------------------------
(***************************************************************************)
(* The life of one volume through the CSI driver: the controller's calls   *)
(* to the agent (controller/volumes.go, publish.go), the node driver on    *)
(* every node (NodeServer) and, external, the parts of Kubernetes that     *)
(* call both: the provisioner, the resizer, the attacher and the kubelets, *)
(* which retry what failed and undo what may have happened.                *)
(*                                                                         *)
(* Of sizes the model keeps whether the volume is smaller than its claim.  *)
(*                                                                         *)
(* The agent is what VolumeStore and NfsExports say of it, in one step per *)
(* request.  Requests of one volume wait for the entry's lock, whose token *)
(* channel serves them in order, and no handler gives up when the caller   *)
(* does: the controller's ten seconds may end while the request is queued. *)
(* The agent's DeleteVolume waits for no lock, but Kubernetes sends it only *)
(* when every earlier request but an earlier delete has been served.       *)
(***************************************************************************)
EXTENDS NodeServer, FiniteSets

CONSTANTS MaxMoves   \* bound: how often pods come and go

Volume == "volume"   \* the requester of creation and deletion
Resizer == "resizer" \* the requester of expansions

ASSUME AttachAssumption == MaxMoves \in Nat \ {0} /\ Volume \notin Nodes /\ Resizer \notin Nodes

VARIABLES exists,    \* the volume is in the agent's metadata
          short,     \* the volume is smaller than its claim asks for
          refs,      \* the nodes with an export reference in it
          requests,  \* the agent's queue: [op, who]
          answer,    \* requester -> what it knows of its last request
          warned,    \* it was logged that a clone is not expanded, and still is not
          clone,     \* the claim is new, and a clone of something smaller
          resize,    \* what Kubernetes believes: "needed" or "done"
          claim,     \* "new", "bound", "released", "gone"
          wanted,    \* the nodes with a pod that uses the volume
          done,      \* node -> 0 detached .. 1 attached, 2 staged, 3 published
          reach,     \* node -> the stage it may have reached
          going,     \* node -> the direction of its last call
          moves

agent == <<exists, short, refs, requests, answer, warned>>
cluster == <<clone, resize, claim, wanted, done, reach, going, moves>>
vars == <<node, kernel, faults, agent, cluster>>

Requesters == Nodes \cup {Volume, Resizer}
Requests == [op : {"publish", "unpublish"}, who : Nodes] \cup [op : {"expand"}, who : {Resizer}]
            \cup [op : {"create", "grow", "delete"}, who : {Volume}]

TypeOK ==
    /\ NodeTypeOK
    /\ exists \in BOOLEAN /\ refs \subseteq Nodes
    /\ requests \in Seq(Requests)
    /\ short \in BOOLEAN /\ warned \in BOOLEAN /\ clone \in BOOLEAN
    /\ resize \in {"needed", "done"}
    /\ answer \in [Requesters -> {"none", "awaited", "ok", "error"}]
    /\ claim \in {"new", "bound", "released", "gone"}
    /\ wanted \subseteq Nodes
    /\ done \in [Nodes -> 0..3] /\ reach \in [Nodes -> 0..3]
    /\ \A n \in Nodes : done[n] <= reach[n]
    /\ going \in [Nodes -> {"up", "down"}]
    /\ moves \in 0..MaxMoves

Init ==
    /\ NodeInit /\ kernel = {} /\ faults = 0
    /\ exists = FALSE /\ short = FALSE /\ refs = {} /\ requests = <<>>
    /\ warned = FALSE /\ clone \in BOOLEAN /\ resize = "done"
    /\ answer = [r \in Requesters |-> "none"]
    /\ claim = "new" /\ wanted = {}
    /\ done = [n \in Nodes |-> 0] /\ reach = [n \in Nodes |-> 0]
    /\ going = [n \in Nodes |-> "up"]
    /\ moves = 0

-----------------------------------------------------------------------------
(* Where the requests of r are in queue q.                                 *)
SentBy(q, r) == {i \in DOMAIN q : q[i].who = r}

(* The agent serves the request at the head of its queue; the requester    *)
(* hears of it unless it has given up or the answer is lost.               *)
Who == Head(requests).who
Heard == answer[Who] = "awaited" /\ \A i \in 2..Len(requests) : requests[i].who # Who

Served(op, result) ==
    /\ requests # <<>> /\ Head(requests).op = op
    /\ requests' = Tail(requests)
    /\ answer' = IF Heard THEN [answer EXCEPT ![Who] = result] ELSE answer
    /\ UNCHANGED <<node, cluster>>

(* Mutant: a clone that is there already is taken as it is.                *)
CreateVolumeTrustsConflict ==
    /\ requests # <<>> /\ Head(requests).op = "create"
    /\ exists' = TRUE /\ short' = IF exists THEN short ELSE clone
    /\ IF short' /\ Heard /\ ~exists
         THEN /\ requests' = Append(Tail(requests), [op |-> "grow", who |-> Volume])
              /\ UNCHANGED <<node, cluster, answer>>
         ELSE Served("create", "ok")
    /\ Fine /\ UNCHANGED <<refs, kernel, warned>>

(* CreateVolume, and on a conflict the volume that is there.  A clone is   *)
(* as large as its source; if that is too small the controller sends an    *)
(* update before it answers.                                               *)
CreateVolume ==
    /\ requests # <<>> /\ Head(requests).op = "create"
    /\ exists' = TRUE /\ short' = IF exists THEN short ELSE clone
    /\ IF short' /\ Heard
         THEN /\ requests' = Append(Tail(requests), [op |-> "grow", who |-> Volume])
              /\ UNCHANGED <<node, cluster, answer>>
         ELSE Served("create", "ok")
    /\ Fine /\ UNCHANGED <<refs, kernel, warned>>

GrowClone ==
    /\ Served("grow", "ok") /\ short' = FALSE /\ warned' = FALSE
    /\ Fine /\ UNCHANGED <<exists, refs, kernel>>

(* Mutant: a size that the volume has already is refused.                  *)
ExpandOnlyLarger ==
    /\ Served("expand", IF exists /\ short THEN "ok" ELSE "error")
    /\ short' = (short /\ ~exists) /\ warned' = (warned /\ ~exists)
    /\ Fine /\ UNCHANGED <<exists, refs, kernel>>

(* ControllerExpandVolume: a size that the volume has already is a success. *)
ControllerExpandVolume ==
    /\ Served("expand", IF exists THEN "ok" ELSE "error")
    /\ short' = (short /\ ~exists) /\ warned' = (warned /\ ~exists)
    /\ Fine /\ UNCHANGED <<exists, refs, kernel>>

(* ControllerPublishVolume: the annotation update, whose outcome is        *)
(* ignored, then CreateVolumeExport.  Only the first reference exports.    *)
ControllerPublishVolume ==
    \/ /\ Served("publish", IF exists THEN "ok" ELSE "error") /\ Fine
       /\ refs' = IF exists THEN refs \cup {Who} ELSE refs
       /\ kernel' = IF exists /\ Who \notin refs THEN kernel \cup {Who} ELSE kernel
       /\ UNCHANGED <<exists, short, warned>>
    \/ /\ Served("publish", "error") /\ Fault      \* exportfs fails
       /\ exists /\ Who \notin refs
       /\ refs' = refs \cup {Who}
       /\ UNCHANGED <<kernel, exists, short, warned>>

(* ControllerUnpublishVolume: a volume that is not found has no export.    *)
ControllerUnpublishVolume ==
    \/ /\ Served("unpublish", "ok") /\ Fine
       /\ refs' = refs \ {Who}
       /\ kernel' = IF Who \in refs THEN kernel \ {Who} ELSE kernel
       /\ UNCHANGED <<exists, short, warned>>
    \/ /\ Served("unpublish", "error") /\ Fault    \* exportfs -u fails
       /\ Who \in refs
       /\ refs' = refs \ {Who}
       /\ UNCHANGED <<kernel, exists, short, warned>>

(* DeleteVolume when not found is passed on as an error.                   *)
DeleteVolumeInsists ==
    /\ Served("delete", IF exists /\ refs = {} THEN "ok" ELSE "error")
    /\ exists' = (exists /\ refs # {})
    /\ short' = (short /\ exists') /\ warned' = (warned /\ exists')
    /\ Fine /\ UNCHANGED <<refs, kernel>>

(* DeleteVolume: not found is success, a volume with exports is busy.      *)
DeleteVolume ==
    /\ Served("delete", IF exists /\ refs # {} THEN "error" ELSE "ok")
    /\ exists' = (exists /\ refs # {})
    /\ short' = (short /\ exists') /\ warned' = (warned /\ exists')
    /\ Fine /\ UNCHANGED <<refs, kernel>>

(* The last request of r in the queue is the expansion of a clone.  The    *)
(* controller logs a warning when that fails, and answers success.         *)
Growing(r) ==
    \E i \in SentBy(requests, r) :
        requests[i].op = "grow" /\ \A j \in SentBy(requests, r) : j <= i

Failed(r) == IF Growing(r) THEN "ok" ELSE "error"

(* Whatever it was, it fails before it changed anything.                   *)
RequestFails ==
    /\ Served(Head(requests).op, Failed(Who))
    /\ warned' = (warned \/ Growing(Who))
    /\ Fault /\ UNCHANGED <<exists, short, refs, kernel>>

(* The client's timeout: an error for the controller, the request stays.   *)
RequestTimeout(r) ==
    /\ answer[r] = "awaited" /\ Fault
    /\ answer' = [answer EXCEPT ![r] = Failed(r)]
    /\ warned' = (warned \/ Growing(r))
    /\ UNCHANGED <<node, kernel, exists, short, refs, requests, cluster>>

(* The agent dies: the requests in it are lost, metadata and exports stay. *)
AgentCrash ==
    /\ requests # <<>> /\ Fault
    /\ requests' = <<>>
    /\ answer' = [r \in Requesters |->
                     IF answer[r] = "awaited" THEN Failed(r) ELSE answer[r]]
    /\ warned' = (warned \/ (answer[Volume] = "awaited" /\ Growing(Volume)))
    /\ UNCHANGED <<node, kernel, exists, short, refs, cluster>>

(* A round of the reconciler.                                              *)
Reconcile ==
    /\ kernel' = IF exists THEN kernel \cup refs ELSE {}
    /\ UNCHANGED <<node, faults, agent, cluster>>

TableLost ==
    /\ kernel # {} /\ Fault /\ kernel' = {}
    /\ UNCHANGED <<node, agent, cluster>>

-----------------------------------------------------------------------------
(* Kubernetes: one call at a time per requester.                           *)
Idle(n) == reply[n] = "none" /\ answer[n] = "none"

Request(op, who) ==
    /\ requests' = Append(requests, [op |-> op, who |-> who])
    /\ answer' = [answer EXCEPT ![who] = "awaited"]
    /\ UNCHANGED <<node, exists, short, refs, warned>>

Call(op, n) ==
    /\ Enter(n, op) \/ Overtake(n, op)
    /\ UNCHANGED <<staging, target, agent>>

Provision ==
    /\ claim = "new" /\ answer[Volume] = "none" /\ Request("create", Volume)
    /\ UNCHANGED <<kernel, faults, cluster>>

Reclaim ==
    /\ claim = "released" /\ answer[Volume] = "none"
    /\ \A n \in Nodes : reach[n] = 0
    /\ Request("delete", Volume)
    /\ UNCHANGED <<kernel, faults, cluster>>

VolumeAnswered ==
    /\ answer[Volume] \in {"ok", "error"}
    /\ answer' = [answer EXCEPT ![Volume] = "none"]
    /\ claim' = IF answer[Volume] = "error" THEN claim
                ELSE IF claim = "new" THEN "bound" ELSE "gone"
    /\ clone' = (clone /\ claim' = "new")
    /\ UNCHANGED <<node, kernel, faults, exists, short, refs, requests, warned,
                   resize, wanted, done, reach, going, moves>>

(* The user asks for more: as a bound, before the first pod comes and when *)
(* nothing expands the volume.                                             *)
UserExpands ==
    /\ claim = "bound" /\ resize = "done" /\ moves = 0
    /\ \A i \in DOMAIN requests : requests[i].op \notin {"grow", "expand"}
    /\ resize' = "needed" /\ short' = TRUE /\ moves' = moves + 1
    /\ UNCHANGED <<node, kernel, faults, exists, refs, requests, answer, warned,
                   clone, claim, wanted, done, reach, going>>

Resize ==
    /\ claim = "bound" /\ resize = "needed" /\ answer[Resizer] = "none"
    /\ Request("expand", Resizer)
    /\ UNCHANGED <<kernel, faults, cluster>>

Resized ==
    /\ answer[Resizer] \in {"ok", "error"}
    /\ answer' = [answer EXCEPT ![Resizer] = "none"]
    /\ resize' = IF answer[Resizer] = "ok" THEN "done" ELSE resize
    /\ UNCHANGED <<node, kernel, faults, exists, short, refs, requests, warned,
                   clone, claim, wanted, done, reach, going, moves>>

(* A pod arrives on a node or leaves it; in the end the claim is deleted,  *)
(* when the resizer has no call under way.                                 *)
PodMoves(n) ==
    /\ claim = "bound" /\ moves < MaxMoves
    /\ wanted' = IF n \in wanted THEN wanted \ {n} ELSE wanted \cup {n}
    /\ moves' = moves + 1
    /\ UNCHANGED <<node, kernel, faults, agent, clone, resize, claim, done, reach, going>>

ClaimDeleted ==
    /\ claim = "bound" /\ wanted = {} /\ answer[Resizer] = "none"
    /\ claim' = "released" /\ resize' = "done"
    /\ UNCHANGED <<node, kernel, faults, agent, clone, wanted, done, reach, going, moves>>

(* Attach, stage, publish: the next stage that is not done.                *)
Up(n) ==
    /\ n \in wanted /\ Idle(n) /\ done[n] < 3
    /\ CASE done[n] = 0 -> Request("publish", n)
         [] done[n] = 1 -> Call("stage", n)
         [] done[n] = 2 -> Call("publish", n)
    /\ reach' = [reach EXCEPT ![n] = IF @ > done[n] THEN @ ELSE done[n] + 1]
    /\ going' = [going EXCEPT ![n] = "up"]
    /\ UNCHANGED <<kernel, faults, clone, resize, claim, wanted, done, moves>>

(* Unpublish, unstage, detach: whatever may have been done.                *)
Down(n) ==
    /\ n \notin wanted /\ Idle(n) /\ reach[n] > 0
    /\ CASE reach[n] = 3 -> Call("unpublish", n)
         [] reach[n] = 2 -> Call("unstage", n)
         [] reach[n] = 1 -> Request("unpublish", n)
    /\ done' = [done EXCEPT ![n] = IF @ = reach[n] THEN @ - 1 ELSE @]
    /\ going' = [going EXCEPT ![n] = "down"]
    /\ UNCHANGED <<kernel, faults, clone, resize, claim, wanted, reach, moves>>

(* The answer to a node's call; a failure is tried again.                  *)
Answered(n) ==
    /\ reply[n] \in {"ok", "error"} \/ answer[n] \in {"ok", "error"}
    /\ reply' = [reply EXCEPT ![n] = "none"]
    /\ answer' = [answer EXCEPT ![n] = "none"]
    /\ LET ok == "ok" \in {reply[n], answer[n]}
       IN  /\ done' = [done EXCEPT ![n] = IF ok /\ going[n] = "up" THEN @ + 1 ELSE @]
           /\ reach' = [reach EXCEPT ![n] = IF ok /\ going[n] = "down" THEN @ - 1 ELSE @]
    /\ UNCHANGED <<staging, target, calls, overtaken, kernel, faults, exists, short, refs,
                   requests, warned, clone, resize, claim, wanted, going, moves>>

(* The machine restarts: directories survive, mounts and processes do not; *)
(* the kubelet stages and publishes again for the pods it still has.       *)
Reboot(n) ==
    /\ done[n] > 1 /\ Fault
    /\ staging' = [staging EXCEPT ![n] = IF @ = "none" THEN @ ELSE "dir"]
    /\ target' = [target EXCEPT ![n] = IF @ = "none" THEN @ ELSE "dir"]
    /\ calls' = [calls EXCEPT ![n] = <<>>]
    /\ reply' = [reply EXCEPT ![n] = IF @ = "none" THEN @ ELSE "error"]
    /\ overtaken' = overtaken \ {n}
    /\ done' = [done EXCEPT ![n] = 1]
    /\ UNCHANGED <<kernel, agent, clone, resize, claim, wanted, reach, going, moves>>

-----------------------------------------------------------------------------
AgentStep ==
    \/ CreateVolume \/ ControllerPublishVolume \/ ControllerUnpublishVolume
    \/ GrowClone \/ ControllerExpandVolume \/ DeleteVolume \/ RequestFails

NodeStep(n) == Handler(n) /\ UNCHANGED <<agent, cluster>>

NodeFault(n) ==
    /\ DriverCrash(n) \/ MountsGoStale(n) \/ GiveUp(n)
    /\ UNCHANGED <<agent, cluster>>

(* The end: nothing is left to do.                                         *)
Finished == claim = "gone" /\ requests = <<>> /\ UNCHANGED vars

Next ==
    \/ AgentStep \/ AgentCrash \/ Reconcile \/ TableLost
    \/ \E r \in Requesters : RequestTimeout(r)
    \/ Provision \/ Reclaim \/ VolumeAnswered \/ ClaimDeleted
    \/ UserExpands \/ Resize \/ Resized
    \/ \E n \in Nodes : \/ NodeStep(n) \/ NodeFault(n) \/ Reboot(n)
                         \/ PodMoves(n) \/ Up(n) \/ Down(n) \/ Answered(n)
    \/ Finished

Spec == Init /\ [][Next]_vars

(* Fairness: the agent serves, handlers return, the reconciler's ticker    *)
(* ticks and Kubernetes retries (docs/integrations/kubernetes/operations.md *)
(* relies on that).  Faults, pods and the deletion of the claim are left   *)
(* to the environment.                                                     *)
FairSpec ==
    /\ Spec
    /\ WF_vars(AgentStep) /\ WF_vars(Reconcile)
    /\ WF_vars(Provision) /\ WF_vars(Reclaim) /\ WF_vars(VolumeAnswered)
    /\ WF_vars(Resize) /\ WF_vars(Resized)
    /\ \A n \in Nodes : /\ WF_vars(NodeStep(n)) /\ WF_vars(Up(n))
                        /\ WF_vars(Down(n)) /\ WF_vars(Answered(n))

-----------------------------------------------------------------------------
(* A pod the kubelet considers running has the volume at its target path,  *)
(* never the directory below it: NodePublishVolume is careful not to       *)
(* "silently route pod writes to the local root fs" after a reboot.  With  *)
(* calls given up, repeated and interrupted, this takes the order of the   *)
(* queue and every error of the mounts.  It does not hold on a node where  *)
(* a call was overtaken: an unpublish that was given up can come after the *)
(* publish of the next pod.                                                *)
PodSeesVolume == \A n \in Nodes \ overtaken : done[n] = 3 => target[n] \in Mounted

(* A node that has the volume mounted, at the staging path or in a pod, is *)
(* referenced by the volume's exports, so the volume is there and          *)
(* DeleteVolume refuses it: the reverse order of detach (ControllerUnpublish *)
(* after NodeUnstage after NodeUnpublish) and truthful answers together.   *)
(* Where a call was overtaken a stage or publish that was given up can     *)
(* mount after the detach.                                                 *)
InUseIsReferenced ==
    \A n \in Nodes \ overtaken :
        staging[n] = "nfs" \/ target[n] \in Mounted => n \in refs /\ exists

(* A pod that stays gets its volume, whatever failed on the way, unless    *)
(* the staging mount goes stale after it was staged, or an overtaken       *)
(* unstage removes it: NodePublishVolume does not look at it, and the      *)
(* kubelet stages only once.                                               *)
PodGetsVolume ==
    \A n \in Nodes :
        []<>(\/ n \notin wanted \/ done[n] = 3 \/ staging[n] = "stale"
             \/ n \in overtaken /\ staging[n] # "nfs")

(* A claim that Kubernetes believes to be as large as asked for is that    *)
(* large, through conflicts, lost answers and late requests, except for a  *)
(* clone whose expansion failed: a logged warning is all that tells.       *)
CapacityTold == claim = "bound" /\ resize = "done" /\ short => warned

(* An expansion comes to its end: one that had taken effect when its       *)
(* answer was lost can be repeated.                                        *)
ExpansionCompletes == []<>(claim # "bound" \/ resize = "done")

(* A claim that is deleted ends with no volume and no export, and with no  *)
(* mount unless a call was overtaken: every step of the way down can be    *)
(* repeated after it has succeeded.                                        *)
ReclaimCompletes ==
    claim = "released" ~>
        /\ claim = "gone" /\ ~exists /\ refs = {} /\ kernel = {}
        /\ \A n \in Nodes \ overtaken : staging[n] = "none" /\ target[n] = "none"

-----------------------------------------------------------------------------
(* The invariant behind the first three.  Queue q has a request of kind    *)
(* op, and the last one of requester r, if it has any, is of kind op.      *)
Has(q, op) == \E i \in DOMAIN q : q[i].op = op

LastIs(q, r, op) ==
    \A i \in SentBy(q, r) : (\A j \in SentBy(q, r) : j <= i) => q[i].op = op

(* How far a node is while a request or a call of it is under way; past    *)
(* the first stage there is always one that is known to be done.           *)
StagesFit(n) ==
    /\ reach[n] >= 2 => done[n] >= 1
    /\ answer[n] # "none" => done[n] = 0 /\ reach[n] = 1 /\ reply[n] = "none"
    /\ reply[n] # "none" => reach[n] >= 2 /\ done[n] < reach[n]

(* An attached node has a reference, and nothing that is still queued can  *)
(* take it away; a node waits for the last request that it sent.           *)
AttachFits(n) ==
    /\ done[n] >= 1 \/ (answer[n] = "ok" /\ going[n] = "up") =>
           n \in refs /\ exists /\ SentBy(requests, n) = {}
    /\ answer[n] = "awaited" =>
           LastIs(requests, n, IF going[n] = "up" THEN "publish" ELSE "unpublish")

(* A node has the mounts and the handlers of the stages that it may have   *)
(* reached, and a running pod is left alone.                               *)
MountsFit(n) ==
    /\ reach[n] <= 1 => calls[n] = <<>> /\ staging[n] # "nfs" /\ target[n] \notin Mounted
    /\ reach[n] = 2 => /\ target[n] \notin Mounted
                       /\ \A i \in DOMAIN calls[n] : calls[n][i].op \in {"stage", "unstage"}
    /\ done[n] = 3 => calls[n] = <<>> /\ target[n] \in Mounted

(* The call a kubelet waits for is the last in the queue, a success means  *)
(* that the queue is empty and the mount as asked for, and the steps after *)
(* the bind mount find it.                                                 *)
LastCall(n) ==
    IF going[n] = "up" THEN IF done[n] = 1 THEN "stage" ELSE "publish"
                       ELSE IF reach[n] = 2 THEN "unstage" ELSE "unpublish"

Achieved(op, s, t) ==
    /\ op = "publish" => t \in Mounted
    /\ op = "unpublish" => t \notin Mounted
    /\ op = "unstage" => s # "nfs"

CallsFit(n) ==
    /\ \A i \in DOMAIN calls[n] :
           /\ calls[n][i].pc # "late" /\ (i > 1 => calls[n][i].pc = "wait")
           /\ calls[n][i].pc \in {"remount", "undo"} => target[n] \in Mounted
    /\ reply[n] = "awaited" /\ calls[n] # <<>> => calls[n][Len(calls[n])].op = LastCall(n)
    /\ reply[n] = "ok" => calls[n] = <<>> /\ Achieved(LastCall(n), staging[n], target[n])

(* When a claim gets bound nothing in the queue can make the volume short  *)
(* again; the expansion of a clone is waited for until it succeeds or a    *)
(* warning is logged.                                                      *)
SizeFits ==
    /\ claim = "bound" => answer[Volume] = "none"
    /\ claim # "new" \/ answer[Volume] = "ok" => ~Has(requests, "create")
    /\ claim = "new" /\ Has(requests, "grow") =>
           /\ answer[Volume] \in {"awaited", "ok"}
           /\ \A i, j \in SentBy(requests, Volume) : i = j
    /\ claim = "new" /\ answer[Volume] = "ok" /\ short => warned
    /\ answer[Resizer] # "none" => claim = "bound" /\ resize = "needed"
    /\ answer[Resizer] = "ok" => ~short
    /\ CapacityTold

(* Where a call was overtaken, what the mounts are is anybody's guess.     *)
NodeFits(n) ==
    StagesFit(n) /\ AttachFits(n) /\ (n \notin overtaken => MountsFit(n) /\ CallsFit(n))

IInv == TypeOK /\ SizeFits /\ \A n \in Nodes : NodeFits(n)
=============================================================================

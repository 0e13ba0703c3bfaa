---------------------------- MODULE TaskManager ----------------------------
(***************************************************************************)
(* Background tasks: agent/storage/task (the manager, its worker slots, a  *)
(* goroutine and a progress poller per task, one JSON file per task) and   *)
(* StartScrub of agent/storage/scrub.go, which wants one scrub at a time.  *)
(*                                                                         *)
(* A task's state is an immutable record behind an atomic pointer: the     *)
(* goroutine replaces it with plain stores, the poller with a compare and  *)
(* swap that is one step here.  persist writes a temporary file, the same  *)
(* for every writer of a task, and renames it: two steps.                  *)
(***************************************************************************)
EXTENDS Naturals, FiniteSets

CONSTANTS Tasks,          \* task IDs
          Scrubs,         \* the ones that StartScrub creates
          Polling,        \* the ones whose function polls its progress
          MaxConcurrent,  \* worker slots; 0: unlimited
          MaxCrashes,     \* bound: agent restarts
          None

ASSUME TaskKinds == Scrubs \subseteq Tasks /\ Polling \subseteq Tasks
ASSUME Slots == MaxConcurrent \in Nat /\ MaxCrashes \in Nat

VARIABLES gpc,      \* the request that creates the task, then its goroutine
          ctx,      \* the task's context: "live", "cancelled", "deadline"
          local,    \* the copy of the state the goroutine is about to store
          slot,     \* tasks that hold a worker slot
          state,    \* rt.state
          listed,   \* tasks in the manager's map
          ppc,      \* the poller
          polled,   \* the copy the poller is about to persist
          tmp,      \* the temporary file
          file,     \* the task's file
          crashes

poller == <<ppc, polled>>
memory == <<state, listed>>
files == <<tmp, file>>
vars == <<gpc, ctx, local, slot, memory, poller, files, crashes>>

Finished == {"completed", "failed", "cancelled"}
Active == {"pending", "running"}
Full == 1                     \* progress 100; 0 stands for less
Results == {"none", "partial", "final"}   \* a scrub's statistics, so far and at its end
States == [status : Active \cup Finished, progress : 0..Full, result : Results]
Pending == [status |-> "pending", progress |-> 0, result |-> "none"]
MaybeState == States \cup {None}

ASSUME NoneIsNoState == None \notin States

TypeOK ==
    /\ gpc \in [Tasks -> {"unborn", "listChecked", "refused", "createWrite", "createRename",
                          "queued", "startWrite", "startRename", "startStore", "running",
                          "returned", "failing", "finalWrite", "finalRename", "finalStore",
                          "gone"}]
    /\ ctx \in [Tasks -> {"live", "cancelled", "deadline"}]
    /\ local \in [Tasks -> MaybeState] /\ state \in [Tasks -> MaybeState]
    /\ polled \in [Tasks -> MaybeState]
    /\ tmp \in [Tasks -> MaybeState] /\ file \in [Tasks -> MaybeState]
    /\ slot \subseteq Tasks /\ listed \subseteq Tasks
    /\ \A t \in listed : state[t] # None
    /\ ppc \in [Tasks -> {"off", "wait", "status", "polling", "write", "rename"}]
    /\ crashes \in 0..MaxCrashes

Nothing == [t \in Tasks |-> None]

Init ==
    /\ gpc = [t \in Tasks |-> "unborn"]
    /\ ctx = [t \in Tasks |-> "live"]
    /\ local = Nothing /\ state = Nothing /\ polled = Nothing
    /\ tmp = Nothing /\ file = Nothing
    /\ slot = {} /\ listed = {}
    /\ ppc = [t \in Tasks |-> "off"]
    /\ crashes = 0

Step(t, from, to) == gpc[t] = from /\ gpc' = [gpc EXCEPT ![t] = to]
-----------------------------------------------------------------------------
(* StartScrub: no scrub task in the list, ...                              *)
CheckList(t) ==
    /\ t \in Scrubs
    /\ IF \E s \in Scrubs \cap listed : state[s].status \in Active
         THEN Step(t, "unborn", "refused")
         ELSE Step(t, "unborn", "listChecked")
    /\ UNCHANGED <<ctx, local, slot, memory, poller, files, crashes>>

(* ... no scrub running on the file system (ours, or one an administrator  *)
(* started, which may be there at any time); a status that cannot be read  *)
(* stops nothing, ...                                                      *)
CheckStatus(t) ==
    /\ \/ Step(t, "listChecked", "refused") /\ UNCHANGED state
       \/ /\ Step(t, "listChecked", "createWrite")
          /\ state' = [state EXCEPT ![t] = Pending]
    /\ UNCHANGED <<ctx, local, slot, listed, poller, files, crashes>>

(* ... then Create; other tasks are created without a check.               *)
Create(t) ==
    /\ t \notin Scrubs
    /\ Step(t, "unborn", "createWrite")
    /\ state' = [state EXCEPT ![t] = Pending]
    /\ UNCHANGED <<ctx, local, slot, listed, poller, files, crashes>>

(* persist, the two halves.  A rename finds what was written last, or      *)
(* nothing when the other writer has renamed it, which is only logged.     *)
WriteTmp(t, value) == tmp' = [tmp EXCEPT ![t] = value] /\ UNCHANGED file
RenameTmp(t) ==
    /\ tmp' = [tmp EXCEPT ![t] = None]
    /\ file' = IF tmp[t] = None THEN file ELSE [file EXCEPT ![t] = tmp[t]]

CreateWrite(t) ==
    /\ Step(t, "createWrite", "createRename")
    /\ WriteTmp(t, state[t])
    /\ UNCHANGED <<ctx, local, slot, memory, poller, crashes>>

(* The end of Create's persist, and the entry in the map.                  *)
CreateRename(t) ==
    /\ Step(t, "createRename", "queued")
    /\ RenameTmp(t)
    /\ listed' = listed \cup {t}
    /\ UNCHANGED <<ctx, local, slot, state, poller, crashes>>
-----------------------------------------------------------------------------
(* The task's goroutine.                                                   *)

(* Mutant: the semaphore has room for one more.                            *)
AcquireSlotOverfull(t) ==
    /\ MaxConcurrent = 0 \/ Cardinality(slot) <= MaxConcurrent
    /\ Step(t, "queued", "startWrite")
    /\ slot' = slot \cup {t}
    /\ local' = [local EXCEPT ![t] = [state[t] EXCEPT !.status = "running"]]
    /\ UNCHANGED <<ctx, memory, poller, files, crashes>>

(* sem <- struct{}{}: possible when a slot is free, even if the context    *)
(* has ended, because select takes either.                                 *)
AcquireSlot(t) ==
    /\ MaxConcurrent = 0 \/ Cardinality(slot) < MaxConcurrent
    /\ Step(t, "queued", "startWrite")
    /\ slot' = slot \cup {t}
    /\ local' = [local EXCEPT ![t] = [state[t] EXCEPT !.status = "running"]]
    /\ UNCHANGED <<ctx, memory, poller, files, crashes>>

(* <-ctx.Done() in the queue: cancelled, a deadline included.  With        *)
(* unlimited slots there is no queue.                                      *)
GiveUpQueue(t) ==
    /\ MaxConcurrent > 0
    /\ ctx[t] # "live"
    /\ Step(t, "queued", "finalWrite")
    /\ local' = [local EXCEPT ![t] = [state[t] EXCEPT !.status = "cancelled"]]
    /\ UNCHANGED <<ctx, slot, memory, poller, files, crashes>>

StartWrite(t) ==
    /\ Step(t, "startWrite", "startRename")
    /\ WriteTmp(t, local[t])
    /\ UNCHANGED <<ctx, local, slot, memory, poller, crashes>>

StartRename(t) ==
    /\ Step(t, "startRename", "startStore")
    /\ RenameTmp(t)
    /\ UNCHANGED <<ctx, local, slot, memory, poller, crashes>>

(* The running state is visible and the task's function starts; it may     *)
(* start a poller.                                                         *)
StartStore(t) ==
    /\ Step(t, "startStore", "running")
    /\ state' = [state EXCEPT ![t] = local[t]]
    /\ ppc' = [ppc EXCEPT ![t] = IF t \in Polling THEN "wait" ELSE "off"]
    /\ UNCHANGED <<ctx, local, slot, listed, polled, files, crashes>>

(* The function returns, with or without an error; it has called stop.  One*)
(* that succeeds has recorded its result with SetResult; a scrub's may be  *)
(* missing when the last ScrubStatus fails.                                *)
FnReturns(t) ==
    /\ \/ Step(t, "running", "failing") /\ UNCHANGED state
       \/ /\ Step(t, "running", "returned")
          /\ \/ state' = [state EXCEPT ![t].result = "final"]
             \/ t \in Scrubs /\ UNCHANGED state
    /\ UNCHANGED <<ctx, local, slot, listed, poller, files, crashes>>

(* Mutant: a cancelled task whose function succeeded counts as completed.  *)
OutcomeIgnoresContext(t) ==
    IF gpc[t] = "failing"
      THEN [state[t] EXCEPT !.status = IF ctx[t] = "cancelled" THEN "cancelled" ELSE "failed"]
      ELSE [state[t] EXCEPT !.status = "completed", !.progress = Full]

(* The final state: the context decides before the error does.             *)
Outcome(t) ==
    LET status == IF ctx[t] = "deadline" THEN "failed"
                  ELSE IF ctx[t] = "cancelled" THEN "cancelled"
                  ELSE IF gpc[t] = "failing" THEN "failed" ELSE "completed"
    IN  [state[t] EXCEPT !.status = status, !.progress = IF status = "completed" THEN Full ELSE @]

Conclude(t) ==
    /\ gpc[t] \in {"returned", "failing"}
    /\ gpc' = [gpc EXCEPT ![t] = "finalWrite"]
    /\ local' = [local EXCEPT ![t] = Outcome(t)]
    /\ UNCHANGED <<ctx, slot, memory, poller, files, crashes>>

FinalWrite(t) ==
    /\ Step(t, "finalWrite", "finalRename")
    /\ WriteTmp(t, local[t])
    /\ UNCHANGED <<ctx, local, slot, memory, poller, crashes>>

(* Mutant: the end waits for a rename that works.                          *)
FinalRenameInsists(t) ==
    /\ tmp[t] # None
    /\ Step(t, "finalRename", "finalStore")
    /\ RenameTmp(t)
    /\ UNCHANGED <<ctx, local, slot, memory, poller, crashes>>

FinalRename(t) ==
    /\ Step(t, "finalRename", "finalStore")
    /\ RenameTmp(t)
    /\ UNCHANGED <<ctx, local, slot, memory, poller, crashes>>

(* The final state replaces the pointer, whatever the poller did since;    *)
(* the deferred functions free the slot and end the context.               *)
FinalStore(t) ==
    /\ Step(t, "finalStore", "gone")
    /\ state' = [state EXCEPT ![t] = local[t]]
    /\ slot' = slot \ {t}
    /\ ctx' = IF t \in slot /\ ctx[t] = "live" THEN [ctx EXCEPT ![t] = "cancelled"] ELSE ctx
    /\ local' = [local EXCEPT ![t] = None]
    /\ UNCHANGED <<listed, poller, files, crashes>>
-----------------------------------------------------------------------------
(* PollProgress's goroutine.  A tick and the end may both be ready, and    *)
(* select takes either; stop does not wait for a poll in progress.         *)
Tick(t) ==
    /\ ppc[t] = "wait"
    /\ ppc' = [ppc EXCEPT ![t] = IF t \in Scrubs THEN "status" ELSE "polling"]
    /\ UNCHANGED <<gpc, ctx, local, slot, memory, polled, files, crashes>>

(* A scrub's poll: ScrubStatus fails and the poll is skipped, or SetResult *)
(* records the statistics so far, by compare and swap and in memory only.  *)
SetResult(t) ==
    /\ ppc[t] = "status"
    /\ \/ /\ state' = [state EXCEPT ![t].result = "partial"]
          /\ ppc' = [ppc EXCEPT ![t] = "polling"]
       \/ /\ ppc' = [ppc EXCEPT ![t] = "wait"]
          /\ UNCHANGED state
    /\ UNCHANGED <<gpc, ctx, local, slot, listed, polled, files, crashes>>

PollerStops(t) ==
    /\ ppc[t] = "wait"
    /\ gpc[t] # "running" \/ ctx[t] # "live"
    /\ ppc' = [ppc EXCEPT ![t] = "off"]
    /\ UNCHANGED <<gpc, ctx, local, slot, memory, polled, files, crashes>>

(* Mutant: a poll that fails is recorded as the failure of the task.       *)
SetProgressPollFails(t, pct) ==
    /\ ppc[t] = "polling"
    /\ LET new == [state[t] EXCEPT !.status = "failed", !.progress = pct] IN
         /\ state' = [state EXCEPT ![t] = new]
         /\ polled' = [polled EXCEPT ![t] = new]
         /\ ppc' = [ppc EXCEPT ![t] = "write"]
    /\ UNCHANGED <<gpc, ctx, local, slot, listed, files, crashes>>

(* SetProgress, up to the compare and swap; no change does nothing.        *)
SetProgress(t, pct) ==
    /\ ppc[t] = "polling"
    /\ \/ /\ state[t].progress # pct
          /\ LET new == [state[t] EXCEPT !.progress = pct] IN
               /\ state' = [state EXCEPT ![t] = new]
               /\ polled' = [polled EXCEPT ![t] = new]
               /\ ppc' = [ppc EXCEPT ![t] = "write"]
       \/ /\ ppc' = [ppc EXCEPT ![t] = "wait"]
          /\ UNCHANGED <<state, polled>>
    /\ UNCHANGED <<gpc, ctx, local, slot, listed, files, crashes>>

(* SetProgress's persist.                                                  *)
ProgressWrite(t) ==
    /\ ppc[t] = "write"
    /\ ppc' = [ppc EXCEPT ![t] = "rename"]
    /\ polled' = [polled EXCEPT ![t] = None]
    /\ WriteTmp(t, polled[t])
    /\ UNCHANGED <<gpc, ctx, local, slot, memory, crashes>>

ProgressRename(t) ==
    /\ ppc[t] = "rename"
    /\ ppc' = [ppc EXCEPT ![t] = "wait"]
    /\ RenameTmp(t)
    /\ UNCHANGED <<gpc, ctx, local, slot, memory, polled, crashes>>
-----------------------------------------------------------------------------
(* Cancel: ends the context of a task that is shown as active.             *)
Cancel(t) ==
    /\ t \in listed /\ state[t].status \in Active
    /\ ctx[t] = "live"
    /\ ctx' = [ctx EXCEPT ![t] = "cancelled"]
    /\ UNCHANGED <<gpc, local, slot, memory, poller, files, crashes>>

(* The task's timeout.                                                     *)
Deadline(t) ==
    /\ gpc[t] \notin {"unborn", "listChecked", "refused", "gone"}
    /\ ctx[t] = "live"
    /\ ctx' = [ctx EXCEPT ![t] = "deadline"]
    /\ UNCHANGED <<gpc, local, slot, memory, poller, files, crashes>>

(* Cleanup of a task that ended long enough ago.                           *)
Cleanup(t) ==
    /\ t \in listed /\ state[t].status \in Finished
    /\ listed' = listed \ {t}
    /\ file' = [file EXCEPT ![t] = None]
    /\ UNCHANGED <<gpc, ctx, local, slot, state, poller, tmp, crashes>>

(* Mutant: files are loaded as they are.                                   *)
LoadedAsStored(s) == s

(* loadFromDisk: what was active when the agent died has failed.           *)
Loaded(s) == IF s # None /\ s.status \in Active THEN [s EXCEPT !.status = "failed"] ELSE s

(* The agent restarts.  Goroutines, pollers and slots are gone; the list   *)
(* is made of the files, and the ones that were changed are written back.  *)
Crash ==
    /\ crashes < MaxCrashes
    /\ crashes' = crashes + 1
    /\ gpc' = [t \in Tasks |-> IF gpc[t] = "unborn" THEN "unborn" ELSE "gone"]
    /\ ctx' = [t \in Tasks |-> "live"]
    /\ local' = Nothing /\ polled' = Nothing
    /\ slot' = {}
    /\ ppc' = [t \in Tasks |-> "off"]
    /\ file' = [t \in Tasks |-> Loaded(file[t])]
    /\ state' = [t \in Tasks |-> Loaded(file[t])]
    /\ listed' = {t \in Tasks : file[t] # None}
    /\ UNCHANGED tmp

Creates(t) == CheckList(t) \/ CheckStatus(t) \/ Create(t)
Persists(t) == CreateWrite(t) \/ CreateRename(t)
Runs(t) == \/ StartWrite(t) \/ StartRename(t) \/ StartStore(t)
           \/ Conclude(t) \/ FinalWrite(t) \/ FinalRename(t) \/ FinalStore(t)
Leaves(t) == AcquireSlot(t) \/ GiveUpQueue(t)
Polls(t) == \/ SetResult(t) \/ (\E pct \in 0..Full : SetProgress(t, pct))
            \/ ProgressWrite(t) \/ ProgressRename(t)

Next == \/ \E t \in Tasks : \/ Creates(t) \/ Persists(t) \/ Leaves(t) \/ Runs(t) \/ FnReturns(t)
                            \/ Tick(t) \/ PollerStops(t) \/ Polls(t)
                            \/ Cancel(t) \/ Deadline(t) \/ Cleanup(t)
        \/ Crash

Spec == Init /\ [][Next]_vars

(* Goroutines run.  A task has a timeout (6h by default, 24h for scrubs)   *)
(* and its function returns when its context ends.  Requests, cancels,     *)
(* cleanups and crashes happen or not.                                     *)
FnHonoursContext(t) == ctx[t] # "live" /\ FnReturns(t)
FairSpec ==
    /\ Spec
    /\ \A t \in Tasks : /\ WF_vars(Persists(t)) /\ WF_vars(Leaves(t)) /\ WF_vars(Runs(t))
                        /\ WF_vars(Deadline(t)) /\ WF_vars(FnHonoursContext(t))
                        /\ WF_vars(Polls(t)) /\ WF_vars(PollerStops(t))
-----------------------------------------------------------------------------
(* "Worker pool limits concurrent tasks": no more tasks are shown running  *)
(* than there are slots, through cancels, timeouts, late polls, restarts.  *)
WorkerLimit ==
    MaxConcurrent > 0 =>
        Cardinality({t \in listed : state[t].status = "running"}) <= MaxConcurrent

(* A task shown as pending or running has a goroutine that will finish it. *)
ActiveIsAlive ==
    \A t \in listed : state[t].status \in Active => gpc[t] \notin {"unborn", "refused", "gone"}

(* The rest is what the proofs of TaskManagerProofs need.  Where a task is *)
(* in its life decides what its state can be ...                           *)
NotCreated == {"unborn", "listChecked", "refused"}
Entering == {"createWrite", "createRename"}
Starting == {"startWrite", "startRename", "startStore"}
Working == {"running", "returned", "failing"}
Ending == {"finalWrite", "finalRename", "finalStore"}
HasStatus(s, set) == s \in States /\ s.status \in set

StateFollowsLife ==
    \A t \in Tasks :
        /\ gpc[t] \in NotCreated => state[t] = None
        /\ gpc[t] \in NotCreated \cup Entering => t \notin listed /\ file[t] = None
        /\ gpc[t] \in Entering \cup Starting \cup {"queued"} => HasStatus(state[t], {"pending"})
        /\ gpc[t] \in Working => HasStatus(state[t], {"running"})
        /\ gpc[t] \in Ending => HasStatus(state[t], Active)
        /\ gpc[t] = "gone" => state[t] = None \/ HasStatus(state[t], Finished)
        /\ ppc[t] # "off" => state[t] # None /\ gpc[t] \in Working \cup Ending \cup {"gone"}

(* ... and what its goroutine is about to store; ...                       *)
LocalFollowsLife ==
    \A t \in Tasks :
        /\ gpc[t] \in NotCreated \cup Entering \cup {"queued", "gone"} => local[t] = None
        /\ gpc[t] \in Starting \cup Working => HasStatus(local[t], {"running"})
        /\ gpc[t] \in Ending => HasStatus(local[t], Finished)

(* ... it runs on a slot until another state than running is stored.       *)
RunsOnSlot ==
    /\ IsFiniteSet(slot)
    /\ MaxConcurrent > 0 => Cardinality(slot) <= MaxConcurrent
    /\ \A t \in Tasks : /\ gpc[t] \in Starting \cup Working => t \in slot
                        /\ HasStatus(state[t], {"running"}) => t \in slot

IInv == TypeOK /\ StateFollowsLife /\ LocalFollowsLife /\ RunsOnSlot

(* Between restarts an outcome, once shown, stays: neither a late poll nor *)
(* a cancel that comes too late changes it.                                *)
OutcomeStays ==
    [][\A t \in Tasks :
          t \in listed /\ state[t].status \in Finished /\ crashes' = crashes
            => state'[t].status = state[t].status]_vars

(* A cancel that finds the function still running, or the task in the      *)
(* queue, is honoured: such a task is never shown completed.               *)
CancelHonoured ==
    [][\A t \in Tasks :
          ctx[t] = "cancelled" /\ gpc[t] \in {"queued", "running", "returned", "failing"}
            => local'[t] = None \/ local'[t].status # "completed"]_vars

(* A task that was submitted ends, even if it never gets a slot, if its    *)
(* function hangs until the timeout, or if the agent restarts.             *)
EveryTaskFinishes ==
    \A t \in Tasks : t \in listed ~> t \notin listed \/ state[t].status \in Finished
=============================================================================

---------------------------- MODULE DeviceStats -----------------------------
(***************************************************************************)
(* The agent's device statistics (agent/storage/stats.go): a cache of the  *)
(* file system's devices, written by two pollers that share no lock, and   *)
(* IsDegraded, which the health endpoint answers from it.                  *)
(*                                                                         *)
(* Each poller first asks the kernel, then loads the cached slice, merges  *)
(* and stores it back; a store in between is lost.  The IO poller brings   *)
(* the devices and their counters and keeps the errors it loaded, by       *)
(* device ID; the statistics poller brings the errors, by device path, and *)
(* keeps the rest.                                                         *)
(***************************************************************************)
EXTENDS Naturals, FiniteSetsExt

CONSTANTS DevIDs,      \* IDs the file system gives its devices, numbers
          Paths,       \* device nodes
          FirstPath,   \* ID -> its node at the start
          MaxEvents    \* bound: faults, changes by operators, lost updates

ASSUME DeviceAssumption ==
    /\ MaxEvents \in Nat /\ DevIDs \subseteq Nat /\ FirstPath \in [DevIDs -> Paths]
    /\ \A d, e \in DevIDs : FirstPath[d] = FirstPath[e] => d = e

VARIABLES fs,          \* the file system: ID -> device
          cached,      \* cachedDevices: ID -> device with its IO counters
          io, stats,   \* the two pollers
          events

devices == <<fs, cached, io, stats>>

(* The path shown of a missing device whose node was not seen.             *)
Unnamed == "<missing disk>"
Names == Paths \cup {Unnamed}

(* errs: one of the five error counters of the device is not zero.         *)
Device == [path : Names, missing : BOOLEAN, errs : BOOLEAN]

(* io: its counters in /sys/block were read.                               *)
DeviceState == [path : Names, missing : BOOLEAN, errs : BOOLEAN, io : BOOLEAN]

Partial(S, T) == UNION {[D -> T] : D \in SUBSET S}
Nothing == [x \in {} |-> x]

DeviceTypeOK ==
    /\ fs \in Partial(DevIDs, Device)
    /\ cached \in Partial(DevIDs, DeviceState)
    /\ io.pc \in {"idle", "fetched", "loaded"}
    /\ io.new \in Partial(DevIDs, DeviceState) /\ io.prev \in Partial(DevIDs, DeviceState)
    /\ stats.pc \in {"idle", "fetched", "loaded"}
    /\ stats.new \in Partial(Names, BOOLEAN) /\ stats.prev \in Partial(DevIDs, DeviceState)
    /\ events \in 0..MaxEvents

IdlePoller == [pc |-> "idle", new |-> Nothing, prev |-> Nothing]

(* btrfs filesystem show, by device ID; a missing device is listed too.    *)
Devices ==
    [d \in DOMAIN fs |-> [path |-> fs[d].path, missing |-> fs[d].missing,
                          errs |-> FALSE, io |-> FALSE]]

(* New: the devices as they are listed, without errors or counters.        *)
InitialStates == Devices

DeviceInit ==
    /\ fs = [d \in DevIDs |-> [path |-> FirstPath[d], missing |-> FALSE, errs |-> FALSE]]
    /\ cached = InitialStates
    /\ io = IdlePoller /\ stats = IdlePoller
    /\ events = 0

Event == events < MaxEvents /\ events' = events + 1
Quiet == UNCHANGED events
-----------------------------------------------------------------------------
(* What happens to the devices.  A lost device keeps its path in the       *)
(* kernel's listing or loses it, and may come back under another one.      *)
DeviceLost(d) ==
    /\ d \in DOMAIN fs /\ ~fs[d].missing /\ Event
    /\ \E p \in {fs[d].path, Unnamed} :
           fs' = [fs EXCEPT ![d].missing = TRUE, ![d].path = p]
    /\ UNCHANGED <<cached, io, stats>>

DeviceReturns(d, p) ==
    /\ d \in DOMAIN fs /\ fs[d].missing /\ Event
    /\ \A e \in DOMAIN fs \ {d} : fs[e].path # p
    /\ fs' = [fs EXCEPT ![d].missing = FALSE, ![d].path = p]
    /\ UNCHANGED <<cached, io, stats>>

(* btrfs device remove: only while another one is left.                    *)
DeviceRemoved(d) ==
    /\ d \in DOMAIN fs /\ DOMAIN fs # {d} /\ Event
    /\ fs' = [e \in DOMAIN fs \ {d} |-> fs[e]]
    /\ UNCHANGED <<cached, io, stats>>

(* Errors are counted; btrfs device stats -z sets the counters to zero.    *)
ErrorsChange(d) ==
    /\ d \in DOMAIN fs /\ Event
    /\ fs' = [fs EXCEPT ![d].errs = ~@]
    /\ UNCHANGED <<cached, io, stats>>
-----------------------------------------------------------------------------
(* Two loads before a store: one of the updates will be lost.              *)
LoadBeside(other) == IF other.pc = "loaded" THEN Event ELSE Quiet

(* updateDeviceIO: Devices, then the counters of the devices that are not  *)
(* missing, any of which may be unreadable.  A failing command ends the    *)
(* round, which changes nothing.                                           *)
Discovered(unread) ==
    [d \in DOMAIN fs |->
        [Devices[d] EXCEPT !.io = ~fs[d].missing /\ d \notin unread]]

IOFetch ==
    /\ io.pc = "idle"
    /\ \/ Quiet /\ io' = [io EXCEPT !.pc = "fetched", !.new = Discovered({})]
       \/ Event /\ \E d \in DOMAIN fs :
                      io' = [io EXCEPT !.pc = "fetched", !.new = Discovered({d})]
    /\ UNCHANGED <<fs, cached, stats>>

IOLoad ==
    /\ io.pc = "fetched" /\ LoadBeside(stats)
    /\ io' = [io EXCEPT !.pc = "loaded", !.prev = cached]
    /\ UNCHANGED <<fs, cached, stats>>

(* Mutant: the IO poller does not keep what the other one has found.       *)
MergeForgets(new, prev) == new

(* The listed devices, each with the errors loaded for its ID.             *)
Merge(new, prev) ==
    [d \in DOMAIN new |->
        [new[d] EXCEPT !.errs = d \in DOMAIN prev /\ prev[d].errs]]

IOStore ==
    /\ io.pc = "loaded" /\ Quiet
    /\ cached' = Merge(io.new, io.prev)
    /\ io' = IdlePoller
    /\ UNCHANGED <<fs, stats>>

(* updateBtrfsStats: DeviceErrors lists the errors by path, those of the   *)
(* last device for a path that several have.  If the command fails the     *)
(* cache is left as it is.                                                 *)
DeviceErrors ==
    [p \in {fs[d].path : d \in DOMAIN fs} |->
        fs[Max({d \in DOMAIN fs : fs[d].path = p})].errs]

StatsFetch ==
    /\ stats.pc = "idle" /\ Quiet
    /\ stats' = [stats EXCEPT !.pc = "fetched", !.new = DeviceErrors]
    /\ UNCHANGED <<fs, cached, io>>

StatsLoad ==
    /\ stats.pc = "fetched" /\ LoadBeside(io)
    /\ stats' = [stats EXCEPT !.pc = "loaded", !.prev = cached]
    /\ UNCHANGED <<fs, cached, io>>

(* The loaded devices, each with the errors listed for its path; a path    *)
(* that is not listed has none.                                            *)
WithErrors(prev, errs) ==
    [d \in DOMAIN prev |->
        [prev[d] EXCEPT !.errs = prev[d].path \in DOMAIN errs /\ errs[prev[d].path]]]

StatsStore ==
    /\ stats.pc = "loaded" /\ Quiet
    /\ cached' = WithErrors(stats.prev, stats.new)
    /\ stats' = IdlePoller
    /\ UNCHANGED <<fs, io>>

(* The agent starts again.                                                 *)
AgentRestart ==
    /\ Event
    /\ cached' = InitialStates
    /\ io' = IdlePoller /\ stats' = IdlePoller
    /\ UNCHANGED fs
-----------------------------------------------------------------------------
(* IsDegraded, and HasErrors of a device.                                  *)
IsDegraded == \E d \in DOMAIN cached : cached[d].missing \/ cached[d].errs

PollerStep == \/ IOFetch \/ IOLoad \/ IOStore
              \/ StatsFetch \/ StatsLoad \/ StatsStore

DeviceEvent == \/ \E d \in DevIDs : \/ DeviceLost(d) \/ DeviceRemoved(d) \/ ErrorsChange(d)
                                    \/ \E p \in Paths : DeviceReturns(d, p)
               \/ AgentRestart

(* The truth about the file system.                                        *)
Unhealthy == \E d \in DOMAIN fs : fs[d].missing \/ fs[d].errs

(* What the agent serves is the file system as it is, counters included,   *)
(* but for the errors of missing devices that have lost their paths.       *)
StatsCurrent ==
    /\ DOMAIN cached = DOMAIN fs
    /\ \A d \in DOMAIN fs :
           /\ cached[d].path = fs[d].path /\ cached[d].missing = fs[d].missing
           /\ fs[d].path # Unnamed => cached[d].errs = fs[d].errs
           /\ cached[d].io = ~fs[d].missing
=============================================================================

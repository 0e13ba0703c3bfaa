----------------------------- MODULE EntryLock -----------------------------
(***************************************************************************)
(* What meta.Store promises of its per-entry lock (the doc comment of      *)
(* Store.Lock): callers of the same entry are mutually exclusive.  This is *)
(* the abstract specification that PathLock, the reference counted         *)
(* semaphore pool of agent/storage/meta/store.go, is shown to implement,   *)
(* and the lock that the storage modules take for granted.                 *)
(***************************************************************************)
CONSTANTS Threads,      \* goroutines that call Lock or Update
          Paths         \* metadata paths, one per volume or snapshot

VARIABLE holders        \* holders[p]: the goroutines inside the lock of p

Init == holders = [p \in Paths |-> {}]

Acquire(t, p) ==
    /\ holders[p] = {}
    /\ holders' = [holders EXCEPT ![p] = {t}]

Release(t, p) ==
    /\ holders[p] = {t}
    /\ holders' = [holders EXCEPT ![p] = {}]

Next == \E t \in Threads, p \in Paths : Acquire(t, p) \/ Release(t, p)

Spec == Init /\ [][Next]_holders
=============================================================================

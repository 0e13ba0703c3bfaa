------------------------------ MODULE PathLock ------------------------------
(***************************************************************************)
(* The per-path mutex pool of agent/storage/meta/store.go.  A refMutex is  *)
(* a one-slot channel (the token is present when the mutex is free) and a  *)
(* reference count of the goroutines that hold or wait for it.  locksMap   *)
(* maps a path to its refMutex; an entry is created by the first goroutine *)
(* that asks for the path and deleted by the last one that leaves.         *)
(*                                                                         *)
(* locksMu makes pathLockShared and releaseRef atomic, so each is one      *)
(* action; the channel operations between them are actions of their own.   *)
(***************************************************************************)
EXTENDS Naturals, FiniteSets

CONSTANTS Threads,      \* goroutines
          Paths,        \* metadata paths
          Mutexes,      \* refMutex objects the heap can hand out
          NoMutex       \* the nil pointer

ASSUME ThreadsFinite == IsFiniteSet(Threads)
ASSUME NoMutexIsNil == NoMutex \notin Mutexes

VARIABLES pc,           \* where each goroutine is
          path,         \* the path it asked for last
          ctx,          \* TRUE: it came through pathLockCtx and may give up
          rm,           \* the refMutex it got from pathLockShared
          locksMap,     \* path -> refMutex
          ch,           \* refMutex -> is the token in the channel
          refs          \* refMutex -> reference count

vars == <<pc, path, ctx, rm, locksMap, ch, refs>>

(* "leaving": the channel is refilled, or the wait was given up, and only  *)
(* releaseRef is left to do.                                               *)
PCs == {"idle", "waiting", "holding", "leaving"}

TypeOK ==
    /\ pc \in [Threads -> PCs]
    /\ path \in [Threads -> Paths]
    /\ ctx \in [Threads -> BOOLEAN]
    /\ rm \in [Threads -> Mutexes \cup {NoMutex}]
    /\ locksMap \in [Paths -> Mutexes \cup {NoMutex}]
    /\ ch \in [Mutexes -> BOOLEAN]
    /\ refs \in [Mutexes -> Nat]

Init ==
    /\ pc = [t \in Threads |-> "idle"]
    /\ path \in [Threads -> Paths]
    /\ ctx = [t \in Threads |-> FALSE]
    /\ rm = [t \in Threads |-> NoMutex]
    /\ locksMap = [p \in Paths |-> NoMutex]
    /\ ch = [m \in Mutexes |-> TRUE]
    /\ refs = [m \in Mutexes |-> 0]

(* A refMutex nobody can reach any more is what allocation may return.     *)
Fresh(m) == /\ \A p \in Paths : locksMap[p] # m
            /\ \A t \in Threads : rm[t] # m

(* pathLockShared, a path that is not in locksMap: make the refMutex with  *)
(* its token, enter it in the map, take the first reference.               *)
ShareNew(t, p, c) ==
    /\ pc[t] = "idle"
    /\ locksMap[p] = NoMutex
    /\ \E m \in Mutexes :
          /\ Fresh(m)
          /\ locksMap' = [locksMap EXCEPT ![p] = m]
          /\ ch' = [ch EXCEPT ![m] = TRUE]
          /\ refs' = [refs EXCEPT ![m] = 1]
          /\ rm' = [rm EXCEPT ![t] = m]
    /\ pc' = [pc EXCEPT ![t] = "waiting"]
    /\ path' = [path EXCEPT ![t] = p]
    /\ ctx' = [ctx EXCEPT ![t] = c]

(* pathLockShared, a path that is in locksMap: one more reference.         *)
ShareExisting(t, p, c) ==
    /\ pc[t] = "idle"
    /\ locksMap[p] # NoMutex
    /\ refs' = [refs EXCEPT ![locksMap[p]] = @ + 1]
    /\ rm' = [rm EXCEPT ![t] = locksMap[p]]
    /\ pc' = [pc EXCEPT ![t] = "waiting"]
    /\ path' = [path EXCEPT ![t] = p]
    /\ ctx' = [ctx EXCEPT ![t] = c]
    /\ UNCHANGED <<locksMap, ch>>

(* <-rm.ch, in pathLock and in the first case of pathLockCtx's select.     *)
Acquire(t) ==
    /\ pc[t] = "waiting"
    /\ ch[rm[t]]
    /\ ch' = [ch EXCEPT ![rm[t]] = FALSE]
    /\ pc' = [pc EXCEPT ![t] = "holding"]
    /\ UNCHANGED <<path, ctx, rm, locksMap, refs>>

(* Mutant: a cancelled waiter refills the channel like a holder would.     *)
GiveUpRefills(t) ==
    /\ pc[t] = "waiting"
    /\ ctx[t]
    /\ ch' = [ch EXCEPT ![rm[t]] = TRUE]
    /\ pc' = [pc EXCEPT ![t] = "leaving"]
    /\ UNCHANGED <<path, ctx, rm, locksMap, refs>>

(* <-ctx.Done() in pathLockCtx.  select picks any ready case, so this may  *)
(* happen although the token is there.                                     *)
GiveUp(t) ==
    /\ pc[t] = "waiting"
    /\ ctx[t]
    /\ pc' = [pc EXCEPT ![t] = "leaving"]
    /\ UNCHANGED <<path, ctx, rm, locksMap, ch, refs>>

(* Mutant: the release closure drops the reference only.                   *)
RefillForgotten(t) ==
    /\ pc[t] = "holding"
    /\ pc' = [pc EXCEPT ![t] = "leaving"]
    /\ UNCHANGED <<path, ctx, rm, locksMap, ch, refs>>

(* rm.ch <- struct{}{}, the first half of makeRelease's closure.           *)
Refill(t) ==
    /\ pc[t] = "holding"
    /\ ch' = [ch EXCEPT ![rm[t]] = TRUE]
    /\ pc' = [pc EXCEPT ![t] = "leaving"]
    /\ UNCHANGED <<path, ctx, rm, locksMap, refs>>

(* Mutant: the entry is deleted although others still wait for it.         *)
ReleaseRefAlwaysDeletes(t) ==
    /\ pc[t] = "leaving"
    /\ refs' = [refs EXCEPT ![rm[t]] = @ - 1]
    /\ locksMap' = [locksMap EXCEPT ![path[t]] = NoMutex]
    /\ pc' = [pc EXCEPT ![t] = "idle"]
    /\ rm' = [rm EXCEPT ![t] = NoMutex]
    /\ UNCHANGED <<path, ctx, ch>>

(* Mutant: an entry that reached zero stays in the map.                    *)
ReleaseRefKeepsEntry(t) ==
    /\ pc[t] = "leaving"
    /\ refs' = [refs EXCEPT ![rm[t]] = @ - 1]
    /\ pc' = [pc EXCEPT ![t] = "idle"]
    /\ rm' = [rm EXCEPT ![t] = NoMutex]
    /\ UNCHANGED <<path, ctx, locksMap, ch>>

(* releaseRef: drop one reference, delete the entry at zero.               *)
ReleaseRef(t) ==
    /\ pc[t] = "leaving"
    /\ refs' = [refs EXCEPT ![rm[t]] = @ - 1]
    /\ locksMap' = IF refs[rm[t]] = 1
                     THEN [locksMap EXCEPT ![path[t]] = NoMutex]
                     ELSE locksMap
    /\ pc' = [pc EXCEPT ![t] = "idle"]
    /\ rm' = [rm EXCEPT ![t] = NoMutex]
    /\ UNCHANGED <<path, ctx, ch>>

Next ==
    \E t \in Threads :
        \/ \E p \in Paths, c \in BOOLEAN : ShareNew(t, p, c) \/ ShareExisting(t, p, c)
        \/ Acquire(t)
        \/ GiveUp(t)
        \/ Refill(t)
        \/ ReleaseRef(t)

Spec == Init /\ [][Next]_vars

(* Holders finish their critical section and leave; Go queues the receivers*)
(* of a channel first come first served, so a waiter is not overtaken for  *)
(* ever.  Nobody is obliged to ask for a lock, or to give up.              *)
Fairness == \A t \in Threads : /\ WF_vars(Refill(t))
                               /\ WF_vars(ReleaseRef(t))
                               /\ SF_vars(Acquire(t))

FairSpec == Spec /\ Fairness
-----------------------------------------------------------------------------
Users(m) == {t \in Threads : rm[t] = m}

(* Two goroutines never hold the lock of one path at the same time, even   *)
(* when an entry is deleted and made again while others come and go: what  *)
(* Store.Lock promises its create-style callers.                           *)
MutualExclusion ==
    \A t, u \in Threads :
        pc[t] = "holding" /\ pc[u] = "holding" /\ path[t] = path[u] => t = u

(* Every goroutine between pathLockShared and releaseRef works on the      *)
(* refMutex locksMap still holds for its path, never on a collected one.   *)
SharedIsMapped ==
    \A t \in Threads :
        IF pc[t] = "idle" THEN rm[t] = NoMutex
                          ELSE rm[t] = locksMap[path[t]] /\ rm[t] # NoMutex

(* The pool does not leak: a path is in locksMap exactly while its         *)
(* reference count is the number, not zero, of goroutines that use it.     *)
CountsUsers ==
    \A p \in Paths :
        locksMap[p] # NoMutex =>
            /\ refs[locksMap[p]] = Cardinality(Users(locksMap[p]))
            /\ Users(locksMap[p]) # {}

(* Two paths never share one refMutex.                                     *)
NoAliasing ==
    \A p, q \in Paths :
        locksMap[p] = locksMap[q] /\ locksMap[p] # NoMutex => p = q

(* The token of a mapped refMutex is out exactly while one goroutine holds.*)
TokenIsFree ==
    \A p \in Paths :
        locksMap[p] # NoMutex =>
            (ch[locksMap[p]] <=> \A t \in Threads : ~(pc[t] = "holding" /\ path[t] = p))

(* The inductive invariant the theorems of PathLockProofs rest on.         *)
IInv == /\ TypeOK
        /\ MutualExclusion
        /\ SharedIsMapped
        /\ CountsUsers
        /\ NoAliasing
        /\ TokenIsFree

(* A waiter gets the lock or gives up: neither a stuck count nor a lost    *)
(* token leaves it in the channel receive of pathLock for ever.            *)
WaiterServed == \A t \in Threads : pc[t] = "waiting" ~> pc[t] # "waiting"

(* The pool implements the abstract lock: acquiring and refilling are its  *)
(* Acquire and Release, everything else is invisible.                      *)
holders == [p \in Paths |-> {t \in Threads : pc[t] = "holding" /\ path[t] = p}]
Abstract == INSTANCE EntryLock
ImplementsEntryLock == Abstract!Spec
=============================================================================

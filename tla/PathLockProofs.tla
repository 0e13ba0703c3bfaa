--------------------------- MODULE PathLockProofs ---------------------------
(***************************************************************************)
(* Theorems about the refMutex pool for every set of goroutines (finite),  *)
(* paths and refMutex objects.                                             *)
(***************************************************************************)
EXTENDS PathLock, FiniteSetTheorems, TLAPS

(* A goroutine that takes or drops a reference changes the number of users *)
(* of a refMutex by one; Threads is finite, so the users can be counted.   *)
LEMMA UsersFinite ==
    ASSUME NEW m
    PROVE  IsFiniteSet(Users(m)) /\ Cardinality(Users(m)) \in Nat
<1>1. Users(m) \subseteq Threads
    BY DEF Users
<1>2. IsFiniteSet(Users(m))
    BY <1>1, ThreadsFinite, FS_Subset
<1> QED BY <1>2, FS_CardinalityType

(* pathLockShared bumps the count of the refMutex it returns.              *)
LEMMA UsersGrow ==
    ASSUME TypeOK, NEW t \in Threads, NEW m \in Mutexes,
           rm[t] = NoMutex, rm' = [rm EXCEPT ![t] = m]
    PROVE  /\ Users(m)' = Users(m) \cup {t}
           /\ Cardinality(Users(m)') = Cardinality(Users(m)) + 1
           /\ \A n \in Mutexes : n # m => Users(n)' = Users(n)
<1>1. Users(m)' = Users(m) \cup {t} /\ t \notin Users(m)
    BY NoMutexIsNil DEF Users, TypeOK
<1>2. Cardinality(Users(m) \cup {t}) = Cardinality(Users(m)) + 1
    BY <1>1, UsersFinite, FS_AddElement
<1>3. \A n \in Mutexes : n # m => Users(n)' = Users(n)
    BY NoMutexIsNil DEF Users, TypeOK
<1> QED BY <1>1, <1>2, <1>3

(* releaseRef drops the count of the refMutex it is given.                 *)
LEMMA UsersShrink ==
    ASSUME TypeOK, NEW t \in Threads, NEW m \in Mutexes,
           rm[t] = m, rm' = [rm EXCEPT ![t] = NoMutex]
    PROVE  /\ Users(m)' = Users(m) \ {t}
           /\ Cardinality(Users(m)') = Cardinality(Users(m)) - 1
           /\ \A n \in Mutexes : n # m => Users(n)' = Users(n)
<1>1. Users(m)' = Users(m) \ {t} /\ t \in Users(m)
    BY NoMutexIsNil DEF Users, TypeOK
<1>2. Cardinality(Users(m) \ {t}) = Cardinality(Users(m)) - 1
    BY <1>1, UsersFinite, FS_RemoveElement
<1>3. \A n \in Mutexes : n # m => Users(n)' = Users(n)
    BY NoMutexIsNil DEF Users, TypeOK
<1> QED BY <1>1, <1>2, <1>3
-----------------------------------------------------------------------------
(* The empty pool of a new Store satisfies the invariant.                  *)
LEMMA InitIInv == Init => IInv
<1> SUFFICES ASSUME Init PROVE IInv
    OBVIOUS
<1>1. TypeOK
    BY DEF Init, TypeOK, PCs
<1>2. MutualExclusion /\ SharedIsMapped /\ NoAliasing /\ TokenIsFree
    BY DEF Init, MutualExclusion, SharedIsMapped, NoAliasing, TokenIsFree
<1>3. CountsUsers
    BY DEF Init, CountsUsers
<1> QED BY <1>1, <1>2, <1>3 DEF IInv

(* pathLockShared puts a fresh refMutex into the map, with one user and    *)
(* its token in place.                                                     *)
LEMMA ShareNewIInv ==
    ASSUME IInv, NEW t \in Threads, NEW p \in Paths, NEW c \in BOOLEAN,
           ShareNew(t, p, c)
    PROVE  IInv'
<1> USE DEF IInv
<1> PICK m \in Mutexes :
          /\ Fresh(m)
          /\ locksMap' = [locksMap EXCEPT ![p] = m]
          /\ ch' = [ch EXCEPT ![m] = TRUE]
          /\ refs' = [refs EXCEPT ![m] = 1]
          /\ rm' = [rm EXCEPT ![t] = m]
    BY DEF ShareNew
<1> m # NoMutex /\ rm[t] = NoMutex
    BY NoMutexIsNil DEF ShareNew, SharedIsMapped
<1>1. TypeOK'
    BY DEF ShareNew, TypeOK, PCs
<1>2. MutualExclusion'
    BY DEF ShareNew, TypeOK, MutualExclusion
<1>3. SharedIsMapped'
    BY DEF ShareNew, TypeOK, SharedIsMapped
<1>4. CountsUsers'
  <2>1. Users(m) = {}
      BY DEF Users, Fresh
  <2>2. /\ Users(m)' = Users(m) \cup {t}
        /\ Cardinality(Users(m)') = Cardinality(Users(m)) + 1
        /\ \A n \in Mutexes : n # m => Users(n)' = Users(n)
      BY UsersGrow
  <2>3. Cardinality(Users(m)') = 1 /\ Users(m)' # {}
      BY <2>1, <2>2, FS_EmptySet
  <2>4. \A q \in Paths : locksMap'[q] = IF q = p THEN m ELSE locksMap[q]
      BY DEF TypeOK
  <2>5. \A n \in Mutexes : refs'[n] = IF n = m THEN 1 ELSE refs[n]
      BY DEF TypeOK
  <2> SUFFICES ASSUME NEW q \in Paths, NEW n \in Mutexes, n = locksMap'[q]
               PROVE  refs'[n] = Cardinality(Users(n)') /\ Users(n)' # {}
      BY <1>1 DEF CountsUsers, Users, TypeOK
  <2>6. CASE q = p
      BY <2>6, <2>3, <2>4, <2>5
  <2>7. CASE q # p
    <3>1. n = locksMap[q] /\ n # m
        BY <2>7, <2>4 DEF Fresh
    <3>2. refs[n] = Cardinality(Users(n)) /\ Users(n) # {}
        BY <3>1, NoMutexIsNil DEF CountsUsers
    <3> QED BY <3>1, <3>2, <2>2, <2>5
  <2> QED BY <2>6, <2>7
<1>5. NoAliasing'
    BY DEF Fresh, TypeOK, NoAliasing
<1>6. TokenIsFree'
  <2> SUFFICES ASSUME NEW q \in Paths, locksMap'[q] # NoMutex
               PROVE  ch'[locksMap'[q]] <=>
                        \A u \in Threads : ~(pc'[u] = "holding" /\ path'[u] = q)
      BY DEF TokenIsFree
  <2>1. CASE q = p
    <3>1. \A u \in Threads : ~(pc[u] = "holding" /\ path[u] = p)
        BY DEF ShareNew, SharedIsMapped
    <3> QED BY <2>1, <3>1 DEF ShareNew, TypeOK
  <2>2. CASE q # p
      BY <2>2 DEF ShareNew, TypeOK, Fresh, TokenIsFree
  <2> QED BY <2>1, <2>2
<1> QED BY <1>1, <1>2, <1>3, <1>4, <1>5, <1>6

(* pathLockShared finds a refMutex in the map and counts one more user.    *)
LEMMA ShareExistingIInv ==
    ASSUME IInv, NEW t \in Threads, NEW p \in Paths, NEW c \in BOOLEAN,
           ShareExisting(t, p, c)
    PROVE  IInv'
<1> USE DEF IInv
<1> rm[t] = NoMutex
    BY DEF ShareExisting, SharedIsMapped
<1> PICK m \in Mutexes : m = locksMap[p]
    BY DEF ShareExisting, TypeOK
<1>1. TypeOK'
    BY DEF ShareExisting, TypeOK, PCs
<1>2. MutualExclusion' /\ NoAliasing'
    BY DEF ShareExisting, TypeOK, MutualExclusion, NoAliasing
<1>3. SharedIsMapped'
    BY DEF ShareExisting, TypeOK, SharedIsMapped
<1>4. CountsUsers'
  <2>1. /\ Users(m)' = Users(m) \cup {t}
        /\ Cardinality(Users(m)') = Cardinality(Users(m)) + 1
        /\ \A n \in Mutexes : n # m => Users(n)' = Users(n)
      BY UsersGrow DEF ShareExisting
  <2>2. locksMap' = locksMap /\ refs' = [refs EXCEPT ![m] = @ + 1]
      BY DEF ShareExisting
  <2> SUFFICES ASSUME NEW q \in Paths, NEW n \in Mutexes, n = locksMap[q]
               PROVE  refs'[n] = Cardinality(Users(n)') /\ Users(n)' # {}
      BY <2>2, <1>1 DEF CountsUsers, Users, TypeOK
  <2>3. refs[n] = Cardinality(Users(n)) /\ Users(n) # {}
      BY NoMutexIsNil DEF CountsUsers
  <2>4. CASE n = m
      BY <2>1, <2>2, <2>3, <2>4 DEF TypeOK
  <2>5. CASE n # m
      BY <2>1, <2>2, <2>3, <2>5 DEF TypeOK
  <2> QED BY <2>4, <2>5
<1>5. TokenIsFree'
    BY DEF ShareExisting, TypeOK, TokenIsFree
<1> QED BY <1>1, <1>2, <1>3, <1>4, <1>5

(* The steps that leave rm, locksMap and refs alone cannot disturb who     *)
(* uses what.                                                              *)
LEMMA PoolUnchanged ==
    ASSUME IInv, TypeOK', UNCHANGED <<path, rm, locksMap, refs>>,
           \A t \in Threads : pc'[t] = "idle" <=> pc[t] = "idle"
    PROVE  SharedIsMapped' /\ CountsUsers' /\ NoAliasing'
<1> USE DEF IInv
<1>1. SharedIsMapped' /\ NoAliasing'
    BY DEF SharedIsMapped, NoAliasing
<1>2. CountsUsers'
    BY DEF CountsUsers, Users
<1> QED BY <1>1, <1>2

(* Receiving the token makes the goroutine the only holder.                *)
LEMMA AcquireIInv ==
    ASSUME IInv, NEW t \in Threads, Acquire(t)
    PROVE  IInv'
<1> USE DEF IInv
<1>1. TypeOK'
    BY DEF Acquire, TypeOK, PCs
<1>2. SharedIsMapped' /\ CountsUsers' /\ NoAliasing'
    BY <1>1, PoolUnchanged DEF Acquire, TypeOK
<1>3. rm[t] = locksMap[path[t]] /\ rm[t] \in Mutexes /\ path[t] \in Paths
    BY DEF Acquire, SharedIsMapped, TypeOK
<1>4. \A u \in Threads : ~(pc[u] = "holding" /\ path[u] = path[t])
    BY <1>3, NoMutexIsNil DEF Acquire, TokenIsFree
<1>5. MutualExclusion'
    BY <1>4 DEF Acquire, TypeOK, MutualExclusion
<1>6. TokenIsFree'
  <2> SUFFICES ASSUME NEW q \in Paths, locksMap[q] # NoMutex
               PROVE  ch'[locksMap[q]] <=>
                        \A u \in Threads : ~(pc'[u] = "holding" /\ path[u] = q)
      BY DEF TokenIsFree, Acquire
  <2>1. CASE q = path[t]
      BY <2>1, <1>3 DEF Acquire, TypeOK
  <2>2. CASE q # path[t]
    <3>1. locksMap[q] # rm[t] /\ locksMap[q] \in Mutexes
        BY <2>2, <1>3 DEF NoAliasing, TypeOK
    <3> QED BY <2>2, <3>1 DEF Acquire, TypeOK, TokenIsFree
  <2> QED BY <2>1, <2>2
<1> QED BY <1>1, <1>2, <1>5, <1>6

(* A wait that ends with its context holds nothing and must still drop its *)
(* reference.                                                              *)
LEMMA GiveUpIInv ==
    ASSUME IInv, NEW t \in Threads, GiveUp(t)
    PROVE  IInv'
<1> USE DEF IInv
<1>1. TypeOK'
    BY DEF GiveUp, TypeOK, PCs
<1>2. SharedIsMapped' /\ CountsUsers' /\ NoAliasing'
    BY <1>1, PoolUnchanged DEF GiveUp, TypeOK
<1>3. MutualExclusion' /\ TokenIsFree'
    BY DEF GiveUp, TypeOK, MutualExclusion, TokenIsFree
<1> QED BY <1>1, <1>2, <1>3

(* The holder puts the token back before it drops its reference.           *)
LEMMA RefillIInv ==
    ASSUME IInv, NEW t \in Threads, Refill(t)
    PROVE  IInv'
<1> USE DEF IInv
<1>1. TypeOK'
    BY DEF Refill, TypeOK, PCs
<1>2. SharedIsMapped' /\ CountsUsers' /\ NoAliasing'
    BY <1>1, PoolUnchanged DEF Refill, TypeOK
<1>3. MutualExclusion'
    BY DEF Refill, TypeOK, MutualExclusion
<1>4. rm[t] = locksMap[path[t]] /\ rm[t] \in Mutexes /\ path[t] \in Paths
    BY DEF Refill, SharedIsMapped, TypeOK
<1>5. TokenIsFree'
  <2> SUFFICES ASSUME NEW q \in Paths, locksMap[q] # NoMutex
               PROVE  ch'[locksMap[q]] <=>
                        \A u \in Threads : ~(pc'[u] = "holding" /\ path[u] = q)
      BY DEF TokenIsFree, Refill
  <2>1. CASE q = path[t]
    <3>1. \A u \in Threads : pc[u] = "holding" /\ path[u] = q => u = t
        BY <2>1 DEF Refill, MutualExclusion
    <3> QED BY <2>1, <3>1, <1>4 DEF Refill, TypeOK
  <2>2. CASE q # path[t]
    <3>1. locksMap[q] # rm[t] /\ locksMap[q] \in Mutexes
        BY <2>2, <1>4 DEF NoAliasing, TypeOK
    <3> QED BY <2>2, <3>1 DEF Refill, TypeOK, TokenIsFree
  <2> QED BY <2>1, <2>2
<1> QED BY <1>1, <1>2, <1>3, <1>5

(* releaseRef deletes the map's entry exactly when the last user leaves;   *)
(* nobody can then hold or wait for that refMutex.                         *)
LEMMA ReleaseRefIInv ==
    ASSUME IInv, NEW t \in Threads, ReleaseRef(t)
    PROVE  IInv'
<1> USE DEF IInv
<1> PICK m \in Mutexes : m = rm[t]
    BY DEF ReleaseRef, SharedIsMapped, TypeOK
<1>1. m = locksMap[path[t]] /\ m # NoMutex /\ path[t] \in Paths
    BY NoMutexIsNil DEF ReleaseRef, SharedIsMapped, TypeOK
<1>2. /\ Users(m)' = Users(m) \ {t}
      /\ Cardinality(Users(m)') = Cardinality(Users(m)) - 1
      /\ \A n \in Mutexes : n # m => Users(n)' = Users(n)
    BY <1>1, UsersShrink DEF ReleaseRef
<1>3. refs[m] = Cardinality(Users(m)) /\ refs[m] \in Nat /\ refs[m] # 0 /\ t \in Users(m)
  <2>1. refs[m] = Cardinality(Users(m)) /\ Users(m) # {}
      BY <1>1 DEF CountsUsers
  <2>2. Cardinality(Users(m)) # 0
      BY <2>1, UsersFinite, FS_EmptySet
  <2> QED BY <2>1, <2>2, <1>1 DEF TypeOK, Users
(* At one reference t is the only user, and the entry may go. *)
<1>4. refs[m] = 1 => Users(m) = {t}
  <2> SUFFICES ASSUME refs[m] = 1 PROVE Users(m) = {t}
      OBVIOUS
  <2>1. Cardinality(Users(m) \ {t}) = 0
      BY <1>2, <1>3
  <2>2. IsFiniteSet(Users(m) \ {t})
      BY UsersFinite, FS_Subset
  <2>3. Users(m) \ {t} = {}
      BY <2>1, <2>2, FS_EmptySet
  <2> QED BY <2>3, <1>3
<1>5. TypeOK'
    BY <1>3 DEF ReleaseRef, TypeOK, PCs
<1>6. MutualExclusion'
    BY DEF ReleaseRef, TypeOK, MutualExclusion
<1>7. \A u \in Threads : u # t /\ pc[u] # "idle" /\ path[u] = path[t] => refs[m] # 1
    BY <1>1, <1>4 DEF SharedIsMapped, Users
<1>8. SharedIsMapped'
    BY <1>7 DEF ReleaseRef, TypeOK, SharedIsMapped
<1>9. NoAliasing'
    BY DEF ReleaseRef, TypeOK, NoAliasing
<1>10. CountsUsers'
  <2> SUFFICES ASSUME NEW q \in Paths, NEW n \in Mutexes, n = locksMap'[q]
               PROVE  refs'[n] = Cardinality(Users(n)') /\ Users(n)' # {}
      BY <1>5 DEF CountsUsers, Users, TypeOK
  <2>1. n = locksMap[q]
      BY NoMutexIsNil DEF ReleaseRef, TypeOK
  <2>2. refs[n] = Cardinality(Users(n)) /\ Users(n) # {}
      BY <2>1, NoMutexIsNil DEF CountsUsers
  <2>3. CASE q = path[t]
    <3>1. refs[m] # 1 /\ n = m
        BY <2>3, <2>1, <1>1, NoMutexIsNil DEF ReleaseRef, TypeOK
    <3>2. refs'[m] = refs[m] - 1
        BY <1>1 DEF ReleaseRef, TypeOK
    <3>3. Cardinality(Users(m)') # 0
        BY <1>2, <1>3, <3>1
    <3>4. Users(m)' # {}
        BY <3>3, FS_EmptySet
    <3> QED BY <3>1, <3>2, <3>4, <1>2, <1>3
  <2>4. CASE q # path[t]
    <3>1. n # m
        BY <2>4, <2>1, <1>1 DEF NoAliasing
    <3>2. refs'[n] = refs[n]
        BY <3>1 DEF ReleaseRef, TypeOK
    <3> QED BY <3>1, <3>2, <2>2, <1>2
  <2> QED BY <2>3, <2>4
<1>11. TokenIsFree'
    BY DEF ReleaseRef, TypeOK, TokenIsFree
<1> QED BY <1>5, <1>6, <1>8, <1>9, <1>10, <1>11

(* A stuttering step keeps the invariant.                                  *)
LEMMA StutterIInv == IInv /\ UNCHANGED vars => IInv'
    BY DEF IInv, vars, TypeOK, MutualExclusion, SharedIsMapped, CountsUsers,
           Users, NoAliasing, TokenIsFree

(* Every step of every goroutine keeps the invariant.                      *)
LEMMA NextIInv == IInv /\ [Next]_vars => IInv'
<1> SUFFICES ASSUME IInv, [Next]_vars PROVE IInv'
    OBVIOUS
<1>1. ASSUME NEW t \in Threads, NEW p \in Paths, NEW c \in BOOLEAN, ShareNew(t, p, c)
      PROVE  IInv'
    BY <1>1, ShareNewIInv
<1>2. ASSUME NEW t \in Threads, NEW p \in Paths, NEW c \in BOOLEAN, ShareExisting(t, p, c)
      PROVE  IInv'
    BY <1>2, ShareExistingIInv
<1>3. ASSUME NEW t \in Threads, Acquire(t) PROVE IInv'
    BY <1>3, AcquireIInv
<1>4. ASSUME NEW t \in Threads, GiveUp(t) PROVE IInv'
    BY <1>4, GiveUpIInv
<1>5. ASSUME NEW t \in Threads, Refill(t) PROVE IInv'
    BY <1>5, RefillIInv
<1>6. ASSUME NEW t \in Threads, ReleaseRef(t) PROVE IInv'
    BY <1>6, ReleaseRefIInv
<1>7. CASE UNCHANGED vars
    BY <1>7, StutterIInv
<1> QED BY <1>1, <1>2, <1>3, <1>4, <1>5, <1>6, <1>7 DEF Next

(* The inductive invariant holds of every behaviour of the pool.           *)
THEOREM PoolInvariant == Spec => []IInv
<1> QED BY InitIInv, NextIInv, PTL DEF Spec

(* Store.Lock is a mutual exclusion lock per path whatever the number of   *)
(* goroutines, paths and give-ups, entries being deleted and made again.   *)
THEOREM PoolMutualExclusion == Spec => []MutualExclusion
<1>1. IInv => MutualExclusion
    BY DEF IInv
<1> QED BY <1>1, PoolInvariant, PTL

(* locksMap holds an entry exactly while somebody uses it, with the right  *)
(* reference count: pathLockCtx's give-up path does not leak.              *)
THEOREM PoolDoesNotLeak == Spec => []CountsUsers
<1>1. IInv => CountsUsers
    BY DEF IInv
<1> QED BY <1>1, PoolInvariant, PTL
-----------------------------------------------------------------------------
(* Nobody holds a lock of a new Store.                                     *)
LEMMA InitRefines == Init => Abstract!Init
    BY DEF Init, Abstract!Init, holders

(* Receiving the token is the abstract Acquire, refilling it the abstract  *)
(* Release, and every other step of the pool changes no holder.            *)
LEMMA NextRefines == IInv /\ [Next]_vars => [Abstract!Next]_holders
<1> SUFFICES ASSUME IInv, [Next]_vars PROVE [Abstract!Next]_holders
    OBVIOUS
<1> USE DEF IInv
<1>1. ASSUME NEW t \in Threads, NEW p \in Paths, NEW c \in BOOLEAN,
             ShareNew(t, p, c) \/ ShareExisting(t, p, c)
      PROVE  UNCHANGED holders
    BY <1>1 DEF ShareNew, ShareExisting, TypeOK, holders
<1>2. ASSUME NEW t \in Threads, Acquire(t) PROVE Abstract!Next
  <2>1. path[t] \in Paths /\ rm[t] = locksMap[path[t]] /\ rm[t] # NoMutex
      BY <1>2 DEF Acquire, SharedIsMapped, TypeOK
  <2>2. \A u \in Threads : ~(pc[u] = "holding" /\ path[u] = path[t])
      BY <1>2, <2>1 DEF Acquire, TokenIsFree
  <2>3. holders[path[t]] = {}
      BY <2>1, <2>2 DEF holders
  <2>4. holders' = [holders EXCEPT ![path[t]] = {t}]
    <3>1. \A u \in Threads : pc'[u] = "holding" <=> u = t \/ pc[u] = "holding"
        BY <1>2 DEF Acquire, TypeOK
    <3>2. path' = path
        BY <1>2 DEF Acquire
    <3>3. ASSUME NEW q \in Paths
          PROVE  {u \in Threads : pc'[u] = "holding" /\ path'[u] = q}
                   = IF q = path[t] THEN {t}
                     ELSE {u \in Threads : pc[u] = "holding" /\ path[u] = q}
        BY <3>1, <3>2, <2>2
    <3> QED BY <3>3, <2>1 DEF holders
  <2> QED BY <2>1, <2>3, <2>4 DEF Abstract!Next, Abstract!Acquire
<1>3. ASSUME NEW t \in Threads, GiveUp(t) \/ ReleaseRef(t) PROVE UNCHANGED holders
    BY <1>3 DEF GiveUp, ReleaseRef, TypeOK, holders
<1>4. ASSUME NEW t \in Threads, Refill(t) PROVE Abstract!Next
  <2>1. path[t] \in Paths
      BY DEF TypeOK
  <2>2. \A u \in Threads : pc[u] = "holding" /\ path[u] = path[t] => u = t
      BY <1>4 DEF Refill, MutualExclusion
  <2>3. holders[path[t]] = {t}
      BY <1>4, <2>1, <2>2 DEF Refill, holders
  <2>4. holders' = [holders EXCEPT ![path[t]] = {}]
      BY <1>4, <2>1, <2>2 DEF Refill, TypeOK, holders
  <2> QED BY <2>1, <2>3, <2>4 DEF Abstract!Next, Abstract!Release
<1>5. CASE UNCHANGED vars
    BY <1>5 DEF vars, holders
<1> QED BY <1>1, <1>2, <1>3, <1>4, <1>5 DEF Next

(* The refMutex pool implements the abstract per-entry lock: goroutines    *)
(* see a lock that is taken when free and freed by the one that holds it.  *)
THEOREM PoolImplementsEntryLock == Spec => ImplementsEntryLock
<1> QED BY InitRefines, NextRefines, PoolInvariant, PTL
        DEF Spec, ImplementsEntryLock, Abstract!Spec
=============================================================================

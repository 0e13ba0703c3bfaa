-------------------------- MODULE VolumeStoreProofs --------------------------
(***************************************************************************)
(* Volumes and snapshots for any number of names, goroutines of each kind, *)
(* create requests and restarts: a committed creation survives until a     *)
(* delete is requested (CommittedSurvives), every lock held is on its way  *)
(* to its unlock (LockedByWorker), and the cache serves a committed entry  *)
(* as the disk holds it until a Get caches an outdated file (ServedIsReal).*)
(***************************************************************************)
EXTENDS VolumeStore, TLAPS

(* A step of goroutine p to l, with r for its request and locals.          *)
Moves(p, l, r) == pc' = [pc EXCEPT ![p] = l] /\ req' = [req EXCEPT ![p] = r]

(* The locals that a request changes on its way.                           *)
LEMMA ChangedLocals ==
    ASSUME NEW r \in Requests, NEW m \in Metadata \cup {None}
    PROVE  /\ [r EXCEPT !.val = m] \in Requests
           /\ [r EXCEPT !.val = m].val = m
           /\ [r EXCEPT !.val = m].op = r.op /\ [r EXCEPT !.val = m].e = r.e
           /\ [r EXCEPT !.val = m].src = r.src /\ [r EXCEPT !.val = m].get = r.get
           /\ [r EXCEPT !.val = m].vol = r.vol /\ [r EXCEPT !.val = m].id = r.id
BY DEF Requests

LEMMA LocalsAtLock ==
    ASSUME NEW r \in Requests
    PROVE  /\ [r EXCEPT !.get = "self"] \in Requests
           /\ [r EXCEPT !.get = "self"].get = "self"
           /\ [r EXCEPT !.get = "self"].op = r.op /\ [r EXCEPT !.get = "self"].e = r.e
           /\ [r EXCEPT !.get = "self"].src = r.src /\ [r EXCEPT !.get = "self"].val = r.val
           /\ [r EXCEPT !.get = "self"].vol = r.vol /\ [r EXCEPT !.get = "self"].id = r.id
BY DEF Requests

LEMMA IdleFits == Idle \in Requests
BY Bounds DEF Idle, Requests, Ops

(* A goroutine that is not idle works on entries.                          *)
LEMMA WorksOnEntries ==
    ASSUME IInv, NEW p \in Procs, pc[p] # "idle"
    PROVE  /\ req[p] \in Requests /\ req[p].e \in Entries
           /\ pc[p] \in {"load", "read", "fill"} => Wanted(p) \in Entries
<1>1. req[p] \in Requests /\ Fits(p, pc[p], req[p])
    BY DEF IInv, TypeOK, RequestsFit
<1>2. CASE p \in Creators
    BY <1>1, <1>2 DEF Fits, CreateFits, Wanted, WantedBy, Entries, Requests
<1>3. CASE p \in Deleters \cup Updaters \cup Readers
    BY <1>1, <1>3 DEF Fits, DeleteFits, UpdateFits, ReadFits, Wanted, WantedBy, Entries
<1> QED BY <1>2, <1>3 DEF Procs

(* A move that fits keeps what is said of all requests, if it keeps the    *)
(* locks of the others and does not touch a committed entry.               *)
LEMMA MoveKeeps ==
    ASSUME IInv, NEW p \in Procs, NEW l \in PCs, NEW r \in Requests,
           Moves(p, l, r), Fits(p, l, r),
           Inside(p, l, r) => holders'[r.e] = {p},
           \A q \in Procs \ {p} : Inside(q, pc[q], req[q]) => holders'[req[q].e] = {q},
           l # "idle" /\ committed'[r.e] # None => Harmless(p, l),
           \A q \in Procs \ {p} :
               pc[q] # "idle" /\ committed'[req[q].e] # None => Harmless(q, pc[q])
    PROVE  /\ pc' \in [Procs -> PCs] /\ req' \in [Procs -> Requests]
           /\ RequestsFit' /\ LockHeld' /\ CommittedAlone'
<1>1. pc' \in [Procs -> PCs] /\ req' \in [Procs -> Requests]
    BY DEF IInv, TypeOK, Moves
<1>2. /\ pc'[p] = l /\ req'[p] = r
      /\ \A q \in Procs \ {p} : pc'[q] = pc[q] /\ req'[q] = req[q]
    BY DEF IInv, TypeOK, Moves
<1>3. RequestsFit'
    BY <1>2 DEF IInv, RequestsFit
<1>4. LockHeld'
    BY <1>2 DEF LockHeld
<1>5. CommittedAlone'
    BY <1>2 DEF CommittedAlone
<1> QED BY <1>1, <1>3, <1>4, <1>5

(* The same for a move that leaves locks and commitments alone.            *)
LEMMA QuietMove ==
    ASSUME IInv, NEW p \in Procs, NEW l \in PCs, NEW r \in Requests,
           Moves(p, l, r), Fits(p, l, r), UNCHANGED <<holders, committed>>,
           Inside(p, l, r) => Inside(p, pc[p], req[p]) /\ r.e = req[p].e,
           l # "idle" /\ committed[r.e] # None => Harmless(p, l)
    PROVE  /\ pc' \in [Procs -> PCs] /\ req' \in [Procs -> Requests]
           /\ RequestsFit' /\ LockHeld' /\ CommittedAlone'
<1>1. Inside(p, l, r) => holders'[r.e] = {p}
    BY DEF IInv, LockHeld
<1>2. \A q \in Procs \ {p} : Inside(q, pc[q], req[q]) => holders'[req[q].e] = {q}
    BY DEF IInv, LockHeld
<1>3. \A q \in Procs \ {p} :
          pc[q] # "idle" /\ committed'[req[q].e] # None => Harmless(q, pc[q])
    BY DEF IInv, CommittedAlone
<1> QED BY <1>1, <1>2, <1>3, MoveKeeps

-----------------------------------------------------------------------------
LEMMA InitIInv == Init => IInv
<1> SUFFICES ASSUME Init PROVE IInv
    OBVIOUS
<1>1. TypeOK
    BY Bounds, IdleFits DEF Init, TypeOK, Empty, PCs, Lock!Init
<1>2. RequestsFit /\ LockHeld /\ CommittedAlone
    BY DEF Init, RequestsFit, Fits, LockHeld, Inside, CommittedAlone
<1>3. SnapshotsHaveVolume /\ CommittedSurvives
    BY DEF Init, Empty, SnapshotsHaveVolume, HasVolume, CommittedSurvives
<1> QED BY <1>1, <1>2, <1>3 DEF IInv

(* Where Found leads: not into the lock, and not to a removal of an entry  *)
(* that nobody has asked to delete.                                        *)
LEMMA FoundMoves ==
    ASSUME IInv, NEW p \in Procs, pc[p] \in {"load", "fill"}, NEW m \in Metadata,
           HasVolume(Wanted(p), m), Found(p, m)
    PROVE  \E l \in PCs, r \in Requests :
              /\ Moves(p, l, r) /\ Fits(p, l, r)
              /\ Inside(p, l, r) => Inside(p, pc[p], req[p]) /\ r.e = req[p].e
              /\ l # "idle" /\ committed[r.e] # None => Harmless(p, l)
<1> DEFINE q == [req[p] EXCEPT !.val = None]
           w == [req[p] EXCEPT !.val = m]
           v == [req[p] EXCEPT !.get = "vol", !.vol = m.volume, !.val = None]
<1>1. req[p] \in Requests /\ Fits(p, pc[p], req[p]) /\ pc[p] # "idle"
    BY DEF IInv, TypeOK, RequestsFit
<1>2. /\ q \in Requests /\ q.val = None /\ q.op = req[p].op /\ q.e = req[p].e
      /\ q.src = req[p].src /\ q.get = req[p].get /\ q.vol = req[p].vol /\ q.id = req[p].id
    BY <1>1, ChangedLocals
<1>3. /\ w \in Requests /\ w.val = m /\ w.op = req[p].op /\ w.e = req[p].e
      /\ w.src = req[p].src /\ w.get = req[p].get /\ w.vol = req[p].vol /\ w.id = req[p].id
    BY <1>1, ChangedLocals
<1>4. /\ v \in Requests /\ v.val = None /\ v.op = req[p].op /\ v.e = req[p].e
      /\ v.src = req[p].src /\ v.get = "vol" /\ v.vol = m.volume /\ v.id = req[p].id
    BY <1>1 DEF Requests, Metadata
<1>5. committed[req[p].e] # None => Harmless(p, pc[p])
    BY <1>1 DEF IInv, CommittedAlone
<1> HIDE DEF q, w, v
<1>a. CASE /\ req[p].get = "src" /\ Op(p) = "CreateClone" /\ Moves(p, "load", v)
  <2>1. p \in Creators /\ m.volume \in Volumes
      BY <1>1, <1>a, NoneIsNoMetadata, KindsDisjoint
         DEF Fits, CreateFits, DeleteFits, UpdateFits, ReadFits, Procs, Op, HasVolume,
             Wanted, WantedBy
  <2>2. Fits(p, "load", v) /\ ~Inside(p, "load", v) /\ Harmless(p, "load")
      BY <1>1, <1>4, <1>a, <2>1, KindsDisjoint DEF Fits, CreateFits, Inside, Harmless, Op
  <2> QED BY <1>4, <1>a, <2>2 DEF PCs
<1>b. CASE /\ req[p].get = "vol" \/ (req[p].get = "src" /\ Op(p) # "CreateClone")
           /\ Moves(p, "lock", q)
  <2>1. p \in Creators
      BY <1>1, <1>b DEF Fits, DeleteFits, UpdateFits, ReadFits, Procs
  <2>2. Fits(p, "lock", q) /\ ~Inside(p, "lock", q) /\ Harmless(p, "lock")
      BY <1>1, <1>2, <1>b, <2>1, KindsDisjoint DEF Fits, CreateFits, Inside, Harmless
  <2> QED BY <1>2, <1>b, <2>2 DEF PCs
<1>c. CASE req[p].get = "self" /\ p \in Creators /\ Moves(p, "unlock", q)
  <2>1. Fits(p, "unlock", q) /\ Inside(p, pc[p], req[p]) /\ Harmless(p, "unlock")
      BY <1>1, <1>2, <1>c, KindsDisjoint DEF Fits, CreateFits, Inside, Harmless
  <2> QED BY <1>2, <1>c, <2>1 DEF PCs
<1>d. CASE req[p].get = "self" /\ p \in Updaters /\ Moves(p, "write", w)
  <2>1. Fits(p, "write", w) /\ Inside(p, pc[p], req[p]) /\ Harmless(p, "write")
      BY <1>1, <1>3, <1>d, KindsDisjoint, NoneIsNoMetadata DEF Fits, UpdateFits, Inside, Harmless
  <2> QED BY <1>3, <1>d, <2>1 DEF PCs
<1>e. CASE req[p].get = "self" /\ p \in Deleters /\ Moves(p, "delSubvol", q)
  <2>1. Fits(p, "delSubvol", q) /\ ~Inside(p, "delSubvol", q) /\ committed[req[p].e] = None
      BY <1>1, <1>2, <1>5, <1>e, KindsDisjoint DEF Fits, DeleteFits, Inside, Harmless
  <2> QED BY <1>2, <1>e, <2>1 DEF PCs
<1>f. CASE Moves(p, "idle", Idle)
    BY <1>f, IdleFits DEF PCs, Fits, Inside
<1> QED BY <1>a, <1>b, <1>c, <1>d, <1>e, <1>f DEF Found, Goto, Return, Moves, q, w, v

(* A step that only moves: to l with the same locals, or out.              *)
LEMMA GotoMoves ==
    ASSUME IInv, NEW p \in Procs, NEW l, Goto(p, l), UNCHANGED req
    PROVE  Moves(p, l, req[p])
BY DEF IInv, TypeOK, Goto, Moves

LEMMA ReturnMoves ==
    ASSUME NEW p \in Procs, Return(p)
    PROVE  /\ Moves(p, "idle", Idle) /\ Fits(p, "idle", Idle) /\ ~Inside(p, "idle", Idle)
           /\ Idle \in Requests /\ "idle" \in PCs
BY IdleFits DEF Return, Goto, Moves, Fits, Inside, PCs

-----------------------------------------------------------------------------
(* A request that starts is outside the lock; a delete ends the commitment.*)
LEMMA RequestStarts ==
    ASSUME IInv, NEW p \in Procs, Requested(p)
    PROVE  IInv'
<1>1. ASSUME NEW op \in Ops, NEW src \in Entries \cup {None}, NEW e \in Entries,
             NEW first \in {"lock", "load"}, Call(p, op, src, e, first),
             creates' \in 0..MaxCreates, p \in Creators => creates' = creates + 1,
             \/ p \in Deleters /\ committed' = [committed EXCEPT ![e] = None]
             \/ p \notin Deleters /\ committed' = committed,
             LET r == [op |-> op, e |-> e, src |-> src,
                       get |-> IF src = None THEN "self" ELSE "src",
                       vol |-> None, val |-> None,
                       id |-> IF p \in Creators THEN creates + 1 ELSE 0]
             IN  Fits(p, first, r) /\ ~Inside(p, first, r)
      PROVE  IInv'
  <2> DEFINE r == [op |-> op, e |-> e, src |-> src,
                   get |-> IF src = None THEN "self" ELSE "src",
                   vol |-> None, val |-> None,
                   id |-> IF p \in Creators THEN creates + 1 ELSE 0]
  <2>1. r \in Requests /\ r.e = e
      BY <1>1, Bounds DEF Requests, IInv, TypeOK
  <2>2. Moves(p, first, r) /\ Fits(p, first, r) /\ ~Inside(p, first, r) /\ first \in PCs
      BY <1>1 DEF Call, Goto, Moves, PCs
  <2> HIDE DEF r
  <2>3. UNCHANGED <<holders, cache, meta, data, dir, crashes, stale>>
      BY <1>1 DEF Call, disk
  <2>4. \A q \in Procs \ {p} : Inside(q, pc[q], req[q]) => holders'[req[q].e] = {q}
      BY <2>3 DEF IInv, LockHeld
  <2>5. committed'[r.e] # None => Harmless(p, first)
      BY <1>1, <2>1 DEF Harmless, IInv, TypeOK
  <2>6. /\ \A x \in Entries : committed'[x] \in {committed[x], None}
        /\ committed' \in [Entries -> (1..MaxCreates) \cup {None}]
      BY <1>1 DEF IInv, TypeOK
  <2>7. \A q \in Procs \ {p} :
            pc[q] # "idle" /\ committed'[req[q].e] # None => Harmless(q, pc[q])
      BY <2>6, WorksOnEntries DEF IInv, CommittedAlone
  <2>8. /\ pc' \in [Procs -> PCs] /\ req' \in [Procs -> Requests]
        /\ RequestsFit' /\ LockHeld' /\ CommittedAlone'
      BY <2>1, <2>2, <2>4, <2>5, <2>7, MoveKeeps
  <2>9. TypeOK'
      BY <1>1, <2>3, <2>6, <2>8 DEF IInv, TypeOK
  <2>10. SnapshotsHaveVolume' /\ CommittedSurvives'
      BY <2>3, <2>6 DEF IInv, SnapshotsHaveVolume, CommittedSurvives
  <2> QED BY <2>8, <2>9, <2>10 DEF IInv
<1>2. CASE p \in Creators
  <2>1. ASSUME NEW op \in Ops, NEW src \in Entries \cup {None}, NEW e \in Entries,
               NEW first \in {"lock", "load"}, CallCreate(p, op, src, e, first),
               \/ op = "CreateVolume" /\ e \in Volumes /\ src = None /\ first = "lock"
               \/ op = "CloneVolume" /\ e \in Volumes /\ src \in Volumes
               \/ op = "CreateSnapshot" /\ e \in Snapshots /\ src \in Volumes
               \/ op = "CreateClone" /\ e \in Volumes /\ src \in Snapshots
        PROVE  IInv'
    <3>1. /\ creates' = creates + 1 /\ creates' \in 1..MaxCreates
          /\ committed' = committed /\ Call(p, op, src, e, first)
        BY <2>1, Bounds DEF CallCreate, IInv, TypeOK
    <3> DEFINE r == [op |-> op, e |-> e, src |-> src,
                     get |-> IF src = None THEN "self" ELSE "src",
                     vol |-> None, val |-> None,
                     id |-> IF p \in Creators THEN creates + 1 ELSE 0]
    <3>2. Fits(p, first, r) /\ ~Inside(p, first, r)
        BY <1>2, <2>1, <3>1, KindsDisjoint, NamesDisjoint
           DEF Fits, CreateFits, Inside, Entries
    <3> QED BY <1>1, <1>2, <2>1, <3>1, <3>2, KindsDisjoint
  <2>2. ASSUME NEW v \in Volumes, CreateVolume(p, v) PROVE IInv'
      BY <2>1, <2>2 DEF CreateVolume, Entries, Ops
  <2>3. ASSUME NEW v \in Volumes, NEW s \in Volumes, CloneVolume(p, s, v) PROVE IInv'
      BY <2>1, <2>3 DEF CloneVolume, Entries, Ops
  <2>4. ASSUME NEW v \in Volumes, NEW s \in Snapshots, CreateSnapshot(p, v, s) PROVE IInv'
      BY <2>1, <2>4 DEF CreateSnapshot, Entries, Ops
  <2>5. ASSUME NEW v \in Volumes, NEW s \in Snapshots, CreateClone(p, s, v) PROVE IInv'
      BY <2>1, <2>5 DEF CreateClone, Entries, Ops
  <2> QED BY <1>2, <2>2, <2>3, <2>4, <2>5, KindsDisjoint DEF Requested
<1>3. CASE p \in Deleters
  <2>1. PICK e \in Entries, op \in Ops : CallDelete(p, op, e, "load")
      BY <1>3, KindsDisjoint DEF Requested, DeleteVolume, DeleteSnapshot, Entries, Ops
  <2> DEFINE r == [op |-> op, e |-> e, src |-> None,
                   get |-> IF None = None THEN "self" ELSE "src",
                   vol |-> None, val |-> None,
                   id |-> IF p \in Creators THEN creates + 1 ELSE 0]
  <2>2. Fits(p, "load", r) /\ ~Inside(p, "load", r)
      BY <1>3, KindsDisjoint DEF Fits, DeleteFits, Inside
  <2>3. creates' = creates /\ creates' \in 0..MaxCreates
      BY <2>1 DEF CallDelete, IInv, TypeOK
  <2> QED BY <1>1, <1>3, <2>1, <2>2, <2>3, KindsDisjoint DEF CallDelete
<1>4. CASE p \in Updaters
  <2>1. PICK v \in Volumes, op \in {"AddExport", "DropExport"} : Update(p, op, v)
      BY <1>4, KindsDisjoint DEF Requested
  <2> DEFINE r == [op |-> op, e |-> v, src |-> None,
                   get |-> IF None = None THEN "self" ELSE "src",
                   vol |-> None, val |-> None,
                   id |-> IF p \in Creators THEN creates + 1 ELSE 0]
  <2>2. Fits(p, "lock", r) /\ ~Inside(p, "lock", r)
      BY <1>4, KindsDisjoint DEF Fits, UpdateFits, Inside
  <2>3. creates' = creates /\ creates' \in 0..MaxCreates /\ v \in Entries /\ op \in Ops
      BY <2>1 DEF Update, IInv, TypeOK, Entries, Ops
  <2> QED BY <1>1, <1>4, <2>1, <2>2, <2>3, KindsDisjoint DEF Update
<1>5. CASE p \in Readers
  <2>1. PICK e \in Entries : GetEntry(p, e)
      BY <1>5, KindsDisjoint DEF Requested
  <2> DEFINE r == [op |-> "Get", e |-> e, src |-> None,
                   get |-> IF None = None THEN "self" ELSE "src",
                   vol |-> None, val |-> None,
                   id |-> IF p \in Creators THEN creates + 1 ELSE 0]
  <2>2. Fits(p, "load", r) /\ ~Inside(p, "load", r)
      BY <1>5, KindsDisjoint DEF Fits, ReadFits, Inside
  <2>3. creates' = creates /\ creates' \in 0..MaxCreates /\ "Get" \in Ops
      BY <2>1 DEF GetEntry, IInv, TypeOK, Ops
  <2> QED BY <1>1, <1>5, <2>1, <2>2, <2>3, KindsDisjoint DEF GetEntry
<1> QED BY <1>2, <1>3, <1>4, <1>5 DEF Procs

(* The lock is taken when it is free and given back by its holder.         *)
LEMMA LockSteps ==
    ASSUME IInv, NEW p \in Procs, TakeLock(p) \/ LockTimeout(p) \/ Unlock(p)
    PROVE  IInv'
<1>0. pc[p] # "idle" /\ req[p] \in Requests /\ req[p].e \in Entries /\ Fits(p, pc[p], req[p])
    BY WorksOnEntries DEF TakeLock, LockTimeout, Unlock, IInv, RequestsFit
<1>1. UNCHANGED <<cache, meta, data, dir, creates, crashes, committed, stale>>
    BY DEF TakeLock, LockTimeout, Unlock, disk, ghosts
<1>2. \A q \in Procs \ {p} :
          pc[q] # "idle" /\ committed'[req[q].e] # None => Harmless(q, pc[q])
    BY <1>1 DEF IInv, CommittedAlone
<1>3. CASE TakeLock(p)
  <2> DEFINE r == [req[p] EXCEPT !.get = "self"]
  <2>1. /\ r \in Requests /\ r.get = "self" /\ r.op = req[p].op /\ r.e = req[p].e
        /\ r.src = req[p].src /\ r.val = req[p].val /\ r.vol = req[p].vol /\ r.id = req[p].id
      BY <1>0, LocalsAtLock
  <2>2. Moves(p, "load", r) /\ "load" \in PCs
      BY <1>3 DEF TakeLock, Goto, Moves, PCs
  <2> HIDE DEF r
  <2>3. p \in Creators \cup Updaters
      BY <1>0, <1>3 DEF TakeLock, Fits, DeleteFits, ReadFits, Procs
  <2>4. Fits(p, "load", r) /\ Harmless(p, "load")
      BY <1>0, <1>3, <2>1, <2>3, KindsDisjoint
         DEF TakeLock, Fits, CreateFits, UpdateFits, Harmless
  <2>5. holders[req[p].e] = {} /\ holders' = [holders EXCEPT ![req[p].e] = {p}]
      BY <1>3 DEF TakeLock, Lock!Acquire, Entry
  <2>6. /\ holders' \in [Entries -> {{}} \cup {{q} : q \in Procs}]
        /\ holders'[r.e] = {p}
      BY <1>0, <2>1, <2>5 DEF IInv, TypeOK
  <2>7. \A q \in Procs \ {p} : Inside(q, pc[q], req[q]) => holders'[req[q].e] = {q}
    <3> SUFFICES ASSUME NEW q \in Procs \ {p}, Inside(q, pc[q], req[q])
                 PROVE  holders'[req[q].e] = {q}
        OBVIOUS
    <3>1. holders[req[q].e] = {q} /\ req[q].e \in Entries
        BY WorksOnEntries DEF IInv, LockHeld, Inside
    <3> QED BY <2>5, <3>1 DEF IInv, TypeOK
  <2>8. /\ pc' \in [Procs -> PCs] /\ req' \in [Procs -> Requests]
        /\ RequestsFit' /\ LockHeld' /\ CommittedAlone'
      BY <1>2, <2>1, <2>2, <2>4, <2>6, <2>7, MoveKeeps
  <2> QED BY <1>1, <2>6, <2>8 DEF IInv, TypeOK, SnapshotsHaveVolume, CommittedSurvives
<1>4. CASE LockTimeout(p)
  <2>1. UNCHANGED holders /\ Return(p)
      BY <1>4 DEF LockTimeout
  <2>2. /\ pc' \in [Procs -> PCs] /\ req' \in [Procs -> Requests]
        /\ RequestsFit' /\ LockHeld' /\ CommittedAlone'
      BY <1>1, <2>1, ReturnMoves, QuietMove
  <2> QED BY <1>1, <2>1, <2>2 DEF IInv, TypeOK, SnapshotsHaveVolume, CommittedSurvives
<1>5. CASE Unlock(p)
  <2>1. holders[req[p].e] = {p} /\ holders' = [holders EXCEPT ![req[p].e] = {}] /\ Return(p)
      BY <1>5 DEF Unlock, IInv, LockHeld, Inside, Entry
  <2>2. holders' \in [Entries -> {{}} \cup {{q} : q \in Procs}]
      BY <1>0, <2>1 DEF IInv, TypeOK
  <2>3. \A q \in Procs \ {p} : Inside(q, pc[q], req[q]) => holders'[req[q].e] = {q}
    <3> SUFFICES ASSUME NEW q \in Procs \ {p}, Inside(q, pc[q], req[q])
                 PROVE  holders'[req[q].e] = {q}
        OBVIOUS
    <3>1. holders[req[q].e] = {q} /\ req[q].e \in Entries
        BY WorksOnEntries DEF IInv, LockHeld, Inside
    <3> QED BY <2>1, <3>1 DEF IInv, TypeOK
  <2>4. /\ pc' \in [Procs -> PCs] /\ req' \in [Procs -> Requests]
        /\ RequestsFit' /\ LockHeld' /\ CommittedAlone'
      BY <1>2, <2>1, <2>3, ReturnMoves, MoveKeeps
  <2> QED BY <1>1, <2>2, <2>4 DEF IInv, TypeOK, SnapshotsHaveVolume, CommittedSurvives
<1> QED BY <1>3, <1>4, <1>5

-----------------------------------------------------------------------------
(* Get: a creator that finds nothing, under its lock, is not on a          *)
(* committed entry, whose metadata is on the disk.                         *)
LEMMA GetSteps ==
    ASSUME IInv, NEW p \in Procs, CacheLoad(p) \/ DiskRead(p) \/ CacheFill(p)
    PROVE  IInv'
<1>0. /\ pc[p] # "idle" /\ req[p] \in Requests /\ req[p].e \in Entries
      /\ Fits(p, pc[p], req[p]) /\ Wanted(p) \in Entries
    BY WorksOnEntries DEF CacheLoad, DiskRead, CacheFill, IInv, RequestsFit
<1>1. /\ UNCHANGED <<holders, meta, data, dir, creates, crashes, committed>>
      /\ stale' \in SUBSET Entries
    BY <1>0 DEF CacheLoad, DiskRead, CacheFill, disk, ghosts, IInv, TypeOK
<1>2. committed[req[p].e] # None => Harmless(p, pc[p])
    BY <1>0 DEF IInv, CommittedAlone
<1>3. ASSUME NEW l \in PCs, NEW r \in Requests, Moves(p, l, r), Fits(p, l, r),
             Inside(p, l, r) => Inside(p, pc[p], req[p]) /\ r.e = req[p].e,
             l # "idle" /\ committed[r.e] # None => Harmless(p, l),
             cache' \in [Entries -> Metadata \cup {None}],
             \A e \in Entries : HasVolume(e, cache'[e])
      PROVE  IInv'
  <2>1. /\ pc' \in [Procs -> PCs] /\ req' \in [Procs -> Requests]
        /\ RequestsFit' /\ LockHeld' /\ CommittedAlone'
      BY <1>1, <1>3, QuietMove
  <2> QED BY <1>1, <1>3, <2>1 DEF IInv, TypeOK, SnapshotsHaveVolume, HasVolume, CommittedSurvives
<1>4. UNCHANGED cache => /\ cache' \in [Entries -> Metadata \cup {None}]
                         /\ \A e \in Entries : HasVolume(e, cache'[e])
    BY DEF IInv, TypeOK, SnapshotsHaveVolume
<1>5. UNCHANGED cache /\ Return(p) => IInv'
    BY <1>3, <1>4, ReturnMoves
<1>6. CASE CacheLoad(p)
  <2>0. UNCHANGED cache /\ pc[p] = "load"
      BY <1>6 DEF CacheLoad
  <2>1. CASE cache[Wanted(p)] # None /\ Found(p, cache[Wanted(p)])
    <3>1. cache[Wanted(p)] \in Metadata /\ HasVolume(Wanted(p), cache[Wanted(p)])
        BY <1>0, <2>1 DEF IInv, TypeOK, SnapshotsHaveVolume
    <3> QED BY <1>3, <1>4, <2>0, <2>1, <3>1, FoundMoves
  <2>2. CASE Goto(p, "read") /\ UNCHANGED req
    <3>1. Moves(p, "read", req[p])
        BY <2>2, GotoMoves
    <3>2. /\ Fits(p, "read", req[p]) /\ "read" \in PCs
          /\ Inside(p, "read", req[p]) => Inside(p, pc[p], req[p])
          /\ Harmless(p, pc[p]) => Harmless(p, "read")
        BY <1>0, <2>0 DEF Fits, CreateFits, DeleteFits, UpdateFits, ReadFits, Inside, PCs, Harmless
    <3> QED BY <1>0, <1>2, <1>3, <1>4, <2>0, <3>1, <3>2
  <2> QED BY <1>5, <1>6, <2>0, <2>1, <2>2 DEF CacheLoad
<1>7. CASE DiskRead(p)
  <2>0. UNCHANGED cache /\ pc[p] = "read"
      BY <1>7 DEF DiskRead
  <2>1. CASE meta[Wanted(p)] # None /\ Goto(p, "fill")
               /\ req' = [req EXCEPT ![p].val = meta[Wanted(p)]]
    <3> DEFINE m == meta[Wanted(p)]
               r == [req[p] EXCEPT !.val = m]
    <3>1. m \in Metadata /\ HasVolume(Wanted(p), m)
        BY <1>0, <2>1 DEF IInv, TypeOK, SnapshotsHaveVolume
    <3>2. /\ r \in Requests /\ r.val = m /\ r.op = req[p].op /\ r.e = req[p].e
          /\ r.src = req[p].src /\ r.get = req[p].get /\ r.vol = req[p].vol /\ r.id = req[p].id
        BY <1>0, <3>1, ChangedLocals
    <3>3. Moves(p, "fill", r)
        BY <2>1 DEF Goto, Moves
    <3> HIDE DEF r
    <3>4. /\ Fits(p, "fill", r) /\ "fill" \in PCs
          /\ Inside(p, "fill", r) => Inside(p, pc[p], req[p])
          /\ Harmless(p, pc[p]) => Harmless(p, "fill")
        BY <1>0, <2>0, <2>1, <3>1, <3>2
           DEF Fits, CreateFits, DeleteFits, UpdateFits, ReadFits, Inside, PCs, Harmless,
               Wanted, WantedBy
    <3> QED BY <1>2, <1>3, <1>4, <2>0, <3>2, <3>3, <3>4
  <2>2. CASE meta[Wanted(p)] = None /\ NotFound(p)
    <3>1. CASE req[p].get = "vol" /\ Goto(p, "lock") /\ UNCHANGED req
      <4>1. Moves(p, "lock", req[p])
          BY <3>1, GotoMoves
      <4>2. p \in Creators
          BY <1>0, <3>1 DEF Fits, DeleteFits, UpdateFits, ReadFits, Procs
      <4>3. Fits(p, "lock", req[p]) /\ ~Inside(p, "lock", req[p])
          BY <1>0, <2>0, <4>2, KindsDisjoint DEF Fits, CreateFits, Inside
      <4>4. Harmless(p, "lock") /\ "lock" \in PCs
          BY <4>2, KindsDisjoint DEF Harmless, PCs
      <4> QED BY <1>0, <1>3, <1>4, <2>0, <4>1, <4>3, <4>4
    <3>2. CASE req[p].get = "self" /\ p \in Creators /\ Goto(p, "mkdir") /\ UNCHANGED req
      <4>1. Moves(p, "mkdir", req[p]) /\ "mkdir" \in PCs
          BY <3>2, GotoMoves DEF PCs
      <4>2. Fits(p, "mkdir", req[p]) /\ Inside(p, pc[p], req[p])
          BY <1>0, <2>0, <3>2, KindsDisjoint DEF Fits, CreateFits, Inside
      <4>3. committed[req[p].e] = None
          BY <1>0, <2>2, <3>2 DEF Wanted, WantedBy, IInv, CommittedSurvives
      <4> QED BY <1>0, <1>3, <1>4, <2>0, <4>1, <4>2, <4>3
    <3>3. CASE req[p].get = "self" /\ p \in Updaters /\ Goto(p, "unlock") /\ UNCHANGED req
      <4>1. Moves(p, "unlock", req[p]) /\ "unlock" \in PCs
          BY <3>3, GotoMoves DEF PCs
      <4>2. /\ Fits(p, "unlock", req[p]) /\ Inside(p, pc[p], req[p])
            /\ Harmless(p, "unlock")
          BY <1>0, <2>0, <3>3, KindsDisjoint DEF Fits, UpdateFits, Inside, Harmless
      <4> QED BY <1>0, <1>3, <1>4, <2>0, <4>1, <4>2
    <3> QED BY <1>5, <2>0, <2>2, <3>1, <3>2, <3>3 DEF NotFound
  <2> QED BY <1>7, <2>1, <2>2 DEF DiskRead
<1>8. CASE CacheFill(p)
  <2>1. /\ req[p].val \in Metadata /\ HasVolume(Wanted(p), req[p].val) /\ pc[p] = "fill"
        /\ Found(p, req[p].val)
      BY <1>0, <1>8 DEF CacheFill, Fits, Wanted, Requests
  <2>2. cache' = [cache EXCEPT ![Wanted(p)] = req[p].val]
      BY <1>8 DEF CacheFill
  <2>3. /\ cache' \in [Entries -> Metadata \cup {None}]
        /\ \A e \in Entries : HasVolume(e, cache'[e])
      BY <1>0, <2>1, <2>2 DEF IInv, TypeOK, SnapshotsHaveVolume
  <2> QED BY <1>3, <2>1, <2>3, FoundMoves
<1> QED BY <1>6, <1>7, <1>8

(* The steps of a creation before its metadata is written, and those of    *)
(* its cleanup: they are the goroutine's that holds the lock, on an entry  *)
(* that is not committed.                                                  *)
LEMMA CreateSteps ==
    ASSUME IInv, NEW p \in Procs,
           Mkdir(p) \/ MakeSubvol(p) \/ Configure(p) \/ CleanSubvol(p)
    PROVE  IInv'
<1>0. /\ pc[p] # "idle" /\ req[p] \in Requests /\ req[p].e \in Entries
      /\ pc[p] \in {"mkdir", "subvol", "configure", "cleanSubvol"}
      /\ Fits(p, pc[p], req[p])
    BY WorksOnEntries DEF Mkdir, MakeSubvol, Configure, CleanSubvol, IInv, RequestsFit
<1>1. p \in Creators /\ p \notin Deleters
    BY <1>0, KindsDisjoint DEF Fits, DeleteFits, UpdateFits, ReadFits, Procs
<1>2. committed[req[p].e] = None /\ Inside(p, pc[p], req[p])
    BY <1>0, <1>1 DEF IInv, CommittedAlone, Harmless, Inside
<1>3. /\ UNCHANGED <<req, holders, cache, meta, creates, crashes, committed, stale>>
      /\ \E l \in {"subvol", "unlock", "write", "configure", "cleanSubvol", "removeEntries"} :
             Goto(p, l)
      /\ \A e \in Entries : e # req[p].e => data'[e] = data[e] /\ dir'[e] = dir[e]
      /\ data' \in [Entries -> (1..MaxCreates) \cup {None}] /\ dir' \in [Entries -> BOOLEAN]
    <2>1. req[p].id \in 1..MaxCreates
        BY <1>0, <1>1 DEF Fits, CreateFits
    <2> QED BY <1>0, <2>1 DEF Mkdir, MakeSubvol, Configure, CleanSubvol, disk, ghosts, Entry,
           IInv, TypeOK
<1>4. PICK l \in {"subvol", "unlock", "write", "configure", "cleanSubvol", "removeEntries"} :
          Moves(p, l, req[p])
    BY <1>3, GotoMoves
<1>5. Fits(p, l, req[p]) /\ l \in PCs
    BY <1>0, <1>1, KindsDisjoint DEF Fits, CreateFits, PCs
<1>6. /\ pc' \in [Procs -> PCs] /\ req' \in [Procs -> Requests]
      /\ RequestsFit' /\ LockHeld' /\ CommittedAlone'
    BY <1>0, <1>2, <1>3, <1>4, <1>5, QuietMove
<1>7. TypeOK' /\ SnapshotsHaveVolume'
    BY <1>3, <1>6 DEF IInv, TypeOK, SnapshotsHaveVolume
<1>8. CommittedSurvives'
    BY <1>2, <1>3 DEF IInv, CommittedSurvives
<1> QED BY <1>6, <1>7, <1>8 DEF IInv

(* What is written is metadata, and a snapshot's names its volume.         *)
LEMMA WrittenMetadata ==
    ASSUME IInv, NEW p \in Procs, pc[p] \in {"write", "cacheStore"}
    PROVE  /\ p \in Creators \cup Updaters /\ Written(p) \in Metadata
           /\ HasVolume(req[p].e, Written(p))
<1>1. req[p] \in Requests /\ Fits(p, pc[p], req[p]) /\ pc[p] # "idle"
    BY DEF IInv, TypeOK, RequestsFit
<1>2. p \in Creators \cup Updaters
    BY <1>1 DEF Fits, DeleteFits, ReadFits, Procs
<1>3. CASE p \in Creators
  <2> DEFINE v == IF Op(p) = "CreateSnapshot" THEN req[p].src ELSE None
  <2>1. Written(p) = [id |-> req[p].id, exports |-> {}, volume |-> v]
      BY <1>1, <1>3, KindsDisjoint DEF Written, WrittenBy, Fits, CreateFits, Op
  <2>2. /\ v \in Volumes \cup {None} /\ req[p].id \in 1..MaxCreates
        /\ req[p].e \in Snapshots => v \in Volumes
      BY <1>1, <1>3, NamesDisjoint DEF Fits, CreateFits, Op
  <2> QED BY <1>2, <2>1, <2>2 DEF Metadata, HasVolume
<1>4. CASE p \in Updaters
  <2>1. /\ req[p].val \in Metadata /\ req[p].e \notin Snapshots
        /\ req[p].op \in {"AddExport", "DropExport"} /\ p \notin Creators
      BY <1>1, <1>4, KindsDisjoint, NamesDisjoint DEF Fits, UpdateFits, Requests
  <2>2. \/ Written(p) = [req[p].val EXCEPT !.exports = @ \cup {p}]
        \/ Written(p) = [req[p].val EXCEPT !.exports = @ \ {p}]
      BY <2>1 DEF Written, WrittenBy
  <2> QED BY <1>2, <1>4, <2>1, <2>2 DEF Metadata, HasVolume
<1> QED BY <1>2, <1>3, <1>4

(* The commit point: the goroutine holds the lock, so no other creation is *)
(* under way, and a delete in progress prevents the commitment.            *)
LEMMA WriteSteps ==
    ASSUME IInv, NEW p \in Procs, WriteMeta(p) \/ CacheStore(p)
    PROVE  IInv'
<1>0. /\ pc[p] \in {"write", "cacheStore"} /\ pc[p] # "idle"
      /\ req[p] \in Requests /\ req[p].e \in Entries /\ Fits(p, pc[p], req[p])
    BY WorksOnEntries DEF WriteMeta, CacheStore, IInv, RequestsFit
<1> DEFINE e == req[p].e
           new == Written(p)
<1>1. p \in Creators \cup Updaters /\ new \in Metadata /\ new # None /\ HasVolume(e, new)
    BY <1>0, WrittenMetadata, NoneIsNoMetadata
<1> HIDE DEF new
<1>2. holders[e] = {p} /\ Inside(p, pc[p], req[p])
    BY <1>0 DEF IInv, LockHeld, Inside
<1>3. p \in Creators /\ pc[p] = "write" => committed[e] = None
    BY <1>0 DEF IInv, CommittedAlone, Harmless
<1>4. CASE CacheStore(p)
  <2>1. /\ cache' = [cache EXCEPT ![e] = new] /\ Moves(p, "unlock", req[p])
        /\ UNCHANGED <<holders, meta, data, dir, creates, crashes, committed>>
        /\ stale' \in SUBSET Entries
      BY <1>4, GotoMoves DEF CacheStore, disk, Entry, new, IInv, TypeOK
  <2>2. Fits(p, "unlock", req[p]) /\ "unlock" \in PCs /\ Harmless(p, "unlock")
      BY <1>0, <1>1, KindsDisjoint DEF Fits, CreateFits, UpdateFits, PCs, Harmless
  <2>3. /\ pc' \in [Procs -> PCs] /\ req' \in [Procs -> Requests]
        /\ RequestsFit' /\ LockHeld' /\ CommittedAlone'
      BY <1>0, <1>2, <2>1, <2>2, QuietMove
  <2>4. TypeOK'
      BY <1>0, <1>1, <2>1, <2>3 DEF IInv, TypeOK
  <2>5. SnapshotsHaveVolume'
      BY <1>0, <1>1, <2>1 DEF IInv, TypeOK, SnapshotsHaveVolume
  <2>6. CommittedSurvives'
      BY <2>1 DEF IInv, CommittedSurvives
  <2> QED BY <2>3, <2>4, <2>5, <2>6 DEF IInv
<1>5. CASE WriteMeta(p) /\ UNCHANGED <<meta, committed>>
           /\ Goto(p, IF p \in Creators THEN "cleanSubvol" ELSE "unlock")
  <2> DEFINE l == IF p \in Creators THEN "cleanSubvol" ELSE "unlock"
  <2>1. /\ Moves(p, l, req[p])
        /\ UNCHANGED <<holders, cache, meta, data, dir, creates, crashes, committed, stale>>
      BY <1>5, GotoMoves DEF WriteMeta
  <2>2. Fits(p, l, req[p]) /\ l \in PCs /\ (committed[e] # None => Harmless(p, l))
      BY <1>0, <1>1, <1>3, <1>5, KindsDisjoint
         DEF WriteMeta, Fits, CreateFits, UpdateFits, PCs, Harmless
  <2>3. /\ pc' \in [Procs -> PCs] /\ req' \in [Procs -> Requests]
        /\ RequestsFit' /\ LockHeld' /\ CommittedAlone'
      BY <1>0, <1>2, <2>1, <2>2, QuietMove
  <2> QED BY <2>1, <2>3 DEF IInv, TypeOK, SnapshotsHaveVolume, CommittedSurvives
<1>6. CASE WriteMeta(p) /\ dir[e] /\ meta' = [meta EXCEPT ![e] = new]
           /\ Goto(p, "cacheStore")
  <2> DEFINE commits == /\ p \in Creators /\ data[e] = req[p].id
                        /\ \A d \in Deleters : ~AboutToDelete(d, e)
  <2>0. pc[p] = "write"
      BY <1>6 DEF WriteMeta
  <2>1. /\ Moves(p, "cacheStore", req[p])
        /\ UNCHANGED <<req, holders, cache, data, dir, creates, crashes, stale>>
        /\ committed' = committed \/ (commits /\ committed' = [committed EXCEPT ![e] = req[p].id])
    <3>1. /\ Goto(p, "cacheStore")
          /\ UNCHANGED <<req, holders, cache, data, dir, creates, crashes, stale>>
        BY <1>6 DEF WriteMeta
    <3>2. committed' = committed \/ (commits /\ committed' = [committed EXCEPT ![e] = req[p].id])
        BY <1>6 DEF WriteMeta, Entry
    <3> QED BY <3>1, <3>2, GotoMoves
  <2>2. Fits(p, "cacheStore", req[p]) /\ "cacheStore" \in PCs /\ Harmless(p, "cacheStore")
      BY <1>0, <1>1, <2>0, KindsDisjoint DEF Fits, CreateFits, UpdateFits, PCs, Harmless
  <2>3. \A q \in Procs \ {p} : Inside(q, pc[q], req[q]) => holders'[req[q].e] = {q}
      BY <2>1 DEF IInv, LockHeld
  <2>4. ASSUME NEW q \in Procs \ {p}, pc[q] # "idle", committed'[req[q].e] # None
        PROVE  Harmless(q, pc[q])
    <3>1. CASE committed[req[q].e] # None
        BY <2>4, <3>1 DEF IInv, CommittedAlone
    <3>2. CASE committed[req[q].e] = None
      <4>1. req[q].e = e /\ commits /\ req[q].e \in Entries
          BY <2>1, <2>4, <3>2, WorksOnEntries DEF IInv, TypeOK
      <4>2. ~Inside(q, pc[q], req[q])
          BY <1>2, <4>1 DEF IInv, LockHeld
      <4>3. q \in Deleters => pc[q] = "rmdir"
          BY <2>4, <4>1 DEF AboutToDelete, Entry, IInv, RequestsFit, Fits, DeleteFits
      <4>4. q \in Creators => pc[q] \in {"lock", "load", "read", "fill", "cacheStore", "unlock"}
          BY <2>4, <4>2 DEF Inside, IInv, TypeOK, PCs, RequestsFit, Fits, CreateFits
      <4> QED BY <4>3, <4>4 DEF Harmless
    <3> QED BY <3>1, <3>2
  <2>5. /\ pc' \in [Procs -> PCs] /\ req' \in [Procs -> Requests]
        /\ RequestsFit' /\ LockHeld' /\ CommittedAlone'
      BY <1>0, <1>2, <2>1, <2>2, <2>3, <2>4, MoveKeeps
  <2>6. committed' \in [Entries -> (1..MaxCreates) \cup {None}]
      BY <1>0, <2>0, <2>1 DEF IInv, TypeOK, Fits, CreateFits
  <2>7. TypeOK' /\ SnapshotsHaveVolume'
      BY <1>0, <1>1, <1>6, <2>1, <2>5, <2>6 DEF IInv, TypeOK, SnapshotsHaveVolume
  <2>8. CommittedSurvives'
      BY <1>0, <1>1, <1>6, <2>1 DEF IInv, TypeOK, CommittedSurvives
  <2> QED BY <2>5, <2>7, <2>8 DEF IInv
<1> QED BY <1>4, <1>5, <1>6 DEF WriteMeta, Entry, new

(* A delete, or the cleanup of a creation, is never on a committed entry,  *)
(* but for the rmdir of a delete, which fails on it.                       *)
LEMMA DeleteSteps ==
    ASSUME IInv, NEW p \in Procs,
           DelSubvol(p) \/ DelCache(p) \/ RemoveEntries(p) \/ Rmdir(p)
    PROVE  IInv'
<1>0. /\ pc[p] \in {"delSubvol", "delCache", "removeEntries", "rmdir"} /\ pc[p] # "idle"
      /\ req[p] \in Requests /\ req[p].e \in Entries /\ Fits(p, pc[p], req[p])
    BY WorksOnEntries DEF DelSubvol, DelCache, RemoveEntries, Rmdir, IInv, RequestsFit
<1> DEFINE e == req[p].e
<1>1. p \in Creators \cup Deleters
    BY <1>0 DEF Fits, UpdateFits, ReadFits, Procs
<1>2. committed[e] # None => p \in Deleters /\ pc[p] = "rmdir"
    BY <1>0, <1>1 DEF IInv, CommittedAlone, Harmless
<1>3. /\ UNCHANGED <<holders, creates, crashes, committed, stale>>
      /\ \A x \in Entries : x # e => /\ cache'[x] = cache[x] /\ meta'[x] = meta[x]
                                     /\ data'[x] = data[x] /\ dir'[x] = dir[x]
      /\ cache'[e] \in {cache[e], None} /\ meta'[e] \in {meta[e], None}
      /\ cache' \in [Entries -> Metadata \cup {None}]
      /\ meta' \in [Entries -> Metadata \cup {None}]
      /\ data' \in [Entries -> (1..MaxCreates) \cup {None}] /\ dir' \in [Entries -> BOOLEAN]
    BY <1>0 DEF DelSubvol, DelCache, RemoveEntries, Rmdir, disk, ghosts, Entry, IInv, TypeOK
<1>4. \/ Return(p)
      \/ p \in Deleters /\ Goto(p, "delCache") /\ UNCHANGED req /\ pc[p] = "delSubvol"
      \/ p \in Deleters /\ Goto(p, "removeEntries") /\ UNCHANGED req /\ pc[p] = "delCache"
      \/ Goto(p, "rmdir") /\ UNCHANGED req /\ pc[p] = "removeEntries"
      \/ /\ p \in Creators /\ Goto(p, "unlock") /\ UNCHANGED req
         /\ pc[p] \in {"removeEntries", "rmdir"}
    BY <1>0, <1>1 DEF DelSubvol, DelCache, RemoveEntries, Rmdir, Finish, Fits, CreateFits
<1>5. \E l \in PCs, r \in Requests :
          /\ Moves(p, l, r) /\ Fits(p, l, r)
          /\ Inside(p, l, r) => Inside(p, pc[p], req[p]) /\ r.e = req[p].e
          /\ l # "idle" /\ committed[r.e] # None => Harmless(p, l)
  <2>1. CASE Return(p)
      BY <2>1, ReturnMoves
  <2>2. ASSUME NEW l \in {"delCache", "removeEntries", "rmdir", "unlock"},
               Goto(p, l), UNCHANGED req,
               l \in {"delCache", "removeEntries"} => p \in Deleters /\ pc[p] # "rmdir",
               l = "rmdir" => pc[p] = "removeEntries",
               l = "unlock" => p \in Creators /\ pc[p] \in {"removeEntries", "rmdir"}
        PROVE  /\ Moves(p, l, req[p]) /\ Fits(p, l, req[p]) /\ l \in PCs
               /\ Inside(p, l, req[p]) => Inside(p, pc[p], req[p])
               /\ committed[e] # None => Harmless(p, l)
    <3>1. Moves(p, l, req[p])
        BY <2>2, GotoMoves
    <3>2. Fits(p, l, req[p]) /\ l \in PCs
        BY <1>0, <1>1, <2>2, KindsDisjoint DEF Fits, CreateFits, DeleteFits, PCs
    <3>3. /\ Inside(p, l, req[p]) => Inside(p, pc[p], req[p])
          /\ committed[e] # None => Harmless(p, l)
        BY <1>0, <1>1, <1>2, <2>2, KindsDisjoint DEF Inside, Harmless
    <3> QED BY <3>1, <3>2, <3>3
  <2> QED BY <1>0, <1>4, <2>1, <2>2
<1>6. /\ pc' \in [Procs -> PCs] /\ req' \in [Procs -> Requests]
      /\ RequestsFit' /\ LockHeld' /\ CommittedAlone'
    BY <1>3, <1>5, QuietMove
<1>7. TypeOK'
    BY <1>3, <1>6 DEF IInv, TypeOK
<1>8. SnapshotsHaveVolume'
    BY <1>0, <1>3 DEF IInv, SnapshotsHaveVolume, HasVolume
<1>9. CommittedSurvives'
  <2>1. committed[e] # None =>
            /\ UNCHANGED <<meta, data>>
            /\ dir' = [dir EXCEPT ![e] = @ /\ ~(meta[e] = None /\ data[e] = None)]
      BY <1>2 DEF DelSubvol, DelCache, RemoveEntries, Rmdir, Entry
  <2>2. committed[e] # None => dir'[e] /\ data'[e] = committed[e] /\ meta'[e] # None
      BY <1>0, <2>1 DEF IInv, TypeOK, CommittedSurvives
  <2> QED BY <1>0, <1>3, <2>2 DEF IInv, CommittedSurvives
<1> QED BY <1>6, <1>7, <1>8, <1>9 DEF IInv

(* After a crash there are no goroutines; the cache comes from the disk.   *)
LEMMA CrashStep == IInv /\ Crash => IInv'
<1> SUFFICES ASSUME IInv, Crash PROVE IInv'
    OBVIOUS
<1>1. TypeOK'
    BY Bounds, IdleFits DEF IInv, TypeOK, Crash, LoadCache, PCs, disk
<1>2. RequestsFit' /\ LockHeld' /\ CommittedAlone'
    BY DEF Crash, RequestsFit, Fits, LockHeld, Inside, CommittedAlone
<1>3. SnapshotsHaveVolume' /\ CommittedSurvives'
    BY DEF IInv, Crash, LoadCache, disk, SnapshotsHaveVolume, HasVolume, CommittedSurvives
<1> QED BY <1>1, <1>2, <1>3 DEF IInv

LEMMA NextIInv == IInv /\ [Next]_vars => IInv'
<1> SUFFICES ASSUME IInv, [Next]_vars PROVE IInv'
    OBVIOUS
<1>1. CASE Next
    BY <1>1, RequestStarts, LockSteps, GetSteps, CreateSteps, WriteSteps, DeleteSteps, CrashStep
       DEF Next, Step
<1>2. CASE UNCHANGED vars
    BY <1>2 DEF vars, IInv, TypeOK, RequestsFit, SnapshotsHaveVolume, LockHeld,
       CommittedAlone, CommittedSurvives
<1> QED BY <1>1, <1>2

(* Requests are where their kind can be, whoever works on an entry it      *)
(* creates or updates holds its lock, and nobody removes what is committed.*)
THEOREM StoreInvariant == Spec => []IInv
BY InitIInv, NextIInv, PTL DEF Spec

(* A creation that reached the disk while nobody was deleting the name     *)
(* survives until a delete is requested.                                   *)
THEOREM CommittedSurvive == Spec => []CommittedSurvives
<1>1. IInv => CommittedSurvives
    BY DEF IInv
<1> QED BY <1>1, StoreInvariant, PTL

-----------------------------------------------------------------------------
(* Inside the lock a goroutine stays, on the same entry, until it unlocks. *)
LEMMA WorkerStays ==
    ASSUME IInv, NEW p \in Procs, Step(p), ~Unlock(p), Inside(p, pc[p], req[p])
    PROVE  Inside(p, pc'[p], req'[p]) /\ req'[p].e = req[p].e
<1>0. /\ pc[p] # "idle" /\ req[p] \in Requests /\ Fits(p, pc[p], req[p])
      /\ p \in Creators \/ p \in Updaters
    BY KindsDisjoint
       DEF IInv, TypeOK, RequestsFit, Inside, Fits, DeleteFits, ReadFits, Procs
<1>1. pc \in [Procs -> PCs] /\ req \in [Procs -> Requests]
    BY DEF IInv, TypeOK
<1>2. CASE CacheLoad(p) \/ DiskRead(p) \/ CacheFill(p)
  <2>1. /\ req[p].get = "self" /\ pc[p] \in {"load", "read", "fill"}
        /\ Op(p) # "DeleteSnapshot" /\ p \notin Deleters /\ p \notin Readers
      BY <1>0, <1>2, KindsDisjoint
         DEF CacheLoad, DiskRead, CacheFill, Inside, Fits, CreateFits, UpdateFits, Op
  <2>2. \A m : Found(p, m) => \/ p \in Creators /\ Goto(p, "unlock")
                                   /\ req' = [req EXCEPT ![p].val = None]
                              \/ p \in Updaters /\ Goto(p, "write")
                                   /\ req' = [req EXCEPT ![p].val = m]
      BY <2>1 DEF Found
  <2>3. NotFound(p) => (Goto(p, "mkdir") \/ Goto(p, "unlock")) /\ UNCHANGED req
      BY <2>1 DEF NotFound
  <2>4. \A m : req' = [req EXCEPT ![p].val = m] => req'[p].e = req[p].e /\ req'[p].get = req[p].get
      BY <1>1 DEF Requests
  <2>5. /\ pc'[p] \in {"read", "fill", "unlock", "mkdir", "write"}
        /\ req'[p].e = req[p].e /\ req'[p].get = req[p].get
      BY <1>1, <1>2, <2>1, <2>2, <2>3, <2>4 DEF CacheLoad, DiskRead, CacheFill, Goto
  <2> QED BY <1>0, <2>1, <2>5 DEF Inside
<1>3. CASE ~(CacheLoad(p) \/ DiskRead(p) \/ CacheFill(p))
  <2>1. pc[p] \notin {"delSubvol", "delCache"}
      BY <1>0, KindsDisjoint DEF Fits, CreateFits, UpdateFits
  <2>2. pc[p] \in {"removeEntries", "rmdir"} => p \in Creators
      BY <1>0 DEF Fits, UpdateFits
  <2>3. /\ pc'[p] \in {"subvol", "unlock", "configure", "write", "cleanSubvol", "removeEntries",
                       "rmdir", "cacheStore"}
        /\ pc'[p] \in {"removeEntries", "rmdir"} => p \in Creators
        /\ req' = req
      BY <1>0, <1>1, <1>3, <2>1, <2>2, KindsDisjoint
         DEF Step, Mkdir, MakeSubvol, Configure, CleanSubvol, WriteMeta, CacheStore, DelSubvol,
             DelCache, RemoveEntries, Rmdir, Finish, Goto, Fits, UpdateFits, CreateFits
  <2> QED BY <2>3 DEF Inside
<1> QED BY <1>2, <1>3

(* Whoever holds an entry's lock is on its way to the unlock, whatever     *)
(* fails in between.                                                       *)
THEOREM LocksReleased == Spec => []LockedByWorker
<1>1. Init => LockedByWorker
    BY DEF Init, Lock!Init, LockedByWorker
<1>2. IInv /\ LockedByWorker /\ [Next]_vars => LockedByWorker'
  <2> SUFFICES ASSUME IInv, LockedByWorker, [Next]_vars,
                      NEW e \in Entries, NEW q \in holders'[e]
               PROVE  Inside(q, pc'[q], req'[q]) /\ req'[q].e = e
      BY DEF LockedByWorker, Entry
  <2>0. /\ pc \in [Procs -> PCs] /\ req \in [Procs -> Requests]
        /\ \A x \in Entries : holders[x] \subseteq Procs
        /\ \A x \in Entries : \A y \in holders[x] : Inside(y, pc[y], req[y]) /\ req[y].e = x
      BY DEF IInv, TypeOK, LockedByWorker, Entry
  <2>1. CASE Crash \/ UNCHANGED vars
      BY <2>0, <2>1 DEF Crash, vars
  <2>2. ASSUME NEW p \in Procs, Requested(p) \/ TakeLock(p) \/ LockTimeout(p) \/ Step(p)
        PROVE  Inside(q, pc'[q], req'[q]) /\ req'[q].e = e
    <3>1. CASE Requested(p)
      <4>1. /\ pc[p] = "idle" /\ UNCHANGED holders
            /\ \A x \in Procs \ {p} : pc'[x] = pc[x] /\ req'[x] = req[x]
        <5>1. PICK op, src, x, first : Call(p, op, src, x, first)
            BY <3>1 DEF Requested, CreateVolume, CloneVolume, CreateSnapshot, CreateClone,
               CallCreate, DeleteVolume, DeleteSnapshot, CallDelete, Update, GetEntry
        <5> QED BY <2>0, <5>1 DEF Call, Goto
      <4> QED BY <2>0, <4>1 DEF Inside
    <3>2. CASE TakeLock(p)
      <4>1. /\ holders' = [holders EXCEPT ![req[p].e] = {p}] /\ pc[p] = "lock"
            /\ pc'[p] = "load" /\ req'[p].get = "self" /\ req'[p].e = req[p].e
            /\ \A x \in Procs \ {p} : pc'[x] = pc[x] /\ req'[x] = req[x]
          BY <2>0, <3>2 DEF TakeLock, Lock!Acquire, Goto, Entry, Requests
      <4>2. p \in Creators \cup Updaters
          BY <4>1 DEF IInv, RequestsFit, Fits, DeleteFits, ReadFits, Procs
      <4>3. Inside(p, pc'[p], req'[p])
          BY <4>1, <4>2 DEF Inside
      <4>4. q \in holders[e] \/ (q = p /\ e = req[p].e)
          BY <4>1 DEF IInv, TypeOK
      <4>5. CASE q = p /\ e = req[p].e
          BY <4>1, <4>3, <4>5
      <4>6. CASE q \in holders[e]
        <5>1. q # p /\ q \in Procs
            BY <2>0, <4>1, <4>6 DEF Inside
        <5> QED BY <2>0, <4>1, <4>6, <5>1
      <4> QED BY <4>4, <4>5, <4>6
    <3>3. CASE LockTimeout(p)
      <4>1. /\ pc[p] = "lock" /\ UNCHANGED holders
            /\ \A x \in Procs \ {p} : pc'[x] = pc[x] /\ req'[x] = req[x]
          BY <2>0, <3>3 DEF LockTimeout, Return, Goto
      <4> QED BY <2>0, <4>1 DEF Inside
    <3>4. CASE Unlock(p)
      <4>1. /\ holders' = [holders EXCEPT ![req[p].e] = @ \ {p}]
            /\ \A x \in Procs \ {p} : pc'[x] = pc[x] /\ req'[x] = req[x]
          BY <2>0, <3>4 DEF Unlock, Return, Goto, Entry
      <4>2. q \in holders[e] /\ ~(q = p /\ e = req[p].e)
          BY <4>1 DEF IInv, TypeOK
      <4> QED BY <2>0, <4>1, <4>2
    <3>5. CASE Step(p) /\ ~Unlock(p)
      <4>1. /\ UNCHANGED holders
            /\ \A x \in Procs \ {p} : pc'[x] = pc[x] /\ req'[x] = req[x]
          BY <2>0, <3>5
             DEF Step, CacheLoad, DiskRead, CacheFill, Found, NotFound, Mkdir, MakeSubvol,
                 Configure, CleanSubvol, WriteMeta, CacheStore, DelSubvol, DelCache,
                 RemoveEntries, Rmdir, Finish, Goto, Return
      <4> QED BY <2>0, <3>5, <4>1, WorkerStays
    <3> QED BY <2>2, <3>1, <3>2, <3>3, <3>4, <3>5
  <2> QED BY <2>1, <2>2 DEF Next
<1> QED BY <1>1, <1>2, StoreInvariant, PTL DEF Spec

-----------------------------------------------------------------------------
(* A step of p outside the two stores of Store and Update keeps Served, if *)
(* it leaves the files of committed entries alone, caches for them only    *)
(* what is on the disk and gives an updater only that.                     *)
LEMMA ServedMove ==
    ASSUME IInv, Served, NEW p \in Procs,
           \A q \in Procs \ {p} : pc'[q] = pc[q] /\ req'[q] = req[q],
           \A x \in Entries : committed'[x] # None =>
               /\ committed[x] # None /\ meta'[x] = meta[x] /\ data'[x] = data[x]
               /\ x \notin stale' =>
                      x \notin stale /\ (cache'[x] = cache[x] \/ cache'[x] = meta[x]),
           pc[p] # "cacheStore", pc'[p] # "cacheStore",
           p \in Updaters /\ pc'[p] \in {"fill", "write"} /\ committed'[req'[p].e] # None
             /\ req'[p].e \notin stale' => req'[p].val = meta'[req'[p].e]
    PROVE  Served'
<1>1. DescribesData'
    BY DEF Served, DescribesData, Genuine
<1>2. ASSUME NEW q \in Creators PROVE CreateCurrent(q, pc[q], req[q])'
  <2>1. CASE q = p
      BY <2>1 DEF CreateCurrent
  <2>2. CASE q # p
    <3>1. pc'[q] = pc[q] /\ req'[q] = req[q] /\ (pc[q] = "cacheStore" => req[q].e \in Entries)
        BY <2>2, WorksOnEntries DEF Procs
    <3>2. CreateCurrent(q, pc[q], req[q])
        BY DEF Served, WorksWithFile
    <3> QED BY <3>1, <3>2 DEF CreateCurrent
  <2> QED BY <2>1, <2>2
<1>3. ASSUME NEW q \in Updaters PROVE UpdateCurrent(q, pc[q], req[q])'
  <2>1. CASE q = p
      BY <2>1 DEF UpdateCurrent, Genuine
  <2>2. CASE q # p
    <3>1. pc'[q] = pc[q] /\ req'[q] = req[q] /\ (pc[q] # "idle" => req[q].e \in Entries)
        BY <2>2, WorksOnEntries DEF Procs
    <3>2. UpdateCurrent(q, pc[q], req[q])
        BY DEF Served, WorksWithFile
    <3> QED BY <3>1, <3>2 DEF UpdateCurrent, Genuine
  <2> QED BY <2>1, <2>2
<1>4. ServedIsReal'
  <2> SUFFICES ASSUME NEW x \in Entries, committed'[x] # None, x \notin stale',
                      \A q \in Procs : ~(pc'[q] = "cacheStore" /\ req'[q].e = x)
               PROVE  cache'[x] = meta'[x] /\ meta'[x].id = data'[x]
      BY DEF ServedIsReal, Entry
  <2>1. \A q \in Procs : ~(pc[q] = "cacheStore" /\ req[q].e = x)
      OBVIOUS
  <2>2. cache[x] = meta[x] /\ meta[x].id = data[x]
      BY <2>1 DEF Served, ServedIsReal, Entry
  <2> QED BY <2>2
<1> QED BY <1>1, <1>2, <1>3, <1>4 DEF Served, WorksWithFile

(* Get: what an updater finds, under the lock, is what is on the disk.     *)
LEMMA ServedGet ==
    ASSUME IInv, Served, NEW p \in Procs, CacheLoad(p) \/ DiskRead(p) \/ CacheFill(p)
    PROVE  Served'
<1>0. /\ pc[p] \in {"load", "read", "fill"} /\ pc[p] # "idle" /\ req[p] \in Requests
      /\ req[p].e \in Entries /\ Fits(p, pc[p], req[p]) /\ Wanted(p) \in Entries
      /\ pc \in [Procs -> PCs] /\ req \in [Procs -> Requests]
    BY WorksOnEntries DEF CacheLoad, DiskRead, CacheFill, IInv, RequestsFit, TypeOK
<1>1. UNCHANGED <<meta, data, committed>>
    BY DEF CacheLoad, DiskRead, CacheFill, disk, ghosts
<1>2. p \in Updaters => /\ Wanted(p) = req[p].e /\ req[p].get = "self"
                        /\ Inside(p, pc[p], req[p]) /\ p \notin Creators
    BY <1>0, KindsDisjoint DEF Fits, UpdateFits, Wanted, WantedBy, Inside
<1>3. ASSUME NEW m, Found(p, m)
      PROVE  /\ \A q \in Procs \ {p} : pc'[q] = pc[q] /\ req'[q] = req[q]
             /\ pc'[p] \in {"load", "lock", "unlock", "write", "delSubvol", "idle"}
             /\ p \in Updaters /\ pc'[p] = "write" => req'[p].val = m /\ req'[p].e = req[p].e
    BY <1>0, <1>2, <1>3, KindsDisjoint DEF Found, Goto, Return, Requests
<1>4. CASE CacheLoad(p)
  <2>1. UNCHANGED <<cache, stale>> /\ pc[p] = "load"
      BY <1>4 DEF CacheLoad, ghosts
  <2>2. p \in Updaters /\ Genuine(req[p].e) => cache[req[p].e] = meta[req[p].e]
    <3> SUFFICES ASSUME p \in Updaters, Genuine(req[p].e) PROVE cache[req[p].e] = meta[req[p].e]
        OBVIOUS
    <3>1. \A q \in Procs : ~(pc[q] = "cacheStore" /\ req[q].e = req[p].e)
        BY <1>2, <2>1 DEF IInv, LockHeld, Inside
    <3> QED BY <1>0, <3>1 DEF Served, ServedIsReal, Genuine, Entry
  <2>3. \/ Found(p, cache[Wanted(p)])
        \/ /\ \A q \in Procs \ {p} : pc'[q] = pc[q] /\ req'[q] = req[q]
           /\ pc'[p] \in {"idle", "read"}
      BY <1>0, <1>4 DEF CacheLoad, Return, Goto
  <2>4. /\ \A q \in Procs \ {p} : pc'[q] = pc[q] /\ req'[q] = req[q]
        /\ pc'[p] \notin {"fill", "cacheStore"}
        /\ p \in Updaters /\ pc'[p] = "write" =>
               req'[p].val = cache[req[p].e] /\ req'[p].e = req[p].e
      BY <1>2, <1>3, <2>3
  <2> QED BY <1>1, <2>1, <2>2, <2>4, ServedMove DEF Genuine
<1>5. CASE DiskRead(p)
  <2>1. UNCHANGED <<cache, stale>> /\ pc[p] = "read"
      BY <1>5 DEF DiskRead, ghosts
  <2>2. meta[Wanted(p)] \in Metadata \cup {None}
      BY <1>0 DEF IInv, TypeOK
  <2>3. /\ \A q \in Procs \ {p} : pc'[q] = pc[q] /\ req'[q] = req[q]
        /\ pc'[p] \notin {"write", "cacheStore"}
        /\ pc'[p] = "fill" => req'[p].val = meta[Wanted(p)] /\ req'[p].e = req[p].e
    <3>1. CASE NotFound(p)
      <4>1. \/ req' = req /\ \E l \in {"lock", "mkdir", "unlock"} : Goto(p, l)
            \/ Return(p)
          BY <3>1 DEF NotFound
      <4> QED BY <1>0, <4>1 DEF Goto, Return
    <3>2. CASE Goto(p, "fill") /\ req' = [req EXCEPT ![p].val = meta[Wanted(p)]]
        BY <1>0, <2>2, <3>2, ChangedLocals DEF Goto
    <3> QED BY <1>5, <3>1, <3>2 DEF DiskRead
  <2> QED BY <1>1, <1>2, <2>1, <2>3, ServedMove
<1>6. CASE CacheFill(p)
  <2> DEFINE w == Wanted(p)
  <2>1. /\ Found(p, req[p].val) /\ cache' = [cache EXCEPT ![w] = req[p].val] /\ pc[p] = "fill"
        /\ stale' = IF req[p].val = meta[w] THEN stale ELSE stale \cup {w}
      BY <1>6 DEF CacheFill
  <2>2. \A x \in Entries : x \notin stale' =>
            x \notin stale /\ (cache'[x] = cache[x] \/ cache'[x] = meta[x])
      BY <1>0, <2>1 DEF IInv, TypeOK
  <2>3. p \in Updaters /\ committed[req[p].e] # None /\ req[p].e \notin stale
            => req[p].val = meta[req[p].e]
      BY <2>1 DEF Served, WorksWithFile, UpdateCurrent, Genuine
  <2>4. /\ \A q \in Procs \ {p} : pc'[q] = pc[q] /\ req'[q] = req[q]
        /\ pc'[p] \notin {"fill", "cacheStore"}
        /\ p \in Updaters /\ pc'[p] = "write" =>
               req'[p].val = req[p].val /\ req'[p].e = req[p].e
      BY <1>3, <2>1
  <2>5. req[p].e \notin stale' => req[p].e \notin stale
      BY <2>1
  <2> QED BY <1>1, <2>1, <2>2, <2>3, <2>4, <2>5, ServedMove
<1> QED BY <1>4, <1>5, <1>6

(* The two stores of Store and Update, under the lock of the entry.        *)
LEMMA ServedWrite ==
    ASSUME IInv, Served, NEW p \in Procs, WriteMeta(p) \/ CacheStore(p)
    PROVE  Served'
<1> DEFINE e == req[p].e
           new == WrittenBy(p, req[p])
<1>0. /\ pc[p] \in {"write", "cacheStore"} /\ pc[p] # "idle" /\ req[p] \in Requests
      /\ e \in Entries /\ Fits(p, pc[p], req[p])
      /\ pc \in [Procs -> PCs] /\ req \in [Procs -> Requests]
    BY WorksOnEntries DEF WriteMeta, CacheStore, IInv, RequestsFit, TypeOK
<1>1. p \in Creators \cup Updaters /\ new \in Metadata /\ new # None
    BY <1>0, WrittenMetadata, NoneIsNoMetadata DEF Written
<1>2. /\ p \in Creators => new.id = req[p].id
      /\ p \in Updaters => new.id = req[p].val.id
  <2>1. p \in Creators => new.id = req[p].id
      BY <1>0 DEF WrittenBy, Fits, CreateFits
  <2>2. p \in Updaters => req[p].val \in Metadata /\ req[p].op \in {"AddExport", "DropExport"}
                          /\ p \notin Creators
      BY <1>0, KindsDisjoint DEF Fits, UpdateFits, Requests
  <2>3. p \in Updaters => new.id = req[p].val.id
      BY <2>2 DEF WrittenBy, Metadata
  <2> QED BY <2>1, <2>3
<1> HIDE DEF new
<1>3. /\ holders[e] = {p}
      /\ \A q \in Procs \ {p} : req[q].e = e => ~Inside(q, pc[q], req[q])
    BY <1>0 DEF IInv, LockHeld, Inside
<1>4. req' = req /\ \A q \in Procs \ {p} : pc'[q] = pc[q]
    BY <1>0 DEF WriteMeta, CacheStore, Goto
<1>5. ASSUME NEW q \in Creators \cup Updaters, q # p,
             pc[q] \in {"write", "cacheStore"} \/ (q \in Updaters /\ pc[q] # "idle"
                                                     /\ pc[q] \in {"fill", "write", "cacheStore"})
      PROVE  req[q].e # e /\ req[q].e \in Entries
  <2>1. q \in Procs /\ pc[q] # "idle"
      BY <1>5 DEF Procs
  <2>2. Inside(q, pc[q], req[q])
      BY <1>5, <2>1 DEF Inside, IInv, RequestsFit, Fits, UpdateFits
  <2> QED BY <1>3, <1>5, <2>1, <2>2, WorksOnEntries
<1>6. ASSUME \A x \in Entries : x # e =>
                 /\ meta'[x] = meta[x] /\ data'[x] = data[x] /\ cache'[x] = cache[x]
                 /\ committed'[x] = committed[x] /\ (x \in stale' <=> x \in stale),
             pc'[p] \notin {"fill", "write"},
             committed'[e] # None /\ e \notin stale' => meta'[e].id = data'[e],
             p \in Creators => CreateCurrent(p, pc[p], req[p])',
             p \in Updaters => UpdateCurrent(p, pc[p], req[p])',
             committed'[e] # None /\ e \notin stale' /\ pc'[p] # "cacheStore" =>
                 cache'[e] = meta'[e]
      PROVE  Served'
  <2>1. DescribesData'
      BY <1>6 DEF Served, DescribesData, Genuine
  <2>2. ASSUME NEW q \in Creators PROVE CreateCurrent(q, pc[q], req[q])'
    <3>1. CASE q = p
        BY <1>6, <3>1
    <3>2. CASE q # p /\ pc[q] = "cacheStore"
      <4>1. req[q].e # e /\ req[q].e \in Entries /\ pc'[q] = pc[q] /\ req'[q] = req[q]
          BY <1>4, <1>5, <3>2 DEF Procs
      <4>2. CreateCurrent(q, pc[q], req[q])
          BY DEF Served, WorksWithFile
      <4> QED BY <1>6, <4>1, <4>2 DEF CreateCurrent
    <3>3. CASE q # p /\ pc[q] # "cacheStore"
        BY <1>4, <3>3 DEF CreateCurrent, Procs
    <3> QED BY <3>1, <3>2, <3>3
  <2>3. ASSUME NEW q \in Updaters PROVE UpdateCurrent(q, pc[q], req[q])'
    <3>1. CASE q = p
        BY <1>6, <3>1
    <3>2. CASE q # p /\ pc[q] \in {"fill", "write", "cacheStore"}
      <4>1. req[q].e # e /\ req[q].e \in Entries /\ pc'[q] = pc[q] /\ req'[q] = req[q]
          BY <1>4, <1>5, <3>2 DEF Procs
      <4>2. UpdateCurrent(q, pc[q], req[q])
          BY DEF Served, WorksWithFile
      <4> QED BY <1>6, <4>1, <4>2 DEF UpdateCurrent, Genuine
    <3>3. CASE q # p /\ pc[q] \notin {"fill", "write", "cacheStore"}
        BY <1>4, <3>3 DEF UpdateCurrent, Procs
    <3> QED BY <3>1, <3>2, <3>3
  <2>4. ServedIsReal'
    <3> SUFFICES ASSUME NEW x \in Entries, committed'[x] # None, x \notin stale',
                        \A q \in Procs : ~(pc'[q] = "cacheStore" /\ req'[q].e = x)
                 PROVE  cache'[x] = meta'[x] /\ meta'[x].id = data'[x]
        BY DEF ServedIsReal, Entry
    <3>1. CASE x = e
        BY <1>4, <1>6, <3>1
    <3>2. CASE x # e
      <4>1. \A q \in Procs : ~(pc[q] = "cacheStore" /\ req[q].e = x)
          BY <1>4, <3>2
      <4> QED BY <1>6, <3>2, <4>1 DEF Served, ServedIsReal, Entry
    <3> QED BY <3>1, <3>2
  <2> QED BY <2>1, <2>2, <2>3, <2>4 DEF Served, WorksWithFile
<1>7. CASE CacheStore(p)
  <2>1. /\ pc[p] = "cacheStore" /\ pc'[p] = "unlock" /\ cache' = [cache EXCEPT ![e] = new]
        /\ stale' = IF p \in Creators THEN stale \ {e} ELSE stale
        /\ UNCHANGED <<meta, data, committed>>
      BY <1>0, <1>7 DEF CacheStore, Goto, Entry, Written, new, disk
  <2>2. \A x \in Entries : x # e => cache'[x] = cache[x] /\ (x \in stale' <=> x \in stale)
      BY <2>1 DEF IInv, TypeOK
  <2>3. cache'[e] = new
      BY <1>0, <2>1 DEF IInv, TypeOK
  <2>4. committed[e] # None /\ e \notin stale' => meta[e] = new /\ meta[e].id = data[e]
    <3>1. CASE p \in Creators
        BY <2>1, <3>1 DEF Served, WorksWithFile, CreateCurrent, new
    <3>2. CASE p \in Updaters
        BY <1>0, <2>1, <3>2, KindsDisjoint
           DEF Served, WorksWithFile, UpdateCurrent, DescribesData, Genuine, new
    <3> QED BY <1>1, <3>1, <3>2
  <2>5. CreateCurrent(p, pc[p], req[p])' /\ UpdateCurrent(p, pc[p], req[p])'
      BY <2>1 DEF CreateCurrent, UpdateCurrent
  <2> QED BY <1>6, <2>1, <2>2, <2>3, <2>4, <2>5
<1>8. CASE WriteMeta(p)
  <2>0. pc[p] = "write" /\ UNCHANGED <<cache, data, stale>>
      BY <1>8 DEF WriteMeta
  <2>1. CASE /\ UNCHANGED <<meta, committed>>
             /\ Goto(p, IF p \in Creators THEN "cleanSubvol" ELSE "unlock")
    <3>1. pc'[p] \in {"cleanSubvol", "unlock"}
        BY <1>0, <2>1 DEF Goto
    <3> QED BY <1>4, <2>0, <2>1, <3>1, ServedMove
  <2>2. CASE /\ meta' = [meta EXCEPT ![e] = new] /\ Goto(p, "cacheStore")
             /\ \/ committed' = committed
                \/ /\ p \in Creators /\ data[e] = req[p].id
                   /\ committed' = [committed EXCEPT ![e] = req[p].id]
    <3>1. pc'[p] = "cacheStore" /\ meta'[e] = new
        BY <1>0, <2>2 DEF Goto, IInv, TypeOK
    <3>2. \A x \in Entries : x # e => meta'[x] = meta[x] /\ committed'[x] = committed[x]
        BY <2>2 DEF IInv, TypeOK
    <3>3. p \in Creators /\ committed'[e] # None => new.id = data[e]
      <4> SUFFICES ASSUME p \in Creators, committed'[e] # None PROVE new.id = data[e]
          OBVIOUS
      <4>1. committed[e] = None
          BY <1>0, <2>0 DEF IInv, CommittedAlone, Harmless
      <4> QED BY <1>2, <2>2, <4>1
    <3>4. p \in Updaters /\ committed'[e] # None /\ e \notin stale => new.id = data[e]
      <4> SUFFICES ASSUME p \in Updaters, committed'[e] # None, e \notin stale
                   PROVE  new.id = data[e]
          OBVIOUS
      <4>1. Genuine(e)
          BY <2>2, KindsDisjoint DEF Genuine
      <4>2. req[p].val = meta[e]
          BY <2>0, <4>1 DEF Served, WorksWithFile, UpdateCurrent
      <4> QED BY <1>0, <1>2, <4>1, <4>2 DEF Served, DescribesData
    <3>5. /\ p \in Creators => CreateCurrent(p, pc[p], req[p])'
          /\ p \in Updaters => UpdateCurrent(p, pc[p], req[p])'
        BY <1>4, <2>0, <3>1, <3>3 DEF CreateCurrent, UpdateCurrent, new
    <3> QED BY <1>1, <1>6, <2>0, <3>1, <3>2, <3>3, <3>4, <3>5
  <2> QED BY <1>8, <2>1, <2>2 DEF WriteMeta, Entry, Written, new
<1> QED BY <1>7, <1>8

(* The steps that remove or make something are not on a committed entry.   *)
LEMMA ServedElsewhere ==
    ASSUME IInv, Served, NEW p \in Procs,
           \/ Mkdir(p) \/ MakeSubvol(p) \/ Configure(p) \/ CleanSubvol(p)
           \/ DelSubvol(p) \/ DelCache(p) \/ RemoveEntries(p) \/ Rmdir(p)
    PROVE  Served'
<1> DEFINE e == req[p].e
<1>0. /\ pc[p] \in {"mkdir", "subvol", "configure", "cleanSubvol", "delSubvol", "delCache",
                    "removeEntries", "rmdir"}
      /\ pc[p] # "idle" /\ e \in Entries /\ Fits(p, pc[p], req[p])
      /\ pc \in [Procs -> PCs] /\ req \in [Procs -> Requests]
    BY WorksOnEntries DEF Mkdir, MakeSubvol, Configure, CleanSubvol, DelSubvol, DelCache,
       RemoveEntries, Rmdir, IInv, RequestsFit, TypeOK
<1>1. p \notin Updaters /\ p \in Creators \cup Deleters
    BY <1>0 DEF Fits, UpdateFits, ReadFits, Procs
<1>2. committed[e] # None => pc[p] = "rmdir"
    BY <1>0, <1>1 DEF IInv, CommittedAlone, Harmless
<1>3. /\ \A q \in Procs \ {p} : pc'[q] = pc[q] /\ req'[q] = req[q]
      /\ UNCHANGED <<committed, stale>>
    BY <1>0 DEF Mkdir, MakeSubvol, Configure, CleanSubvol, DelSubvol, DelCache,
       RemoveEntries, Rmdir, Finish, Goto, Return, ghosts
<1>4. \A x \in Entries : x # e \/ pc[p] = "rmdir" =>
          meta'[x] = meta[x] /\ data'[x] = data[x] /\ cache'[x] = cache[x]
    BY <1>0 DEF Mkdir, MakeSubvol, Configure, CleanSubvol, DelSubvol, DelCache,
       RemoveEntries, Rmdir, Entry, disk, IInv, TypeOK
<1>5. pc[p] # "cacheStore"
    BY <1>0
<1>6. pc'[p] # "cacheStore"
    <2>1. pc'[p] \in {"subvol", "unlock", "write", "configure", "cleanSubvol", "removeEntries",
                      "delCache", "rmdir", "idle"}
        BY <1>0 DEF Mkdir, MakeSubvol, Configure, CleanSubvol, DelSubvol, DelCache,
           RemoveEntries, Rmdir, Finish, Goto, Return
    <2> QED BY <2>1
<1> QED BY <1>1, <1>2, <1>3, <1>4, <1>5, <1>6, ServedMove

LEMMA NextServed == IInv /\ Served /\ [Next]_vars => Served'
<1> SUFFICES ASSUME IInv, Served, [Next]_vars PROVE Served'
    OBVIOUS
<1>0. pc \in [Procs -> PCs] /\ req \in [Procs -> Requests]
    BY DEF IInv, TypeOK
<1>1. CASE Crash
  <2>1. /\ UNCHANGED <<meta, data, dir, committed, stale>> /\ cache' = LoadCache
        /\ \A p \in Procs : pc'[p] = "idle"
      BY <1>1 DEF Crash, disk
  <2>2. DescribesData' /\ WorksWithFile'
      BY <2>1 DEF Served, DescribesData, Genuine, WorksWithFile, CreateCurrent, UpdateCurrent,
         Procs
  <2>3. ServedIsReal'
    <3> SUFFICES ASSUME NEW x \in Entries, committed[x] # None, x \notin stale
                 PROVE  LoadCache[x] = meta[x] /\ meta[x].id = data[x]
        BY <2>1 DEF ServedIsReal, LoadCache
    <3>1. dir[x] /\ data[x] # None
        BY DEF IInv, CommittedSurvives
    <3> QED BY <3>1 DEF LoadCache, Served, DescribesData, Genuine
  <2> QED BY <2>2, <2>3 DEF Served
<1>2. CASE UNCHANGED vars
    BY <1>2 DEF vars, Served, DescribesData, Genuine, WorksWithFile, CreateCurrent, UpdateCurrent,
       ServedIsReal, Entry
<1>3. ASSUME NEW p \in Procs, Requested(p) \/ TakeLock(p) \/ LockTimeout(p) \/ Step(p)
      PROVE  Served'
  <2>1. CASE Requested(p)
    <3>1. PICK op, src, x, first :
              /\ first \in {"lock", "load"} /\ Call(p, op, src, x, first)
              /\ committed' = committed \/ committed' = [committed EXCEPT ![x] = None]
        BY <2>1 DEF Requested, CreateVolume, CloneVolume, CreateSnapshot, CreateClone,
           CallCreate, DeleteVolume, DeleteSnapshot, CallDelete, Update, GetEntry
    <3>2. /\ \A q \in Procs \ {p} : pc'[q] = pc[q] /\ req'[q] = req[q]
          /\ UNCHANGED <<meta, data, cache, stale>>
          /\ pc[p] = "idle" /\ pc'[p] \in {"lock", "load"}
        BY <1>0, <3>1 DEF Call, Goto, disk
    <3>3. \A y \in Entries : committed'[y] # None => committed[y] # None
        BY <3>1 DEF IInv, TypeOK
    <3> QED BY <3>2, <3>3, ServedMove
  <2>2. CASE TakeLock(p) \/ LockTimeout(p) \/ Unlock(p)
    <3>1. /\ \A q \in Procs \ {p} : pc'[q] = pc[q] /\ req'[q] = req[q]
          /\ UNCHANGED <<meta, data, cache, committed, stale>>
          /\ pc[p] \in {"lock", "unlock"} /\ pc'[p] \in {"load", "idle"}
        BY <1>0, <2>2 DEF TakeLock, LockTimeout, Unlock, Goto, Return, disk, ghosts
    <3> QED BY <3>1, ServedMove
  <2> QED BY <1>3, <2>1, <2>2, ServedGet, ServedWrite, ServedElsewhere DEF Step
<1> QED BY <1>1, <1>2, <1>3 DEF Next

(* A committed creation is served as the disk holds it, whatever creations,*)
(* deletes, updates and reads overlap and wherever the agent dies, until a *)
(* Get caches a file that was replaced since it was read.                  *)
THEOREM ServedAreReal == Spec => []ServedIsReal
<1>1. Init => Served
    BY DEF Init, Empty, Served, DescribesData, Genuine, WorksWithFile, CreateCurrent,
       UpdateCurrent, ServedIsReal, Procs
<1>2. Served => ServedIsReal
    BY DEF Served
<1> QED BY <1>1, <1>2, NextServed, StoreInvariant, PTL DEF Spec
=============================================================================

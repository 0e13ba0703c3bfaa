------------------------- MODULE VolumeUpdateProofs -------------------------
(***************************************************************************)
(* Store.Update for any number of goroutines, owners, requests, changes by *)
(* pods, failures and crashes: no change of the metadata overwrites what   *)
(* another has written (NoLostUpdate); and, with at most one goroutine     *)
(* that expands, the quota is never below the size that the metadata       *)
(* promises (QuotaCoversSize).  With two expansions at once it may be,     *)
(* which is why the second theorem has a hypothesis.                       *)
(***************************************************************************)
EXTENDS VolumeUpdate, TLAPS

USE DEF Entries, Volume, Snapshot

(* The change of a request, applied to metadata, gives metadata, with the  *)
(* size of the request if it asks for one and the old one if not.          *)
LEMMA ChangeOfMetadata ==
    ASSUME NEW p \in Procs, NEW r \in Requests, NEW m \in Metadata, r.op # "none",
           r.op \in {"AddExport", "DropExport"} => p \in Updaters,
           r.size > 0 => r.op = "UpdateVolume"
    PROVE  /\ Change(p, r, m) \in Metadata
           /\ Change(p, r, m).size = IF r.size > 0 THEN r.size ELSE m.size
<1>1. CASE r.op \in {"AddExport", "DropExport"}
    BY <1>1, Magnitudes DEF Change, Metadata, Requests
<1>2. CASE r.op = "UpdateVolume"
  <2> DEFINE n == IF r.size > 0 THEN r.size ELSE m.size
             o == IF r.owner # None THEN r.owner ELSE m.owner
  <2>1. Change(p, r, m) = [size |-> n, owner |-> o, used |-> m.used, refs |-> m.refs]
      BY <1>2 DEF Change, Metadata
  <2>2. n \in 1..MaxSize /\ o \in Owners
      BY Magnitudes DEF Metadata, Requests
  <2> QED BY <2>1, <2>2 DEF Metadata
<1>3. CASE r.op = "usage"
  <2> DEFINE o == IF r.owner # None THEN r.owner ELSE m.owner
  <2>1. Change(p, r, m) = [size |-> m.size, owner |-> o, used |-> r.used, refs |-> m.refs]
      BY <1>3 DEF Change, Metadata
  <2>2. o \in Owners /\ r.used \in 0..MaxUsed /\ ~(r.size > 0)
      BY <1>3, Magnitudes DEF Metadata, Requests
  <2> QED BY <2>1, <2>2 DEF Metadata
<1> QED BY <1>1, <1>2, <1>3 DEF Requests

(* A request that starts is well formed.                                   *)
LEMMA NoRequestFits == NoRequest \in Requests /\ NoRequest.op = "none" /\ NoRequest.size = 0
BY Magnitudes DEF NoRequest, Requests

LEMMA ExportRequestFits ==
    ASSUME NEW op \in {"AddExport", "DropExport"}
    PROVE  /\ [NoRequest EXCEPT !.op = op] \in Requests
           /\ [NoRequest EXCEPT !.op = op].op = op /\ [NoRequest EXCEPT !.op = op].size = 0
BY NoRequestFits DEF Requests

LEMMA UpdateRequestFits ==
    ASSUME NEW n \in 0..MaxSize, NEW o \in Owners \cup {None}
    PROVE  LET r == [op |-> "UpdateVolume", e |-> Volume, size |-> n, owner |-> o, used |-> 0]
           IN  r \in Requests /\ r.op = "UpdateVolume" /\ r.size = n
BY Magnitudes DEF Requests

LEMMA UsageRequestFits ==
    ASSUME NEW e \in Entries, NEW o \in Owners \cup {None}, NEW b \in 0..MaxUsed
    PROVE  LET r == [op |-> "usage", e |-> e, size |-> 0, owner |-> o, used |-> b]
           IN  r \in Requests /\ r.op = "usage" /\ r.size = 0
BY Magnitudes DEF Requests
-----------------------------------------------------------------------------
LEMMA InitIInv == Init => IInv
<1> SUFFICES ASSUME Init PROVE IInv
    OBVIOUS
<1>1. TypeOK
    BY Magnitudes, NoRequestFits DEF Init, TypeOK, Metadata, Lock!Init
<1>2. RequestsFit
    BY NoRequestFits DEF Init, RequestsFit
<1>3. InsideUpdate /\ CacheIsFile
    BY DEF Init, InsideUpdate, CacheIsFile
<1> QED BY <1>1, <1>2, <1>3 DEF IInv

(* The steps of a request: the lock is free, or the goroutine's own.       *)
LEMMA RequestSteps ==
    ASSUME IInv, NEW p \in Procs,
           \/ p \in Updaters /\ Requested(p)
           \/ TakeLock(p) \/ Step(p)
    PROVE  IInv'
<1> USE NoRequestFits DEF IInv
<1>0. req[p] \in Requests /\ req[p].e \in Entries
    BY DEF TypeOK, Requests
<1>1. CASE p \in Updaters /\ Requested(p)
  <2>1. PICK r \in Requests, l \in {"quota", "lock"} :
            /\ Call(p, r, l) /\ r.op \in {"UpdateVolume", "AddExport", "DropExport"}
            /\ r.size > 0 => p \in Sizers /\ r.op = "UpdateVolume"
    <3>1. CASE \E n \in 0..MaxSize, o \in Owners \cup {None} : UpdateVolume(p, n, o)
      <4> PICK n \in 0..MaxSize, o \in Owners \cup {None} : UpdateVolume(p, n, o)
          BY <3>1
      <4> DEFINE r == [op |-> "UpdateVolume", e |-> Volume, size |-> n, owner |-> o, used |-> 0]
      <4>1. r \in Requests /\ r.op = "UpdateVolume" /\ r.size = n
          BY UpdateRequestFits
      <4>2. Call(p, r, "quota") /\ (n > 0 => p \in Sizers)
          BY DEF UpdateVolume
      <4> HIDE DEF r
      <4> QED BY <4>1, <4>2
    <3>2. CASE \E op \in {"AddExport", "DropExport"} : ExportRequest(p, op)
      <4> PICK op \in {"AddExport", "DropExport"} : ExportRequest(p, op)
          BY <3>2
      <4> DEFINE r == [NoRequest EXCEPT !.op = op]
      <4>1. r \in Requests /\ r.op = op /\ r.size = 0
          BY ExportRequestFits
      <4>2. Call(p, r, "lock")
          BY DEF ExportRequest
      <4> HIDE DEF r
      <4> QED BY <4>1, <4>2
    <3> QED BY <1>1, <3>1, <3>2 DEF Requested
  <2>2. TypeOK'
      BY <2>1 DEF TypeOK, Call, Goto, truth, scan
  <2>3. RequestsFit'
      BY <1>1, <2>1 DEF TypeOK, RequestsFit, Call, Goto
  <2>4. InsideUpdate' /\ CacheIsFile'
      BY <2>1 DEF TypeOK, InsideUpdate, CacheIsFile, Applied, Call, Goto
  <2> QED BY <2>2, <2>3, <2>4
<1>2. CASE TakeLock(p)
  <2>1. TypeOK'
      BY <1>2, <1>0 DEF TypeOK, TakeLock, Goto, truth, scan, Lock!Acquire
  <2>2. RequestsFit'
      BY <1>2 DEF TypeOK, RequestsFit, TakeLock, Goto
  <2>3. InsideUpdate'
    <3>1. holders[req[p].e] = {} /\ holders' = [holders EXCEPT ![req[p].e] = {p}]
        BY <1>2 DEF TakeLock, Lock!Acquire
    <3>2. \A q \in Procs : pc[q] \in {"write", "publish"} => q # p /\ req[q].e # req[p].e
        BY <1>2, <3>1 DEF InsideUpdate, TakeLock
    <3> QED BY <1>2, <1>0, <3>1, <3>2 DEF TypeOK, Requests, InsideUpdate, Applied, TakeLock, Goto
  <2>4. CacheIsFile'
      BY <1>2 DEF TypeOK, CacheIsFile, TakeLock, Goto
  <2> QED BY <2>1, <2>2, <2>3, <2>4
<1>3. CASE SetQuota(p)
  <2>1. TypeOK'
      BY <1>3 DEF TypeOK, Requests, SetQuota, Goto, Return, truth, scan
  <2>2. RequestsFit'
      BY <1>3 DEF TypeOK, RequestsFit, SetQuota, Goto, Return
  <2>3. InsideUpdate' /\ CacheIsFile'
      BY <1>3 DEF TypeOK, InsideUpdate, CacheIsFile, Applied, SetQuota, Goto, Return
  <2> QED BY <2>1, <2>2, <2>3
<1>4. CASE SetAttributes(p)
  <2>1. TypeOK'
      BY <1>4 DEF TypeOK, Requests, SetAttributes, Goto, Return, truth, scan
  <2>2. RequestsFit'
      BY <1>4 DEF TypeOK, RequestsFit, SetAttributes, Goto, Return
  <2>3. InsideUpdate' /\ CacheIsFile'
      BY <1>4 DEF TypeOK, InsideUpdate, CacheIsFile, Applied, SetAttributes, Goto, Return
  <2> QED BY <2>1, <2>2, <2>3
<1>5. CASE WriteMeta(p) \/ Publish(p)
  <2> DEFINE e == req[p].e
             new == Applied(p, val[p])
  <2>1. /\ e \in Entries /\ val[p] \in Metadata /\ new \in Metadata
        /\ holders[e] = {p} /\ val[p] = cache[e]
    <3>1. /\ e \in Entries /\ holders[e] = {p} /\ val[p] = cache[e]
          /\ req[p] \in Requests /\ cache[e] \in Metadata
        BY <1>0, <1>5 DEF WriteMeta, Publish, TypeOK, InsideUpdate
    <3> QED BY <1>5, <3>1, ChangeOfMetadata DEF Applied, RequestsFit, WriteMeta, Publish
  <2>2. \A q \in Procs : q # p /\ pc[q] \in {"write", "publish"} => req[q].e # e
      BY <2>1 DEF InsideUpdate
  <2>3. CASE WriteMeta(p) /\ pc'[p] = "publish"
    <3> HIDE DEF new
    <3>0. /\ file' = [file EXCEPT ![e] = new] /\ pc' = [pc EXCEPT ![p] = "publish"]
          /\ UNCHANGED <<cache, truth, scan, holders, req, val>>
        BY <2>3 DEF WriteMeta, Goto, Return, TypeOK, new
    <3>1. TypeOK'
        BY <2>1, <3>0 DEF TypeOK, truth, scan
    <3>2. RequestsFit'
        BY <2>3, <3>0 DEF TypeOK, RequestsFit, WriteMeta
    <3>3. InsideUpdate'
      <4> SUFFICES ASSUME NEW q \in Procs
                   PROVE  /\ pc'[q] \in {"write", "publish"} =>
                               holders[req[q].e] = {q} /\ val[q] = cache[req[q].e]
                          /\ pc'[q] = "publish" => file'[req[q].e] = Applied(q, val[q])
          BY <3>0 DEF InsideUpdate, Applied
      <4>1. CASE q = p
          BY <2>1, <3>0, <4>1 DEF TypeOK, new
      <4>2. CASE q # p
          BY <2>1, <2>2, <3>0, <4>2 DEF TypeOK, Requests, InsideUpdate
      <4> QED BY <4>1, <4>2
    <3>4. CacheIsFile'
        BY <2>1, <3>0 DEF TypeOK, CacheIsFile
    <3> QED BY <3>1, <3>2, <3>3, <3>4
  <2>4. CASE WriteMeta(p) /\ pc'[p] # "publish"
    <3>0. /\ Unlock(p) /\ Return(p) /\ pc[p] = "write"
          /\ UNCHANGED <<file, cache, truth, scan>>
        BY <2>4 DEF WriteMeta, Goto, TypeOK
    <3>1. TypeOK'
        BY <2>1, <3>0 DEF TypeOK, truth, scan, Unlock, Return, Goto
    <3>2. RequestsFit'
        BY <3>0 DEF TypeOK, RequestsFit, Return, Goto
    <3>3. InsideUpdate'
        BY <2>1, <2>2, <3>0 DEF TypeOK, InsideUpdate, Applied, Unlock, Return, Goto
    <3>4. CacheIsFile'
        BY <3>0 DEF TypeOK, CacheIsFile, Return, Goto
    <3> QED BY <3>1, <3>2, <3>3, <3>4
  <2>5. CASE Publish(p)
    <3> HIDE DEF new
    <3>0. /\ cache' = [cache EXCEPT ![e] = new] /\ file[e] = new
          /\ Unlock(p) /\ Return(p) /\ UNCHANGED <<file, truth, scan>>
        BY <2>5 DEF Publish, InsideUpdate, new
    <3>1. TypeOK'
        BY <2>1, <3>0 DEF TypeOK, truth, scan, Unlock, Return, Goto
    <3>2. RequestsFit'
        BY <3>0 DEF TypeOK, RequestsFit, Return, Goto
    <3>3. InsideUpdate'
        BY <2>1, <2>2, <3>0 DEF TypeOK, InsideUpdate, Applied, Unlock, Return, Goto
    <3>4. CacheIsFile'
        BY <2>1, <3>0 DEF TypeOK, CacheIsFile, Return, Goto
    <3> QED BY <3>1, <3>2, <3>3, <3>4
  <2> QED BY <1>5, <2>3, <2>4, <2>5
<1> QED BY <1>1, <1>2, <1>3, <1>4, <1>5 DEF Step

(* The usage updater asks for changes like everybody else; pods never      *)
(* touch the metadata; after a crash the cache is loaded from the files.   *)
LEMMA OtherSteps ==
    ASSUME IInv, Scan \/ PodChanges \/ Crash
    PROVE  IInv'
<1> USE NoRequestFits DEF IInv
<1>0. Usage \in Procs
    BY DEF Procs
<1>1. CASE StartScan \/ EndScan
  <2>1. TypeOK'
      BY <1>0, <1>1 DEF TypeOK, StartScan, EndScan, Goto, truth
  <2>2. RequestsFit' /\ InsideUpdate' /\ CacheIsFile'
      BY <1>0, <1>1 DEF TypeOK, StartScan, EndScan, Goto,
         RequestsFit, InsideUpdate, CacheIsFile, Applied
  <2> QED BY <2>1, <2>2
<1>2. CASE VisitVolume \/ VisitSnapshot
  <2>1. PICK e \in Entries, o \in Owners \cup {None}, b \in 0..MaxUsed, changed \in BOOLEAN :
            Visit(e, changed, o, b)
    <3>1. CASE VisitVolume
        <4> DEFINE b == IF bulk # None THEN bulk[Volume] ELSE 0
                   c == \/ owner # cache[Volume].owner
                        \/ bulk # None /\ bulk[Volume] # cache[Volume].used
        <4>1. b \in 0..MaxUsed /\ owner \in Owners /\ c \in BOOLEAN
            BY Magnitudes DEF TypeOK
        <4>2. Visit(Volume, c, owner, b)
            BY <3>1 DEF VisitVolume
        <4> HIDE DEF b, c
        <4> QED BY <4>1, <4>2
      <3>2. CASE VisitSnapshot
        <4> DEFINE b == IF bulk # None THEN bulk[Snapshot] ELSE 0
                   c == bulk # None /\ bulk[Snapshot] # cache[Snapshot].used
        <4>1. b \in 0..MaxUsed /\ c \in BOOLEAN
            BY Magnitudes DEF TypeOK
        <4>2. Visit(Snapshot, c, None, b)
            BY <3>2 DEF VisitSnapshot
        <4> HIDE DEF b, c
        <4> QED BY <4>1, <4>2
      <3> QED BY <1>2, <3>1, <3>2
  <2> DEFINE r == [op |-> "usage", e |-> e, size |-> 0, owner |-> o, used |-> b]
  <2>2. r \in Requests /\ r.op = "usage" /\ r.size = 0
      BY UsageRequestFits
  <2>3. /\ pc[Usage] = "scan" /\ left' \subseteq left
        /\ \/ pc' = [pc EXCEPT ![Usage] = "lock"] /\ req' = [req EXCEPT ![Usage] = r]
           \/ UNCHANGED <<pc, req>>
        /\ UNCHANGED <<file, cache, truth, holders, val, bulk>>
      BY <2>1 DEF Visit, Goto
  <2> HIDE DEF r
  <2>4. TypeOK'
      BY <1>0, <2>2, <2>3 DEF TypeOK, truth
  <2>5. RequestsFit'
      BY <1>0, <2>2, <2>3 DEF TypeOK, RequestsFit
  <2>6. InsideUpdate' /\ CacheIsFile'
      BY <1>0, <2>2, <2>3 DEF TypeOK, InsideUpdate, CacheIsFile, Applied
  <2> QED BY <2>4, <2>5, <2>6
<1>3. CASE PodChanges
  <2>1. TypeOK'
      BY <1>3 DEF TypeOK, PodChanges, scan
  <2>2. RequestsFit' /\ InsideUpdate' /\ CacheIsFile'
      BY <1>3 DEF PodChanges, RequestsFit, InsideUpdate, CacheIsFile, Applied
  <2> QED BY <2>1, <2>2
<1>4. CASE Crash
  <2>1. TypeOK'
      BY <1>4 DEF TypeOK, Crash, truth
  <2>2. RequestsFit' /\ InsideUpdate' /\ CacheIsFile'
      BY <1>4 DEF Crash, RequestsFit, InsideUpdate, CacheIsFile
  <2> QED BY <2>1, <2>2
<1> QED BY <1>1, <1>2, <1>3, <1>4 DEF Scan

LEMMA NextIInv == IInv /\ [Next]_vars => IInv'
<1> SUFFICES ASSUME IInv, [Next]_vars PROVE IInv'
    OBVIOUS
<1>1. CASE Next
    BY <1>1, RequestSteps, OtherSteps DEF Next, Procs
<1>2. CASE UNCHANGED vars
    BY <1>2 DEF vars, truth, scan, bounds, IInv, TypeOK, RequestsFit, InsideUpdate,
       CacheIsFile, Applied
<1> QED BY <1>1, <1>2

(* Whoever is inside Update is alone on the entry with current metadata,   *)
(* and cache and file differ only while it is between write and            *)
(* publication.                                                            *)
THEOREM UpdateInvariant == Spec => []IInv
BY InitIInv, NextIInv, PTL DEF Spec

-----------------------------------------------------------------------------
(* Only WriteMeta changes a file.                                          *)
LEMMA OnlyWrites ==
    ASSUME IInv, [Next]_vars, file' # file
    PROVE  \E p \in Procs : WriteMeta(p) /\ file' = [file EXCEPT ![req[p].e] = Applied(p, val[p])]
BY DEF Next, vars, Requested, UpdateVolume, ExportRequest, Call, TakeLock, Step, SetQuota,
   SetAttributes, WriteMeta, Publish, Scan, StartScan, EndScan, VisitVolume, VisitSnapshot,
   Visit, PodChanges, Crash

(* What the change of a request does to each field.                        *)
LEMMA ChangedFields ==
    ASSUME NEW p \in Procs, NEW r \in Requests, NEW m \in Metadata, r.op # "none"
    PROVE  LET n == Change(p, r, m) IN
           /\ n.size \in {m.size, r.size} /\ n.owner \in {m.owner, r.owner}
           /\ n.used \in {m.used, r.used}
           /\ \A q \in Updaters : (q \in n.refs) # (q \in m.refs) =>
                  q = p /\ r.op \in {"AddExport", "DropExport"}
<1>1. CASE r.op = "AddExport"
    BY <1>1 DEF Change, Metadata
<1>2. CASE r.op = "DropExport"
    BY <1>2 DEF Change, Metadata
<1>3. CASE r.op \in {"UpdateVolume", "usage"}
    BY <1>3 DEF Change, Metadata
<1> QED BY <1>1, <1>2, <1>3 DEF Requests

(* No write of the metadata puts back a reference, a size, an owner or a   *)
(* usage that was read before another write.                               *)
THEOREM UpdatesKept == Spec => NoLostUpdate
<1> DEFINE Kept(e) ==
          /\ \A p \in Updaters :
                (p \in file'[e].refs) # (p \in file[e].refs) =>
                    Writing(p, e) /\ req[p].op \in {"AddExport", "DropExport"}
          /\ file'[e].size # file[e].size =>
                \E p \in Procs : Writing(p, e) /\ file'[e].size = req[p].size
          /\ file'[e].owner # file[e].owner =>
                \E p \in Procs : Writing(p, e) /\ file'[e].owner = req[p].owner
          /\ file'[e].used # file[e].used =>
                \E p \in Procs : Writing(p, e) /\ file'[e].used = req[p].used
<1>1. IInv /\ [Next]_vars => [\A e \in Entries : Kept(e)]_vars
  <2> SUFFICES ASSUME IInv, [Next]_vars, NEW e \in Entries PROVE Kept(e)
      OBVIOUS
  <2>1. CASE file'[e] = file[e]
      BY <2>1
  <2>2. CASE file'[e] # file[e]
    <3>1. PICK p \in Procs :
              WriteMeta(p) /\ file' = [file EXCEPT ![req[p].e] = Applied(p, val[p])]
        BY <2>2, OnlyWrites
    <3>2. pc[p] = "write" /\ req[p].e = e /\ file'[e] = Applied(p, val[p])
        BY <2>2, <3>1 DEF WriteMeta, IInv, TypeOK
    <3>3. file[e] = cache[e] /\ val[p] = cache[e]
        BY <3>2 DEF IInv, InsideUpdate, CacheIsFile
    <3>4. file'[e] = Change(p, req[p], file[e]) /\ file[e] \in Metadata
          /\ req[p] \in Requests /\ req[p].op # "none"
        BY <3>2, <3>3 DEF Applied, IInv, TypeOK, RequestsFit
    <3>5. /\ file'[e].size \in {file[e].size, req[p].size}
          /\ file'[e].owner \in {file[e].owner, req[p].owner}
          /\ file'[e].used \in {file[e].used, req[p].used}
          /\ \A q \in Updaters : (q \in file'[e].refs) # (q \in file[e].refs) =>
                 q = p /\ req[p].op \in {"AddExport", "DropExport"}
        BY <3>4, ChangedFields
    <3> QED BY <3>2, <3>5 DEF Writing
  <2> QED BY <2>1, <2>2
<1> QED BY <1>1, UpdateInvariant, PTL DEF Spec, NoLostUpdate

-----------------------------------------------------------------------------
(* Sizes are numbers, so that they can be compared.                        *)
LEMMA SizesAreNumbers ==
    ASSUME IInv
    PROVE  /\ quota \in Nat /\ \A p \in Procs : req[p] \in Requests /\ req[p].size \in Nat
           /\ \A e \in Entries : file[e].size \in Nat /\ cache[e].size \in Nat
BY Magnitudes DEF IInv, TypeOK, Metadata, Requests

(* Inside Update the new size is that of the request, or the cached one.   *)
LEMMA WrittenSize ==
    ASSUME IInv, NEW p \in Procs, pc[p] \in {"write", "publish"}
    PROVE  Applied(p, val[p]).size = IF req[p].size > 0 THEN req[p].size ELSE cache[req[p].e].size
<1>1. req[p] \in Requests /\ val[p] \in Metadata /\ val[p] = cache[req[p].e]
    BY DEF IInv, TypeOK, Requests, InsideUpdate
<1> QED BY <1>1, ChangeOfMetadata DEF Applied, IInv, RequestsFit

(* While the one expansion has not written, file and cache have one size.  *)
LEMMA SizesAgree ==
    ASSUME IInv, OneSizer, NEW p \in Sizers, pc[p] # "publish"
    PROVE  file[Volume].size = cache[Volume].size
<1>1. ASSUME NEW q \in Procs, pc[q] = "publish", req[q].e = Volume
      PROVE  file[Volume].size = cache[Volume].size
  <2>1. ~(req[q].size > 0)
      BY <1>1 DEF IInv, RequestsFit, OneSizer
  <2>2. file[Volume] = Applied(q, val[q])
      BY <1>1 DEF IInv, InsideUpdate
  <2> QED BY <1>1, <2>1, <2>2, WrittenSize
<1> QED BY <1>1 DEF IInv, CacheIsFile

LEMMA NextSizesCovered == OneSizer /\ IInv /\ SizesCovered /\ [Next]_vars => SizesCovered'
<1> SUFFICES ASSUME OneSizer, IInv, SizesCovered, [Next]_vars PROVE SizesCovered'
    OBVIOUS
<1> USE SizesAreNumbers
<1>1. ASSUME NEW p \in Updaters, Requested(p) PROVE SizesCovered'
  <2>0. p \in Procs
      BY DEF Procs
  <2>1. ASSUME NEW n \in 0..MaxSize, NEW o \in Owners \cup {None}, UpdateVolume(p, n, o)
        PROVE  SizesCovered'
    <3>1. n > 0 => n >= cache[Volume].size /\ n >= file[Volume].size
        BY <2>1, SizesAgree DEF UpdateVolume, Call
    <3>2. /\ pc' = [pc EXCEPT ![p] = "quota"] /\ UNCHANGED <<file, cache, truth>>
          /\ \A q \in Procs : q # p => req'[q] = req[q]
          /\ req'[p].size = n
        BY <2>0, <2>1 DEF UpdateVolume, Call, Goto, IInv, TypeOK
    <3> QED BY <2>0, <3>1, <3>2 DEF SizesCovered, truth, IInv, TypeOK
  <2>2. ASSUME NEW op \in {"AddExport", "DropExport"}, ExportRequest(p, op)
        PROVE  SizesCovered'
    <3>1. pc' = [pc EXCEPT ![p] = "lock"] /\ UNCHANGED <<file, cache, truth>>
        BY <2>2 DEF ExportRequest, Call, Goto
    <3> DEFINE r == [NoRequest EXCEPT !.op = op]
    <3>2. r.size = 0
        BY ExportRequestFits
    <3>3. req' = [req EXCEPT ![p] = r]
        BY <2>2 DEF ExportRequest, Call
    <3> HIDE DEF r
    <3> QED BY <2>0, <3>1, <3>2, <3>3 DEF SizesCovered, truth, IInv, TypeOK
  <2> QED BY <1>1, <2>1, <2>2 DEF Requested
<1>2. ASSUME NEW p \in Procs, SetQuota(p) PROVE SizesCovered'
  <2>1. \A q \in Procs : req[p].size > 0 /\ req[q].size > 0 => q = p
      BY DEF IInv, RequestsFit, OneSizer
  <2> QED BY <1>2, <2>1, NoRequestFits
          DEF SetQuota, SizesCovered, Goto, Return, IInv, TypeOK
<1>3. ASSUME NEW p \in Procs, SetAttributes(p) \/ TakeLock(p) PROVE SizesCovered'
    BY <1>3, NoRequestFits
       DEF SetAttributes, TakeLock, SizesCovered, Goto, Return, truth, IInv, TypeOK
<1>4. ASSUME NEW p \in Procs, WriteMeta(p) \/ Publish(p) PROVE SizesCovered'
  <2> DEFINE n == Applied(p, val[p]).size
  <2>1. n = IF req[p].size > 0 THEN req[p].size ELSE cache[req[p].e].size
      BY <1>4, WrittenSize DEF WriteMeta, Publish
  <2>2. \A q \in Procs : req[p].size > 0 /\ req[q].size > 0 => q = p
      BY DEF IInv, RequestsFit, OneSizer
  <2>3. pc[p] # "quota" /\ req[p].e \in Entries
      BY <1>4 DEF WriteMeta, Publish, IInv, TypeOK, Requests
  <2>4. \/ file' = file
        \/ file'[Volume] = file[Volume]
        \/ file'[Volume].size = n /\ req[p].e = Volume
      BY <1>4, <2>3 DEF WriteMeta, Publish, IInv, TypeOK
  <2>5. \/ cache'[Volume] = cache[Volume]
        \/ cache'[Volume].size = n /\ req[p].e = Volume
      BY <1>4, <2>3 DEF WriteMeta, Publish, IInv, TypeOK
  <2>6. \A q \in Procs : /\ q # p => req'[q] = req[q] /\ pc'[q] = pc[q]
                         /\ req'[p].size > 0 => req'[p] = req[p] /\ pc'[p] # "quota"
      BY <1>4, <2>3, NoRequestFits DEF WriteMeta, Publish, Goto, Return, IInv, TypeOK
  <2>7. quota' = quota
      BY <1>4 DEF WriteMeta, Publish, truth
  <2> HIDE DEF n
  <2> QED BY <2>1, <2>2, <2>3, <2>4, <2>5, <2>6, <2>7 DEF SizesCovered
<1>5. CASE Scan
  <2>1. /\ UNCHANGED <<file, cache, quota>> /\ Usage \in Procs
        /\ \A q \in Procs : q # Usage => req'[q] = req[q] /\ pc'[q] = pc[q]
        /\ req'[Usage].size > 0 => req'[Usage] = req[Usage] /\ pc'[Usage] # "quota"
        /\ pc[Usage] # "quota"
      BY <1>5 DEF Scan, StartScan, EndScan, VisitVolume, VisitSnapshot, Visit, Goto, truth,
         Procs, IInv, TypeOK
  <2> QED BY <2>1 DEF SizesCovered
<1>6. CASE PodChanges \/ Crash \/ UNCHANGED vars
    BY <1>6, NoRequestFits
       DEF PodChanges, Crash, vars, truth, SizesCovered, IInv, TypeOK
<1> QED BY <1>1, <1>2, <1>3, <1>4, <1>5, <1>6 DEF Next, Step

(* With at most one expansion at a time the quota is never below the size  *)
(* that the metadata promises, whatever fails and wherever the agent dies. *)
THEOREM QuotaCovers ==
    ASSUME OneSizer
    PROVE  Spec => []QuotaCoversSize
<1>1. Init => SizesCovered
    BY NoRequestFits DEF Init, SizesCovered
<1>2. IInv /\ SizesCovered /\ [Next]_vars => SizesCovered'
    BY NextSizesCovered
<1>3. SizesCovered => QuotaCoversSize
    BY DEF SizesCovered, QuotaCoversSize
<1> QED BY <1>1, <1>2, <1>3, UpdateInvariant, PTL DEF Spec
=============================================================================

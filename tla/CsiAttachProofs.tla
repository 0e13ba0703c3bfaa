-------------------------- MODULE CsiAttachProofs ---------------------------
(***************************************************************************)
(* Proofs about CsiAttach, for any nodes, pods, faults and moves.          *)
(***************************************************************************)
EXTENDS CsiAttach, TLAPS

-----------------------------------------------------------------------------
(* Queues: what serving the first request and adding one more change of    *)
(* what a requester has in the queue.                                      *)
LEMMA TailOf ==
    ASSUME NEW S, NEW q \in Seq(S), q # <<>>
    PROVE  /\ Tail(q) \in Seq(S) /\ Len(q) \in Nat \ {0} /\ Len(Tail(q)) = Len(q) - 1
           /\ DOMAIN q = 1..Len(q) /\ DOMAIN Tail(q) = 1..(Len(q) - 1)
           /\ Head(q) = q[1] /\ q[1] \in S
           /\ \A i \in DOMAIN Tail(q) : Tail(q)[i] = q[i + 1] /\ i + 1 \in DOMAIN q
OBVIOUS

LEMMA AppendOf ==
    ASSUME NEW S, NEW q \in Seq(S), NEW x \in S
    PROVE  /\ Append(q, x) \in Seq(S) /\ Len(q) \in Nat /\ Len(Append(q, x)) = Len(q) + 1
           /\ DOMAIN q = 1..Len(q) /\ DOMAIN Append(q, x) = 1..(Len(q) + 1)
           /\ Append(q, x)[Len(q) + 1] = x
           /\ \A i \in DOMAIN q : Append(q, x)[i] = q[i]
OBVIOUS

LEMMA TailSent ==
    ASSUME NEW S, NEW q \in Seq(S), q # <<>>, NEW r
    PROVE  /\ SentBy(q, r) = {} => SentBy(Tail(q), r) = {}
           /\ (\A i \in 2..Len(q) : q[i].who # r) => SentBy(Tail(q), r) = {}
           /\ (\A i, j \in SentBy(q, r) : i = j) => \A i, j \in SentBy(Tail(q), r) : i = j
           /\ \A op : /\ LastIs(q, r, op) => LastIs(Tail(q), r, op)
                      /\ Has(Tail(q), op) => Has(q, op)
<1>1. \A i \in SentBy(Tail(q), r) : i \in Nat /\ i + 1 \in SentBy(q, r) /\ i + 1 \in 2..Len(q)
    BY TailOf DEF SentBy
<1>2. \A i \in SentBy(q, r) : i \in 1..Len(q)
    BY TailOf DEF SentBy
<1>3. ASSUME NEW i \in SentBy(q, r), i # 1 PROVE i - 1 \in SentBy(Tail(q), r)
  <2>1. i - 1 \in 1..(Len(q) - 1) /\ (i - 1) + 1 = i
      BY <1>2, <1>3, TailOf
  <2> QED BY <2>1, TailOf DEF SentBy
<1>4. (\A i \in 2..Len(q) : q[i].who # r) => SentBy(Tail(q), r) = {}
    BY <1>1 DEF SentBy
<1>5. ASSUME NEW op, LastIs(q, r, op) PROVE LastIs(Tail(q), r, op)
  <2> SUFFICES ASSUME NEW i \in SentBy(Tail(q), r), \A j \in SentBy(Tail(q), r) : j <= i
               PROVE  Tail(q)[i].op = op
      BY DEF LastIs
  <2>1. ASSUME NEW j \in SentBy(q, r) PROVE j <= i + 1
    <3>1. CASE j = 1
        BY <1>1, <3>1
    <3>2. CASE j # 1
        BY <1>1, <1>2, <1>3, <3>2
    <3> QED BY <3>1, <3>2
  <2>2. q[i + 1].op = op
      BY <1>1, <1>5, <2>1 DEF LastIs
  <2> QED BY <2>2, TailOf DEF SentBy
<1>6. ASSUME NEW op, Has(Tail(q), op) PROVE Has(q, op)
    BY <1>6, TailOf DEF Has
<1>7. ASSUME \A i, j \in SentBy(q, r) : i = j, NEW i \in SentBy(Tail(q), r),
             NEW j \in SentBy(Tail(q), r)
      PROVE  i = j
    BY <1>1, <1>7
<1> QED BY <1>1, <1>4, <1>5, <1>6, <1>7

LEMMA AppendSent ==
    ASSUME NEW S, NEW q \in Seq(S), NEW x \in S, NEW r
    PROVE  /\ x.who # r => SentBy(Append(q, x), r) = SentBy(q, r)
           /\ x.who # r => \A op : LastIs(q, r, op) => LastIs(Append(q, x), r, op)
           /\ x.who = r => LastIs(Append(q, x), r, x.op)
           /\ \A op : Has(Append(q, x), op) <=> Has(q, op) \/ x.op = op
<1>1. x.who # r => SentBy(Append(q, x), r) = SentBy(q, r)
    BY AppendOf DEF SentBy
<1>2. ASSUME x.who # r, NEW op, LastIs(q, r, op) PROVE LastIs(Append(q, x), r, op)
    BY <1>1, <1>2, AppendOf DEF LastIs, SentBy
<1>3. x.who = r => LastIs(Append(q, x), r, x.op)
  <2> SUFFICES ASSUME x.who = r, NEW i \in SentBy(Append(q, x), r),
                      \A j \in SentBy(Append(q, x), r) : j <= i
               PROVE  Append(q, x)[i].op = x.op
      BY DEF LastIs
  <2>1. Len(q) + 1 \in SentBy(Append(q, x), r)
      BY AppendOf DEF SentBy
  <2>2. i = Len(q) + 1
      BY <2>1, AppendOf DEF SentBy
  <2> QED BY <2>2, AppendOf
<1>4. ASSUME NEW op PROVE Has(Append(q, x), op) <=> Has(q, op) \/ x.op = op
  <2>1. Has(q, op) => Has(Append(q, x), op)
      BY AppendOf DEF Has
  <2>2. x.op = op => Has(Append(q, x), op)
      BY AppendOf DEF Has
  <2>3. Has(Append(q, x), op) => Has(q, op) \/ x.op = op
      BY AppendOf DEF Has
  <2> QED BY <2>1, <2>2, <2>3
<1> QED BY <1>1, <1>2, <1>3, <1>4

LEMMA AppendSole ==
    ASSUME NEW S, NEW q \in Seq(S), NEW x \in S, NEW r, SentBy(q, r) = {}
    PROVE  \A i, j \in SentBy(Append(q, x), r) : i = j
<1>1. SentBy(Append(q, x), r) \subseteq SentBy(q, r) \cup {Len(q) + 1}
    BY AppendOf DEF SentBy
<1> QED BY <1>1

(* An empty queue has nothing of anybody.                                  *)
LEMMA EmptySent ==
    /\ \A r : SentBy(<<>>, r) = {} /\ \A op : LastIs(<<>>, r, op)
    /\ \A op : ~Has(<<>>, op)
BY DEF SentBy, LastIs, Has

-----------------------------------------------------------------------------
(* Who is who in the queue.                                                *)
LEMMA RequestOf ==
    ASSUME NEW x \in Requests
    PROVE  /\ x.op \in {"publish", "unpublish", "expand", "create", "grow", "delete"}
           /\ x.who \in Requesters
           /\ x.op \in {"publish", "unpublish"} <=> x.who \in Nodes
           /\ x.op = "expand" <=> x.who = Resizer
           /\ x.op \in {"create", "grow", "delete"} <=> x.who = Volume
BY AttachAssumption DEF Requests, Requesters, Volume, Resizer

LEMMA Requesting ==
    /\ Volume # Resizer /\ Volume \in Requesters /\ Resizer \in Requesters
    /\ \A n \in Nodes : n \in Requesters /\ n # Volume /\ n # Resizer
BY AttachAssumption DEF Requesters, Volume, Resizer

(* Only the creation of a clone waits for its expansion.                   *)
LEMMA GrowingIs ==
    ASSUME TypeOK, NEW r, Growing(r)
    PROVE  r = Volume /\ Has(requests, "grow")
BY RequestOf DEF Growing, SentBy, Has, TypeOK

LEMMA GrowingWhen ==
    ASSUME TypeOK, Has(requests, "grow"), \A i, j \in SentBy(requests, Volume) : i = j
    PROVE  Growing(Volume) /\ ~Has(requests, "create")
<1>1. PICK i \in DOMAIN requests : requests[i].op = "grow"
    BY DEF Has
<1>2. ASSUME NEW k \in DOMAIN requests PROVE requests[k] \in Requests
    BY <1>2 DEF TypeOK
<1>3. i \in SentBy(requests, Volume) /\ i \in Nat
    BY <1>1, <1>2, RequestOf DEF SentBy, TypeOK
<1>4. Growing(Volume)
  <2>1. ASSUME NEW j \in SentBy(requests, Volume) PROVE j <= i
      BY <1>3, <2>1
  <2> QED BY <1>1, <1>3, <2>1 DEF Growing
<1>5. ASSUME NEW j \in DOMAIN requests, requests[j].op = "create" PROVE FALSE
  <2>1. j \in SentBy(requests, Volume)
      BY <1>2, <1>5, RequestOf DEF SentBy
  <2> QED BY <1>1, <1>3, <1>5, <2>1
<1> QED BY <1>4, <1>5 DEF Has

(* What serving a request, whatever its outcome, means for a node that     *)
(* does not lose its reference.                                            *)
LEMMA ServedNode ==
    ASSUME IInv, NEW op, NEW result \in {"ok", "error"}, Served(op, result), NEW n \in Nodes,
           exists => exists' \/ refs = {}, n \in refs /\ Who # n => n \in refs',
           Who = n /\ op = "publish" /\ result = "ok" => n \in refs' /\ exists'
    PROVE  NodeFits(n)'
<1> DEFINE up == IF going[n] = "up" THEN "publish" ELSE "unpublish"
<1>1. /\ requests \in Seq(Requests) /\ requests # <<>> /\ requests' = Tail(requests)
      /\ Head(requests) = requests[1] /\ requests[1] \in Requests /\ 1 \in DOMAIN requests
      /\ DOMAIN requests = 1..Len(requests) /\ Len(requests) \in Nat
    BY TailOf DEF Served, IInv, TypeOK
<1>2. UNCHANGED <<staging, target, calls, reply, overtaken, done, reach, going>>
    BY DEF Served, node, cluster
<1>3. NodeFits(n) /\ DOMAIN answer = Requesters /\ n \in Requesters
    BY Requesting DEF IInv, TypeOK
<1>4. n \notin overtaken' => MountsFit(n)' /\ CallsFit(n)'
    BY <1>2, <1>3 DEF NodeFits, MountsFit, CallsFit, LastCall
<1>5. answer'[n] = answer[n] \/ (Heard /\ Who = n /\ answer'[n] = result)
    BY <1>3 DEF Served
<1>6. StagesFit(n)'
    BY <1>2, <1>3, <1>5 DEF NodeFits, StagesFit, Heard
<1>7. SentBy(requests, n) = {} => SentBy(requests', n) = {} /\ Who # n
  <2>1. SentBy(requests, n) = {} => SentBy(requests', n) = {}
      BY <1>1, TailSent
  <2>2. Who = n => 1 \in SentBy(requests, n)
      BY <1>1 DEF SentBy, Who
  <2> QED BY <2>1, <2>2
<1>8. AttachFits(n)'
  <2>1. ASSUME done[n] >= 1 \/ (answer[n] = "ok" /\ going[n] = "up")
        PROVE  n \in refs' /\ exists' /\ SentBy(requests', n) = {}
      BY <1>3, <1>7, <2>1 DEF NodeFits, AttachFits
  <2>2. ASSUME answer'[n] = "ok", answer[n] # "ok", going[n] = "up"
        PROVE  n \in refs' /\ exists' /\ SentBy(requests', n) = {}
    <3>1. Heard /\ Who = n /\ result = "ok"
        BY <1>5, <2>2
    <3>2. \A i \in 2..Len(requests) : requests[i].who # n
        BY <3>1 DEF Heard
    <3>3. SentBy(requests', n) = {}
        BY <1>1, <3>2, TailSent
    <3>4. 1 \in SentBy(requests, n)
        BY <1>1, <3>1 DEF SentBy, Who
    <3>5. \A j \in SentBy(requests, n) : j <= 1
        BY <1>1, <3>2 DEF SentBy
    <3>6. requests[1].op = "publish"
        BY <1>3, <2>2, <3>1, <3>4, <3>5 DEF NodeFits, AttachFits, LastIs, Heard
    <3>7. op = "publish"
        BY <1>1, <3>6 DEF Served
    <3> QED BY <3>1, <3>3, <3>7
  <2>3. ASSUME answer'[n] = "awaited" PROVE LastIs(requests', n, up)
    <3>1. answer[n] = "awaited"
        BY <1>5, <2>3
    <3>2. LastIs(requests, n, up)
        BY <1>3, <3>1 DEF NodeFits, AttachFits
    <3> QED BY <1>1, <3>2, TailSent
  <2> QED BY <1>2, <2>1, <2>2, <2>3 DEF AttachFits
<1> QED BY <1>4, <1>6, <1>8 DEF NodeFits

(* Serving a request keeps the types of the queue and the answers.         *)
LEMMA ServedType ==
    ASSUME TypeOK, NEW op, NEW result \in {"ok", "error"}, Served(op, result),
           refs' \subseteq Nodes, kernel' \subseteq Nodes, faults' \in 0..MaxFaults,
           exists' \in BOOLEAN, short' \in BOOLEAN, warned' \in BOOLEAN
    PROVE  TypeOK'
<1>1. requests' \in Seq(Requests)
    BY TailOf DEF Served, TypeOK
<1>2. answer' \in [Requesters -> {"none", "awaited", "ok", "error"}]
    BY DEF Served, TypeOK
<1>3. UNCHANGED <<staging, target, calls, reply, overtaken, clone, resize, claim, wanted,
                  done, reach, going, moves>>
    BY DEF Served, node, cluster
<1> QED BY <1>1, <1>2, <1>3 DEF TypeOK, NodeTypeOK

LEMMA FaultType ==
    ASSUME TypeOK, Fault \/ Fine \/ UNCHANGED faults
    PROVE  faults' \in 0..MaxFaults
BY FaultsAssumption DEF TypeOK, NodeTypeOK, Fault, Fine

(* What it means for what is known of the size.                            *)
LEMMA ServedSize ==
    ASSUME IInv, NEW op, NEW result \in {"ok", "error"}, Served(op, result),
           short' => short \/ Has(requests, "create"), short' /\ warned => warned',
           Heard /\ Who = Volume /\ result = "ok" => (short' => warned'),
           Who = Resizer /\ result = "ok" => ~short'
    PROVE  SizeFits'
<1>1. /\ requests \in Seq(Requests) /\ requests # <<>> /\ requests' = Tail(requests)
      /\ requests' \in Seq(Requests) /\ Len(requests) \in Nat
    BY TailOf DEF Served, IInv, TypeOK
<1>2. UNCHANGED <<resize, claim>> /\ SizeFits
    BY DEF Served, cluster, IInv
<1>3. ASSUME NEW o, Has(requests', o) PROVE Has(requests, o)
    BY <1>1, <1>3, TailSent
<1>4. \A r \in Requesters : answer'[r] = answer[r] \/ (Heard /\ Who = r /\ answer'[r] = result)
    BY DEF Served, IInv, TypeOK
<1>5. ASSUME Heard, Who = Volume PROVE ~Has(requests', "create") /\ ~Has(requests', "grow")
  <2>1. SentBy(requests', Volume) = {}
      BY <1>1, <1>5, TailSent DEF Heard
  <2> QED BY <1>1, <2>1, RequestOf DEF SentBy, Has
<1>6. claim = "new" /\ Has(requests', "grow") => \A i, j \in SentBy(requests', Volume) : i = j
    BY <1>1, <1>2, <1>3, TailSent DEF SizeFits
<1>7. /\ answer'[Volume] = answer[Volume] \/ (Heard /\ Who = Volume /\ answer'[Volume] = result)
      /\ answer'[Resizer] = answer[Resizer]
           \/ (Heard /\ Who = Resizer /\ answer'[Resizer] = result)
    BY <1>4, Requesting
<1>8. claim = "bound" => answer'[Volume] = "none"
    BY <1>2, <1>7 DEF SizeFits, Heard
<1>9. claim # "new" \/ answer'[Volume] = "ok" => ~Has(requests', "create")
    BY <1>2, <1>3, <1>5, <1>7 DEF SizeFits
<1>10. claim = "new" /\ Has(requests', "grow") => answer'[Volume] \in {"awaited", "ok"}
    BY <1>2, <1>3, <1>5, <1>7 DEF SizeFits
<1>11. claim = "new" /\ answer'[Volume] = "ok" /\ short' => warned'
    BY <1>2, <1>7 DEF SizeFits
<1>12. answer'[Resizer] # "none" => claim = "bound" /\ resize = "needed"
    BY <1>2, <1>7 DEF SizeFits, Heard
<1>13. answer'[Resizer] = "ok" => ~short'
    BY <1>2, <1>7, <1>12 DEF SizeFits
<1>14. CapacityTold'
    BY <1>2 DEF SizeFits, CapacityTold
<1> QED BY <1>2, <1>6, <1>8, <1>9, <1>10, <1>11, <1>12, <1>13, <1>14 DEF SizeFits

LEMMA CreateStep == IInv /\ CreateVolume => IInv'
<1> SUFFICES ASSUME IInv, CreateVolume PROVE IInv'
    OBVIOUS
<1>1. /\ requests \in Seq(Requests) /\ requests # <<>> /\ Head(requests).op = "create"
      /\ Head(requests) = requests[1] /\ requests[1] \in Requests /\ 1 \in DOMAIN requests
      /\ Tail(requests) \in Seq(Requests)
    BY TailOf DEF CreateVolume, IInv, TypeOK
<1>2. Has(requests, "create") /\ Who = Volume
    BY <1>1, RequestOf DEF Has, Who
<1>3. claim = "new" /\ answer[Volume] # "ok"
    BY <1>2 DEF IInv, SizeFits, TypeOK
<1>4. /\ UNCHANGED <<refs, kernel, warned>> /\ exists' = TRUE /\ short' \in BOOLEAN
      /\ faults' \in 0..MaxFaults
    BY FaultType DEF CreateVolume, IInv, TypeOK
<1>5. CASE short' /\ Heard
  <2> DEFINE x == [op |-> "grow", who |-> Volume]
  <2>1. /\ requests' = Append(Tail(requests), x) /\ UNCHANGED <<node, cluster, answer>>
        /\ x \in Requests
      BY <1>5 DEF CreateVolume, Requests
  <2> HIDE DEF x
  <2>2. requests' \in Seq(Requests)
      BY <1>1, <2>1, AppendOf
  <2>3. TypeOK'
      BY <1>4, <2>1, <2>2 DEF TypeOK, NodeTypeOK, IInv, node, cluster
  <2>4. SentBy(Tail(requests), Volume) = {}
      BY <1>1, <1>2, <1>5, TailSent DEF Heard
  <2>5. answer[Volume] = "awaited" /\ \A i, j \in SentBy(requests', Volume) : i = j
    <3>1. answer[Volume] = "awaited"
        BY <1>2, <1>5 DEF Heard
    <3>2. \A i, j \in SentBy(requests', Volume) : i = j
        BY <1>1, <2>1, <2>4, AppendSole
    <3> QED BY <3>1, <3>2
  <2>6. SizeFits'
    <3>1. claim' = "new" /\ UNCHANGED <<answer, resize>>
        BY <1>3, <2>1 DEF cluster
    <3>2. answer[Resizer] = "none"
        BY <1>3 DEF IInv, SizeFits
    <3> QED BY <2>5, <3>1, <3>2 DEF SizeFits, CapacityTold
  <2>7. ASSUME NEW n \in Nodes PROVE NodeFits(n)'
    <3>1. x.who # n
        BY <2>7, Requesting DEF x
    <3>2. SentBy(requests, n) = {} => SentBy(requests', n) = {}
      <4>1. SentBy(requests, n) = {} => SentBy(Tail(requests), n) = {}
          BY <1>1, TailSent
      <4>2. SentBy(requests', n) = SentBy(Tail(requests), n)
          BY <1>1, <2>1, <3>1, AppendSent
      <4> QED BY <4>1, <4>2
    <3>3. \A op : LastIs(requests, n, op) => LastIs(requests', n, op)
        BY <1>1, <2>1, <3>1, TailSent, AppendSent
    <3>4. UNCHANGED <<staging, target, calls, reply, overtaken, answer, done, reach, going, refs>>
        BY <1>4, <2>1 DEF node, cluster
    <3>5. NodeFits(n)
        BY DEF IInv
    <3> QED BY <1>4, <3>2, <3>3, <3>4, <3>5
            DEF NodeFits, StagesFit, AttachFits, MountsFit, CallsFit, LastCall
  <2> QED BY <2>3, <2>6, <2>7 DEF IInv
<1>6. CASE ~(short' /\ Heard)
  <2>1. Served("create", "ok")
      BY <1>6 DEF CreateVolume
  <2>2. TypeOK'
      BY <1>4, <2>1, ServedType DEF IInv, TypeOK, NodeTypeOK
  <2>3. SizeFits'
      BY <1>2, <1>4, <1>6, <2>1, ServedSize, Requesting
  <2>4. ASSUME NEW n \in Nodes PROVE NodeFits(n)'
      BY <1>2, <1>4, <2>1, <2>4, ServedNode, Requesting
  <2> QED BY <2>2, <2>3, <2>4 DEF IInv
<1> QED BY <1>5, <1>6

(* All other requests.                                                     *)
LEMMA ServeSteps == IInv /\ AgentStep => IInv'
<1> SUFFICES ASSUME IInv, AgentStep PROVE IInv'
    OBVIOUS
<1>0. ASSUME NEW op, NEW result, Served(op, result)
      PROVE  /\ Who \in Requesters /\ Head(requests).op = op
             /\ op \in {"publish", "unpublish"} <=> Who \in Nodes
             /\ op = "expand" <=> Who = Resizer
             /\ op \in {"create", "grow", "delete"} <=> Who = Volume
  <2>1. Head(requests) \in Requests
      BY <1>0, TailOf DEF Served, IInv, TypeOK
  <2> QED BY <1>0, <2>1, RequestOf DEF Served, Who
<1>1. ASSUME NEW op, NEW result \in {"ok", "error"}, Served(op, result),
             refs' \subseteq Nodes, kernel' \subseteq Nodes, Fault \/ Fine,
             exists' \in BOOLEAN, short' \in BOOLEAN, warned' \in BOOLEAN,
             exists => exists' \/ refs = {}, refs \ {Who} \subseteq refs',
             op = "publish" /\ result = "ok" => Who \in refs' /\ exists',
             short' => short, short' /\ warned => warned',
             Who = Volume /\ result = "ok" => (short' => warned'),
             Who = Resizer /\ result = "ok" => ~short'
      PROVE  IInv'
  <2>1. TypeOK'
      BY <1>1, ServedType, FaultType DEF IInv
  <2>2. SizeFits'
      BY <1>1, ServedSize
  <2>3. ASSUME NEW n \in Nodes PROVE NodeFits(n)'
    <3>1. n \in refs /\ Who # n => n \in refs'
        BY <1>1
    <3> QED BY <1>1, <3>1, ServedNode
  <2> QED BY <2>1, <2>2, <2>3 DEF IInv
<1>2. /\ refs \subseteq Nodes /\ kernel \subseteq Nodes
      /\ exists \in BOOLEAN /\ short \in BOOLEAN /\ warned \in BOOLEAN
    BY DEF IInv, TypeOK, NodeTypeOK
<1>3. CASE GrowClone
    BY <1>0, <1>1, <1>2, <1>3, Requesting DEF GrowClone
<1>4. CASE ControllerExpandVolume
  <2>1. PICK result \in {"ok", "error"} :
            Served("expand", result) /\ (result = "ok" => exists)
      BY <1>4 DEF ControllerExpandVolume
  <2> QED BY <1>0, <1>1, <1>2, <1>4, <2>1, Requesting DEF ControllerExpandVolume
<1>5. CASE DeleteVolume
  <2>1. PICK result \in {"ok", "error"} :
            Served("delete", result) /\ (result = "ok" => ~exists')
      BY <1>5 DEF DeleteVolume
  <2> QED BY <1>0, <1>1, <1>2, <1>5, <2>1, Requesting DEF DeleteVolume
<1>6. CASE ControllerPublishVolume
  <2>1. PICK result \in {"ok", "error"} :
            Served("publish", result) /\ (result = "ok" => exists /\ Who \in refs')
      BY <1>6 DEF ControllerPublishVolume
  <2>2. Who \in Nodes
      BY <1>0, <2>1
  <2>3. /\ refs \subseteq refs' /\ refs' \subseteq Nodes /\ kernel' \subseteq Nodes
        /\ UNCHANGED <<exists, short, warned>> /\ (Fault \/ Fine)
      BY <1>2, <1>6, <2>2 DEF ControllerPublishVolume
  <2> QED BY <1>1, <1>2, <2>1, <2>2, <2>3, Requesting
<1>7. CASE ControllerUnpublishVolume
  <2>1. PICK result \in {"ok", "error"} : Served("unpublish", result)
      BY <1>7 DEF ControllerUnpublishVolume
  <2>2. Who \in Nodes
      BY <1>0, <2>1
  <2>3. /\ refs' = refs \ {Who} /\ kernel' \subseteq Nodes
        /\ UNCHANGED <<exists, short, warned>> /\ (Fault \/ Fine)
      BY <1>2, <1>7, <2>2 DEF ControllerUnpublishVolume
  <2> QED BY <1>1, <1>2, <2>1, <2>2, <2>3, Requesting
<1>8. CASE RequestFails
  <2>1. /\ Served(Head(requests).op, Failed(Who)) /\ Failed(Who) \in {"ok", "error"}
        /\ Failed(Who) = "ok" => Growing(Who)
      BY <1>8 DEF RequestFails, Failed
  <2>2. Growing(Who) => Who = Volume
      BY GrowingIs DEF IInv
  <2>3. /\ UNCHANGED <<refs, kernel, exists, short>> /\ Fault
        /\ warned' = (warned \/ Growing(Who)) /\ warned' \in BOOLEAN
      BY <1>2, <1>8 DEF RequestFails
  <2>4. Head(requests).op = "publish" => Who \in Nodes
      BY <1>0, <2>1
  <2> QED BY <1>1, <1>2, <2>1, <2>2, <2>3, <2>4, Requesting
<1> QED BY <1>3, <1>4, <1>5, <1>6, <1>7, <1>8, CreateStep DEF AgentStep

-----------------------------------------------------------------------------
(* A step of others leaves a node as it was, if it keeps the node's own    *)
(* state and what the node has in the queue.                               *)
LEMMA NodeKept ==
    ASSUME NEW n \in Nodes, NodeFits(n),
           staging'[n] = staging[n], target'[n] = target[n], calls'[n] = calls[n],
           reply'[n] = reply[n], n \in overtaken' <=> n \in overtaken,
           answer'[n] = answer[n], done'[n] = done[n],
           reach'[n] = reach[n], going'[n] = going[n],
           n \in refs => n \in refs', exists => exists',
           SentBy(requests, n) = {} => SentBy(requests', n) = {},
           \A op : LastIs(requests, n, op) => LastIs(requests', n, op)
    PROVE  NodeFits(n)'
BY DEF NodeFits, StagesFit, AttachFits, MountsFit, CallsFit, LastCall

LEMMA CrashStep == IInv /\ AgentCrash => IInv'
<1> SUFFICES ASSUME IInv, AgentCrash PROVE IInv'
    OBVIOUS
<1>1. /\ requests' = <<>> /\ UNCHANGED <<node, kernel, exists, short, refs, cluster>>
      /\ \A r \in Requesters :
             answer'[r] = IF answer[r] = "awaited" THEN Failed(r) ELSE answer[r]
      /\ answer' \in [Requesters -> {"none", "awaited", "ok", "error"}]
      /\ warned' = (warned \/ (answer[Volume] = "awaited" /\ Growing(Volume)))
      /\ warned' \in BOOLEAN
    BY DEF AgentCrash, IInv, TypeOK, Failed
<1>2. /\ \A r : SentBy(requests', r) = {} /\ \A op : LastIs(requests', r, op)
      /\ \A op : ~Has(requests', op)
    BY <1>1, EmptySent
<1>3. faults' \in 0..MaxFaults /\ requests' \in Seq(Requests)
    BY <1>1, FaultType DEF AgentCrash, IInv
<1>4. TypeOK'
    BY <1>1, <1>3 DEF IInv, TypeOK, NodeTypeOK, node, cluster
<1>5. ASSUME NEW r \in Requesters
      PROVE  /\ answer'[r] = "none" <=> answer[r] = "none"
             /\ r # Volume => (answer'[r] = "ok" <=> answer[r] = "ok")
  <2>1. r # Volume => ~Growing(r)
      BY GrowingIs DEF IInv
  <2> QED BY <1>1, <2>1 DEF Failed
<1>6. ASSUME NEW n \in Nodes PROVE NodeFits(n)'
  <2>1. UNCHANGED <<staging, target, calls, reply, overtaken, done, reach, going, refs, exists>>
      BY <1>1 DEF node, cluster
  <2>2. /\ answer'[n] = "none" <=> answer[n] = "none"
        /\ answer'[n] = "ok" <=> answer[n] = "ok"
      BY <1>5, Requesting
  <2>3. NodeFits(n)
      BY DEF IInv
  <2> QED BY <1>2, <2>1, <2>2, <2>3
          DEF NodeFits, StagesFit, AttachFits, MountsFit, CallsFit, LastCall
<1>7. SizeFits'
  <2>1. UNCHANGED <<short, claim, resize>> /\ SizeFits
      BY <1>1 DEF cluster, IInv
  <2>2. answer'[Resizer] = "ok" <=> answer[Resizer] = "ok"
      BY <1>5, Requesting
  <2>3. /\ answer'[Volume] = "none" <=> answer[Volume] = "none"
        /\ answer'[Resizer] = "none" <=> answer[Resizer] = "none"
      BY <1>5, Requesting
  <2>4. answer'[Volume] = "ok" => answer[Volume] = "ok" \/ warned'
      BY <1>1, Requesting DEF Failed
  <2>5. warned => warned'
      BY <1>1
  <2> QED BY <1>2, <2>1, <2>2, <2>3, <2>4, <2>5 DEF SizeFits, CapacityTold
<1> QED BY <1>4, <1>6, <1>7 DEF IInv

LEMMA TimeoutStep == ASSUME IInv, NEW r \in Requesters, RequestTimeout(r) PROVE IInv'
<1>1. /\ UNCHANGED <<node, kernel, exists, short, refs, requests, cluster>>
      /\ answer[r] = "awaited" /\ answer'[r] = Failed(r)
      /\ \A o \in Requesters : o # r => answer'[o] = answer[o]
      /\ answer' \in [Requesters -> {"none", "awaited", "ok", "error"}]
      /\ warned' = (warned \/ Growing(r)) /\ warned' \in BOOLEAN
    BY DEF RequestTimeout, IInv, TypeOK, Failed
<1>2. faults' \in 0..MaxFaults
    BY FaultType DEF RequestTimeout, IInv
<1>3. TypeOK'
    BY <1>1, <1>2 DEF IInv, TypeOK, NodeTypeOK, node, cluster
<1>4. /\ Failed(r) \in {"ok", "error"} /\ (Failed(r) = "ok" <=> Growing(r))
      /\ Growing(r) => r = Volume
    BY GrowingIs DEF Failed, IInv
<1>5. ASSUME NEW n \in Nodes PROVE NodeFits(n)'
  <2>1. UNCHANGED <<staging, target, calls, reply, overtaken, done, reach, going, refs, exists,
                    requests>>
      BY <1>1 DEF node, cluster
  <2>2. answer'[n] = answer[n] \/ (answer[n] = "awaited" /\ answer'[n] = "error")
      BY <1>1, <1>4, Requesting
  <2>3. NodeFits(n)
      BY DEF IInv
  <2> QED BY <2>1, <2>2, <2>3
          DEF NodeFits, StagesFit, AttachFits, MountsFit, CallsFit, LastCall
<1>6. SizeFits'
  <2>1. UNCHANGED <<short, claim, resize, requests>> /\ SizeFits
      BY <1>1 DEF cluster, IInv
  <2>2. \/ answer'[Resizer] = answer[Resizer]
        \/ answer[Resizer] = "awaited" /\ answer'[Resizer] = "error"
      BY <1>1, <1>4, Requesting
  <2>3. \/ answer'[Volume] = answer[Volume]
        \/ answer[Volume] = "awaited" /\ answer'[Volume] = "ok" /\ Growing(Volume) /\ warned'
        \/ answer[Volume] = "awaited" /\ answer'[Volume] = "error" /\ ~Growing(Volume)
      BY <1>1, <1>4, Requesting
  <2>4. warned => warned'
      BY <1>1
  <2>5. claim = "new" /\ Has(requests, "grow") => Growing(Volume) /\ ~Has(requests, "create")
      BY <2>1, GrowingWhen DEF SizeFits, IInv
  <2>6. Growing(Volume) => Has(requests, "grow")
      BY GrowingIs DEF IInv
  <2> QED BY <2>1, <2>2, <2>3, <2>4, <2>5, <2>6 DEF SizeFits, CapacityTold
<1> QED BY <1>3, <1>5, <1>6 DEF IInv

(* The steps of Kubernetes that are about the volume, not about a node.    *)
LEMMA ClaimSteps ==
    ASSUME IInv, \/ Reconcile \/ TableLost \/ Provision \/ Reclaim \/ VolumeAnswered
                 \/ ClaimDeleted \/ UserExpands \/ Resize \/ Resized
                 \/ \E n \in Nodes : PodMoves(n)
    PROVE  IInv'
<1>1. UNCHANGED <<staging, target, calls, reply, overtaken, refs, exists, done, reach, going>>
    BY DEF Reconcile, TableLost, Provision, Reclaim, VolumeAnswered, ClaimDeleted, UserExpands,
           Resize, Resized, PodMoves, Request, node, agent, cluster
<1>2. faults' \in 0..MaxFaults
  <2>1. Fault \/ UNCHANGED faults
      BY DEF Reconcile, TableLost, Provision, Reclaim, VolumeAnswered, ClaimDeleted, UserExpands,
             Resize, Resized, PodMoves
  <2> QED BY <2>1, FaultType DEF IInv
<1>3. TypeOK /\ SizeFits /\ \A n \in Nodes : NodeFits(n)
    BY DEF IInv
<1>4. ASSUME NEW op, NEW r \in {Volume, Resizer}, Request(op, r),
             [op |-> op, who |-> r] \in Requests
      PROVE  /\ requests' \in Seq(Requests)
             /\ answer' \in [Requesters -> {"none", "awaited", "ok", "error"}]
             /\ answer'[r] = "awaited" /\ \A o \in Requesters : o # r => answer'[o] = answer[o]
             /\ \A o : Has(requests', o) <=> Has(requests, o) \/ o = op
             /\ r # Volume => SentBy(requests', Volume) = SentBy(requests, Volume)
             /\ \A n \in Nodes : NodeFits(n)'
  <2> DEFINE x == [op |-> op, who |-> r]
  <2>1. requests \in Seq(Requests) /\ requests' = Append(requests, x) /\ x \in Requests
      BY <1>3, <1>4 DEF Request, TypeOK
  <2>2. /\ answer' = [answer EXCEPT ![r] = "awaited"] /\ r \in Requesters
        /\ answer \in [Requesters -> {"none", "awaited", "ok", "error"}]
      BY <1>3, <1>4, Requesting DEF Request, TypeOK
  <2>3. x.op = op /\ x.who = r
      OBVIOUS
  <2> HIDE DEF x
  <2>4. requests' \in Seq(Requests) /\ \A o : Has(requests', o) <=> Has(requests, o) \/ o = op
      BY <2>1, <2>3, AppendOf, AppendSent
  <2>5. r # Volume => SentBy(requests', Volume) = SentBy(requests, Volume)
      BY <2>1, <2>3, AppendSent
  <2>6. ASSUME NEW n \in Nodes PROVE NodeFits(n)'
    <3>1. n # r /\ n \in Requesters
        BY <1>4, Requesting
    <3>2. /\ SentBy(requests', n) = SentBy(requests, n)
          /\ \A o : LastIs(requests, n, o) => LastIs(requests', n, o)
        BY <2>1, <2>3, <3>1, AppendSent
    <3>3. answer'[n] = answer[n]
        BY <2>2, <3>1
    <3> QED BY <1>1, <1>3, <3>2, <3>3, NodeKept
  <2>7. /\ answer' \in [Requesters -> {"none", "awaited", "ok", "error"}]
        /\ answer'[r] = "awaited" /\ \A o \in Requesters : o # r => answer'[o] = answer[o]
      BY <2>2
  <2> QED BY <2>4, <2>5, <2>6, <2>7
<1>5. ASSUME UNCHANGED requests, \A n \in Nodes : answer'[n] = answer[n], NEW n \in Nodes
      PROVE  NodeFits(n)'
    BY <1>1, <1>3, <1>5, NodeKept
<1>6. CASE Reconcile \/ TableLost
  <2>1. UNCHANGED <<agent, cluster>> /\ kernel' \subseteq Nodes
      BY <1>3, <1>6 DEF Reconcile, TableLost, TypeOK, NodeTypeOK
  <2>2. TypeOK'
      BY <1>1, <1>2, <1>3, <2>1 DEF TypeOK, NodeTypeOK, agent, cluster
  <2>3. SizeFits'
      BY <1>3, <2>1 DEF SizeFits, CapacityTold, agent, cluster
  <2> QED BY <1>5, <2>1, <2>2, <2>3 DEF IInv, agent
<1>7. CASE Provision
  <2>1. /\ claim = "new" /\ answer[Volume] = "none" /\ Request("create", Volume)
        /\ UNCHANGED <<kernel, faults, cluster, short, warned>>
      BY <1>7 DEF Provision, Request
  <2>2. [op |-> "create", who |-> Volume] \in Requests
      BY DEF Requests
  <2>3. TypeOK'
      BY <1>1, <1>2, <1>3, <1>4, <2>1, <2>2 DEF TypeOK, NodeTypeOK, cluster
  <2>4. /\ answer'[Volume] = "awaited" /\ answer'[Resizer] = answer[Resizer]
        /\ \A o : Has(requests', o) <=> Has(requests, o) \/ o = "create"
      BY <1>4, <2>1, <2>2, Requesting
  <2>5. ~Has(requests', "grow")
      BY <1>3, <2>1, <2>4 DEF SizeFits
  <2>6. SizeFits'
      BY <1>3, <2>1, <2>4, <2>5 DEF SizeFits, CapacityTold, cluster
  <2> QED BY <1>4, <2>1, <2>2, <2>3, <2>6 DEF IInv
<1>8. CASE Reclaim
  <2>1. /\ claim = "released" /\ Request("delete", Volume)
        /\ UNCHANGED <<kernel, faults, cluster, short, warned>>
      BY <1>8 DEF Reclaim, Request
  <2>2. [op |-> "delete", who |-> Volume] \in Requests
      BY DEF Requests
  <2>3. TypeOK'
      BY <1>1, <1>2, <1>3, <1>4, <2>1, <2>2 DEF TypeOK, NodeTypeOK, cluster
  <2>4. /\ answer'[Resizer] = answer[Resizer]
        /\ \A o : Has(requests', o) <=> Has(requests, o) \/ o = "delete"
      BY <1>4, <2>1, <2>2, Requesting
  <2>5. SizeFits'
      BY <1>3, <2>1, <2>4 DEF SizeFits, CapacityTold, cluster
  <2> QED BY <1>4, <2>1, <2>2, <2>3, <2>5 DEF IInv
<1>9. CASE Resize
  <2>1. /\ claim = "bound" /\ resize = "needed" /\ Request("expand", Resizer)
        /\ UNCHANGED <<kernel, faults, cluster, short, warned>>
      BY <1>9 DEF Resize, Request
  <2>2. [op |-> "expand", who |-> Resizer] \in Requests
      BY DEF Requests
  <2>3. TypeOK'
      BY <1>1, <1>2, <1>3, <1>4, <2>1, <2>2 DEF TypeOK, NodeTypeOK, cluster
  <2>4. /\ answer'[Resizer] = "awaited" /\ answer'[Volume] = answer[Volume]
        /\ \A o : Has(requests', o) <=> Has(requests, o) \/ o = "expand"
      BY <1>4, <2>1, <2>2, Requesting
  <2>5. SizeFits'
      BY <1>3, <2>1, <2>4 DEF SizeFits, CapacityTold, cluster
  <2> QED BY <1>4, <2>1, <2>2, <2>3, <2>5 DEF IInv
<1>10. CASE VolumeAnswered
  <2>1. /\ answer[Volume] \in {"ok", "error"} /\ answer' = [answer EXCEPT ![Volume] = "none"]
        /\ claim' = IF answer[Volume] = "error" THEN claim
                    ELSE IF claim = "new" THEN "bound" ELSE "gone"
        /\ clone' = (clone /\ claim' = "new")
        /\ UNCHANGED <<kernel, short, requests, warned, resize, wanted, moves>>
      BY <1>10 DEF VolumeAnswered
  <2>2. /\ answer'[Volume] = "none" /\ answer'[Resizer] = answer[Resizer]
        /\ \A n \in Nodes : answer'[n] = answer[n]
        /\ answer' \in [Requesters -> {"none", "awaited", "ok", "error"}]
      BY <1>3, <2>1, Requesting DEF TypeOK
  <2>3. TypeOK'
      BY <1>1, <1>2, <1>3, <2>1, <2>2 DEF TypeOK, NodeTypeOK
  <2>4. SizeFits'
    <3>1. claim # "bound" /\ answer[Resizer] = "none"
        BY <1>3, <2>1 DEF SizeFits
    <3> QED BY <1>3, <2>1, <2>2, <3>1 DEF SizeFits, CapacityTold, TypeOK
  <2> QED BY <1>5, <2>1, <2>2, <2>3, <2>4 DEF IInv
<1>11. CASE ClaimDeleted
  <2>1. /\ claim = "bound" /\ answer[Resizer] = "none"
        /\ claim' = "released" /\ resize' = "done"
        /\ UNCHANGED <<kernel, agent, clone, wanted, moves>>
      BY <1>11 DEF ClaimDeleted
  <2>2. TypeOK'
      BY <1>1, <1>2, <1>3, <2>1 DEF TypeOK, NodeTypeOK, agent
  <2>3. SizeFits'
      BY <1>3, <2>1 DEF SizeFits, CapacityTold, agent
  <2> QED BY <1>5, <2>1, <2>2, <2>3 DEF IInv, agent
<1>12. CASE UserExpands
  <2>1. /\ claim = "bound" /\ resize = "done" /\ moves = 0
        /\ resize' = "needed" /\ short' = TRUE /\ moves' = moves + 1
        /\ UNCHANGED <<kernel, requests, answer, warned, clone, claim, wanted>>
      BY <1>12 DEF UserExpands
  <2>2. SizeFits'
      BY <1>3, <2>1 DEF SizeFits, CapacityTold
  <2>3. moves' \in 0..MaxMoves
      BY <2>1, AttachAssumption
  <2>4. TypeOK'
      BY <1>1, <1>2, <1>3, <2>1, <2>3 DEF TypeOK, NodeTypeOK
  <2> QED BY <1>5, <2>1, <2>2, <2>4 DEF IInv
<1>13. CASE Resized
  <2>1. /\ answer[Resizer] \in {"ok", "error"} /\ answer' = [answer EXCEPT ![Resizer] = "none"]
        /\ resize' = IF answer[Resizer] = "ok" THEN "done" ELSE resize
        /\ UNCHANGED <<kernel, short, requests, warned, clone, claim, wanted, moves>>
      BY <1>13 DEF Resized
  <2>2. /\ answer'[Resizer] = "none" /\ answer'[Volume] = answer[Volume]
        /\ \A n \in Nodes : answer'[n] = answer[n]
        /\ answer' \in [Requesters -> {"none", "awaited", "ok", "error"}]
      BY <1>3, <2>1, Requesting DEF TypeOK
  <2>3. TypeOK'
      BY <1>1, <1>2, <1>3, <2>1, <2>2 DEF TypeOK, NodeTypeOK
  <2>4. SizeFits'
      BY <1>3, <2>1, <2>2 DEF SizeFits, CapacityTold
  <2> QED BY <1>5, <2>1, <2>2, <2>3, <2>4 DEF IInv
<1>14. ASSUME NEW n \in Nodes, PodMoves(n) PROVE IInv'
  <2>1. /\ moves < MaxMoves /\ moves' = moves + 1 /\ wanted' \subseteq Nodes
        /\ UNCHANGED <<kernel, agent, clone, resize, claim>>
      BY <1>3, <1>14 DEF PodMoves, TypeOK
  <2>2. moves' \in 0..MaxMoves
      BY <1>3, <2>1, AttachAssumption DEF TypeOK
  <2>3. TypeOK'
      BY <1>1, <1>2, <1>3, <2>1, <2>2 DEF TypeOK, NodeTypeOK, agent
  <2>4. SizeFits'
      BY <1>3, <2>1 DEF SizeFits, CapacityTold, agent
  <2> QED BY <1>5, <2>1, <2>3, <2>4 DEF IInv, agent
<1> QED BY <1>6, <1>7, <1>8, <1>9, <1>10, <1>11, <1>12, <1>13, <1>14

-----------------------------------------------------------------------------
(* A step of a handler of node n.                                          *)
HandlerMoves(n) ==
    /\ calls[n] # <<>> /\ UNCHANGED <<overtaken, kernel, agent, cluster>> /\ (Fault \/ Fine)
    /\ staging' \in [Nodes -> Paths \cup {"nfs"}]
    /\ target' \in [Nodes -> Paths \cup {"rw", "ro"}]
    /\ \A m \in Nodes \ {n} : staging'[m] = staging[m] /\ target'[m] = target[m]
    /\ target'[n] = target[n] \/ Head(calls[n]).op \in {"publish", "unpublish"}

(* What it keeps.                                                          *)
LEMMA HandlerKeeps ==
    ASSUME IInv, NEW n \in Nodes, HandlerMoves(n),
           calls' \in [Nodes -> Seq([op : Ops, pc : Steps])],
           reply' \in [Nodes -> {"none", "awaited", "ok", "error"}],
           \A m \in Nodes \ {n} : calls'[m] = calls[m] /\ reply'[m] = reply[m],
           reply'[n] = "none" <=> reply[n] = "none",
           \A i \in DOMAIN calls'[n] : \E j \in DOMAIN calls[n] : calls'[n][i].op = calls[n][j].op,
           n \notin overtaken => CallsFit(n)'
    PROVE  IInv'
<1>1. UNCHANGED <<overtaken, exists, short, refs, requests, answer, warned,
                  clone, resize, claim, wanted, done, reach, going, moves>>
    BY DEF HandlerMoves, agent, cluster
<1>2. TypeOK /\ SizeFits /\ \A m \in Nodes : NodeFits(m)
    BY DEF IInv
<1>3. faults' \in 0..MaxFaults
    BY <1>2, FaultType DEF HandlerMoves
<1>4. TypeOK'
    BY <1>1, <1>2, <1>3 DEF TypeOK, NodeTypeOK, HandlerMoves
<1>5. SizeFits'
    BY <1>1, <1>2 DEF SizeFits, CapacityTold
<1>6. ASSUME NEW m \in Nodes, m # n PROVE NodeFits(m)'
    BY <1>1, <1>2, <1>6, NodeKept DEF HandlerMoves
<1>7. StagesFit(n)' /\ AttachFits(n)'
    BY <1>1, <1>2 DEF NodeFits, StagesFit, AttachFits
<1>8. ASSUME n \notin overtaken PROVE MountsFit(n)'
  <2>1. calls[n] \in Seq([op : Ops, pc : Steps]) /\ MountsFit(n) /\ StagesFit(n)
      BY <1>2, <1>8 DEF NodeFits, TypeOK, NodeTypeOK
  <2>2. calls[n] # <<>>
      BY DEF HandlerMoves
  <2>3. ~(reach[n] <= 1) /\ done[n] # 3
      BY <2>1, <2>2 DEF MountsFit
  <2>4. reach[n] = 2 => Head(calls[n]).op \in {"stage", "unstage"}
    <3>1. Head(calls[n]) = calls[n][1] /\ 1 \in DOMAIN calls[n]
        BY <2>1, <2>2, TailOf
    <3> QED BY <2>1, <3>1 DEF MountsFit
  <2>5. reach[n] = 2 => target'[n] \notin Mounted
      BY <2>1, <2>4 DEF MountsFit, HandlerMoves
  <2>6. reach[n] = 2 => \A i \in DOMAIN calls'[n] : calls'[n][i].op \in {"stage", "unstage"}
      BY <2>1 DEF MountsFit
  <2> QED BY <1>1, <2>3, <2>5, <2>6 DEF MountsFit
<1> QED BY <1>1, <1>4, <1>5, <1>6, <1>7, <1>8 DEF IInv, NodeFits

(* A handler that goes on.                                                 *)
LEMMA GotoFits ==
    ASSUME IInv, NEW n \in Nodes, HandlerMoves(n), NEW pc \in Steps \ Begin, Goto(n, pc),
           n \notin overtaken /\ pc \in {"remount", "undo"} => target'[n] \in Mounted
    PROVE  IInv'
<1> DEFINE C == [op : Ops, pc : Steps]
           c == calls[n]
           d == calls'[n]
<1>1. /\ c \in Seq(C) /\ c # <<>> /\ Len(c) \in Nat \ {0} /\ DOMAIN c = 1..Len(c)
      /\ c[1] \in C
    BY TailOf DEF IInv, TypeOK, NodeTypeOK, HandlerMoves
<1>2. /\ calls \in [Nodes -> Seq(C)] /\ calls' = [calls EXCEPT ![n][1].pc = pc]
      /\ UNCHANGED reply
    BY DEF Goto, IInv, TypeOK, NodeTypeOK
<1>3. d = [c EXCEPT ![1] = [c[1] EXCEPT !.pc = pc]]
    BY <1>2
<1>4. /\ d \in Seq(C) /\ Len(d) = Len(c) /\ DOMAIN d = DOMAIN c
      /\ d[1].op = c[1].op /\ d[1].pc = pc /\ \A i \in DOMAIN c : i > 1 => d[i] = c[i]
  <2>1. [c[1] EXCEPT !.pc = pc] \in C
      BY <1>1
  <2> QED BY <1>1, <1>3, <2>1
<1>5. /\ calls' \in [Nodes -> Seq(C)] /\ \A m \in Nodes \ {n} : calls'[m] = calls[m]
  <2>1. calls' = [calls EXCEPT ![n] = d]
      BY <1>2
  <2> HIDE DEF d
  <2> QED BY <1>2, <1>4, <2>1
<1>6. UNCHANGED <<done, reach, going>>
    BY DEF HandlerMoves, cluster
<1>7. n \notin overtaken => CallsFit(n)
    BY DEF IInv, NodeFits
<1>8. ASSUME n \notin overtaken PROVE CallsFit(n)'
  <2>1. LastCall(n)' = LastCall(n)
      BY <1>6 DEF LastCall
  <2>2. ASSUME NEW i \in DOMAIN d
        PROVE  /\ d[i].pc # "late" /\ (i > 1 => d[i].pc = "wait")
               /\ d[i].pc \in {"remount", "undo"} => target'[n] \in Mounted
      BY <1>1, <1>4, <1>7, <1>8, <2>2 DEF CallsFit, Begin
  <2>3. d[Len(d)].op = c[Len(c)].op
      BY <1>1, <1>4
  <2>4. reply[n] # "ok"
      BY <1>1, <1>7, <1>8 DEF CallsFit
  <2> QED BY <1>1, <1>2, <1>7, <1>8, <2>1, <2>2, <2>3, <2>4 DEF CallsFit
<1>9. \A i \in DOMAIN d : \E j \in DOMAIN c : d[i].op = c[j].op
    BY <1>1, <1>4
<1>10. reply' \in [Nodes -> {"none", "awaited", "ok", "error"}]
    BY <1>2 DEF IInv, TypeOK, NodeTypeOK
<1> QED BY <1>2, <1>5, <1>8, <1>9, <1>10, HandlerKeeps

(* A handler that returns: a success is what was asked for.                *)
LEMMA ReturnFits ==
    ASSUME IInv, NEW n \in Nodes, HandlerMoves(n), NEW result \in {"ok", "error"},
           Return(n, result),
           n \notin overtaken /\ result = "ok" =>
               Achieved(Head(calls[n]).op, staging'[n], target'[n])
    PROVE  IInv'
<1> DEFINE C == [op : Ops, pc : Steps]
           c == calls[n]
           d == calls'[n]
<1>1. /\ c \in Seq(C) /\ c # <<>> /\ Len(c) \in Nat \ {0} /\ DOMAIN c = 1..Len(c)
      /\ Head(c) = c[1]
  <2>1. c \in Seq(C) /\ c # <<>>
      BY DEF IInv, TypeOK, NodeTypeOK, HandlerMoves
  <2> HIDE DEF c, C
  <2> QED BY <2>1, TailOf
<1>2. /\ calls \in [Nodes -> Seq(C)] /\ calls' = [calls EXCEPT ![n] = Tail(c)]
      /\ reply \in [Nodes -> {"none", "awaited", "ok", "error"}]
      /\ reply' = IF reply[n] = "awaited" /\ \A i \in 2..Len(c) : c[i].pc = "late"
                  THEN [reply EXCEPT ![n] = result] ELSE reply
    BY DEF Return, IInv, TypeOK, NodeTypeOK
<1>3. d = Tail(c)
    BY <1>2
<1>4. /\ d \in Seq(C) /\ Len(d) = Len(c) - 1 /\ DOMAIN d = 1..(Len(c) - 1)
      /\ \A i \in DOMAIN d : d[i] = c[i + 1] /\ i + 1 \in DOMAIN c
    BY <1>1, <1>3, TailOf
<1>5. /\ calls' \in [Nodes -> Seq(C)] /\ \A m \in Nodes \ {n} : calls'[m] = calls[m]
    BY <1>2, <1>3, <1>4
<1>6. /\ reply' \in [Nodes -> {"none", "awaited", "ok", "error"}]
      /\ \A m \in Nodes \ {n} : reply'[m] = reply[m]
      /\ reply'[n] = "none" <=> reply[n] = "none"
      /\ reply'[n] = "awaited" => reply[n] = "awaited"
      /\ reply'[n] = "ok" => \/ reply[n] = "ok"
                             \/ /\ reply[n] = "awaited" /\ result = "ok"
                                /\ \A i \in 2..Len(c) : c[i].pc = "late"
    BY <1>2
<1>7. (n \notin overtaken => CallsFit(n)) /\ UNCHANGED <<done, reach, going>>
    BY DEF IInv, NodeFits, HandlerMoves, cluster
<1>8. ASSUME n \notin overtaken PROVE CallsFit(n)'
  <2>1. LastCall(n)' = LastCall(n)
      BY <1>7 DEF LastCall
  <2>2. ASSUME NEW i \in DOMAIN d
        PROVE  /\ d[i].pc # "late" /\ (i > 1 => d[i].pc = "wait")
               /\ d[i].pc \in {"remount", "undo"} => target'[n] \in Mounted
    <3>1. d[i].pc = "wait"
        BY <1>1, <1>4, <1>7, <1>8, <2>2 DEF CallsFit
    <3> QED BY <3>1
  <2>3. d # <<>> => d[Len(d)].op = c[Len(c)].op
    <3> SUFFICES ASSUME d # <<>> PROVE d[Len(d)].op = c[Len(c)].op
        OBVIOUS
    <3>1. Len(d) \in DOMAIN d /\ Len(d) + 1 = Len(c)
        BY <1>1, <1>4
    <3> QED BY <1>4, <3>1
  <2>4. reply[n] # "ok"
      BY <1>1, <1>7, <1>8 DEF CallsFit
  <2>5. ASSUME reply'[n] = "ok"
        PROVE  d = <<>> /\ Achieved(LastCall(n), staging'[n], target'[n])
    <3>1. /\ reply[n] = "awaited" /\ result = "ok"
          /\ \A i \in 2..Len(c) : c[i].pc = "late"
        BY <1>6, <2>4, <2>5
    <3>2. Len(c) = 1
      <4> SUFFICES ASSUME Len(c) # 1 PROVE FALSE
          OBVIOUS
      <4>1. 2 \in 2..Len(c) /\ 2 \in DOMAIN c
        <5> HIDE DEF c, C
        <5> QED BY <1>1
      <4> QED BY <1>7, <1>8, <3>1, <4>1 DEF CallsFit
    <3>3. d = <<>>
        BY <1>1, <1>4, <3>2
    <3>4. Head(c).op = LastCall(n)
        BY <1>1, <1>7, <1>8, <3>1, <3>2 DEF CallsFit
    <3> QED BY <1>8, <3>1, <3>3, <3>4
  <2> QED BY <1>1, <1>6, <1>7, <1>8, <2>1, <2>2, <2>3, <2>5 DEF CallsFit
<1>9. \A i \in DOMAIN d : \E j \in DOMAIN c : d[i].op = c[j].op
    BY <1>4
<1> QED BY <1>5, <1>6, <1>8, <1>9, HandlerKeeps

LEMMA StageSteps ==
    ASSUME IInv, NEW n \in Nodes, UNCHANGED <<agent, cluster>>,
           StageCheck(n) \/ StageCleanup(n) \/ StageMount(n) \/ NodeUnstageVolume(n)
    PROVE  IInv'
<1>1. /\ staging \in [Nodes -> Paths \cup {"nfs"}]
      /\ target \in [Nodes -> Paths \cup {"rw", "ro"}]
    BY DEF IInv, TypeOK, NodeTypeOK
<1>2. /\ calls[n] # <<>> /\ UNCHANGED <<overtaken, kernel, target>>
      /\ Head(calls[n]).op \in {"stage", "unstage"}
  <2>1. \E op \in {"stage", "unstage"} : \E pc : Running(n, op, pc)
      BY DEF StageCheck, StageCleanup, StageMount, NodeUnstageVolume, Starting
  <2>2. UNCHANGED <<kernel, target>>
      BY DEF StageCheck, StageCleanup, StageMount, NodeUnstageVolume
  <2>3. (\E result : Return(n, result)) \/ (\E pc : Goto(n, pc))
      BY DEF StageCheck, StageCleanup, StageMount, NodeUnstageVolume
  <2> QED BY <2>1, <2>2, <2>3 DEF Return, Goto, Running
<1>3. /\ (Fault \/ Fine) /\ staging' \in [Nodes -> Paths \cup {"nfs"}]
      /\ \A m \in Nodes \ {n} : staging'[m] = staging[m]
    BY <1>1 DEF StageCheck, StageCleanup, StageMount, NodeUnstageVolume, Cleaned, Paths
<1>4. HandlerMoves(n)
    BY <1>1, <1>2, <1>3 DEF HandlerMoves
<1>5. ASSUME Head(calls[n]).op = "stage" PROVE Achieved(Head(calls[n]).op, staging'[n], target'[n])
    BY <1>5 DEF Achieved
<1>6. CASE StageCheck(n)
  <2>1. Head(calls[n]).op = "stage"
      BY <1>6 DEF StageCheck, Running, Starting
  <2>2. \/ Return(n, "ok") \/ Return(n, "error") \/ Goto(n, "mount") \/ Goto(n, "cleanup")
      BY <1>6 DEF StageCheck
  <2> QED BY <1>4, <1>5, <2>1, <2>2, GotoFits, ReturnFits DEF Steps, Begin
<1>7. CASE StageCleanup(n)
  <2>1. Goto(n, "mount") \/ Return(n, "error")
      BY <1>7 DEF StageCleanup
  <2> QED BY <1>4, <2>1, GotoFits, ReturnFits DEF Steps, Begin
<1>8. CASE StageMount(n)
  <2>1. Head(calls[n]).op = "stage"
      BY <1>8 DEF StageMount, Running
  <2>2. Return(n, "ok") \/ Return(n, "error")
      BY <1>8 DEF StageMount
  <2> QED BY <1>4, <1>5, <2>1, <2>2, ReturnFits
<1>9. CASE NodeUnstageVolume(n)
  <2>1. Head(calls[n]).op = "unstage"
      BY <1>9 DEF NodeUnstageVolume, Running, Starting
  <2>2. \/ Return(n, "error")
        \/ Return(n, "ok") /\ staging'[n] = "none"
      BY <1>1, <1>9 DEF NodeUnstageVolume, Cleaned
  <2>3. staging'[n] = "none" => Achieved("unstage", staging'[n], target'[n])
      BY DEF Achieved
  <2> QED BY <1>4, <2>1, <2>2, <2>3, ReturnFits
<1> QED BY <1>6, <1>7, <1>8, <1>9

LEMMA PublishSteps ==
    ASSUME IInv, NEW n \in Nodes, UNCHANGED <<agent, cluster>>,
           \/ PublishCheck(n) \/ PublishCleanup(n) \/ PublishMount(n)
           \/ PublishRemount(n) \/ PublishUndo(n) \/ NodeUnpublishVolume(n)
    PROVE  IInv'
<1>1. /\ staging \in [Nodes -> Paths \cup {"nfs"}]
      /\ target \in [Nodes -> Paths \cup {"rw", "ro"}]
    BY DEF IInv, TypeOK, NodeTypeOK
<1>2. /\ calls[n] # <<>> /\ UNCHANGED <<overtaken, kernel, staging>>
      /\ Head(calls[n]).op \in {"publish", "unpublish"}
  <2>1. \E op \in {"publish", "unpublish"} : \E pc : Running(n, op, pc)
      BY DEF PublishCheck, PublishCleanup, PublishMount, PublishRemount, PublishUndo,
             NodeUnpublishVolume, Starting
  <2>2. UNCHANGED <<kernel, staging>>
      BY DEF PublishCheck, PublishCleanup, PublishMount, PublishRemount, PublishUndo,
             NodeUnpublishVolume
  <2>3. (\E result : Return(n, result)) \/ (\E pc : Goto(n, pc))
      BY DEF PublishCheck, PublishCleanup, PublishMount, PublishRemount, PublishUndo,
             NodeUnpublishVolume
  <2> QED BY <2>1, <2>2, <2>3 DEF Return, Goto, Running
<1>3. /\ (Fault \/ Fine) /\ target' \in [Nodes -> Paths \cup {"rw", "ro"}]
      /\ \A m \in Nodes \ {n} : target'[m] = target[m]
    BY <1>1 DEF PublishCheck, PublishCleanup, PublishMount, PublishRemount, PublishUndo,
                NodeUnpublishVolume, Cleaned, Paths
<1>4. HandlerMoves(n)
    BY <1>1, <1>2, <1>3 DEF HandlerMoves
<1>5. ASSUME target'[n] \in Mounted PROVE Achieved("publish", staging'[n], target'[n])
    BY <1>5 DEF Achieved
<1>6. CASE PublishCheck(n)
  <2>1. Head(calls[n]).op = "publish"
      BY <1>6 DEF PublishCheck, Running, Starting
  <2>2. \/ Return(n, "ok") /\ target'[n] \in Mounted
        \/ Return(n, "error") \/ Goto(n, "mount") \/ Goto(n, "cleanup")
      BY <1>6 DEF PublishCheck, Mounted
  <2> QED BY <1>4, <1>5, <2>1, <2>2, GotoFits, ReturnFits DEF Steps, Begin
<1>7. CASE PublishCleanup(n)
  <2>1. Goto(n, "mount") \/ Return(n, "error")
      BY <1>7 DEF PublishCleanup
  <2> QED BY <1>4, <2>1, GotoFits, ReturnFits DEF Steps, Begin
<1>8. CASE PublishMount(n)
  <2>1. Head(calls[n]).op = "publish"
      BY <1>8 DEF PublishMount, Running
  <2>2. \/ Return(n, "ok") /\ target'[n] \in Mounted
        \/ Goto(n, "remount") /\ target'[n] \in Mounted
        \/ Return(n, "error")
      BY <1>1, <1>8 DEF PublishMount, Mounted
  <2> QED BY <1>4, <1>5, <2>1, <2>2, GotoFits, ReturnFits DEF Steps, Begin
<1>9. CASE PublishRemount(n)
  <2>1. Head(calls[n]).op = "publish" /\ Head(calls[n]).pc = "remount"
      BY <1>9 DEF PublishRemount, Running
  <2>2. n \notin overtaken => target[n] \in Mounted
    <3>1. calls[n] \in Seq([op : Ops, pc : Steps]) /\ (n \notin overtaken => CallsFit(n))
        BY DEF IInv, TypeOK, NodeTypeOK, NodeFits
    <3>2. Head(calls[n]) = calls[n][1] /\ 1 \in DOMAIN calls[n]
        BY <1>2, <3>1, TailOf
    <3> QED BY <2>1, <3>1, <3>2 DEF CallsFit
  <2>3. /\ Return(n, "ok") \/ Goto(n, "undo")
        /\ n \notin overtaken => target'[n] \in Mounted
      BY <1>1, <1>9, <2>2 DEF PublishRemount, Mounted
  <2> QED BY <1>4, <1>5, <2>1, <2>3, GotoFits, ReturnFits DEF Steps, Begin
<1>10. CASE PublishUndo(n)
  <2>1. Return(n, "error")
      BY <1>10 DEF PublishUndo
  <2> QED BY <1>4, <2>1, ReturnFits
<1>11. CASE NodeUnpublishVolume(n)
  <2>1. Head(calls[n]).op = "unpublish"
      BY <1>11 DEF NodeUnpublishVolume, Running, Starting
  <2>2. \/ Return(n, "error")
        \/ Return(n, "ok") /\ target'[n] = "none"
      BY <1>1, <1>11 DEF NodeUnpublishVolume, Cleaned
  <2>3. target'[n] = "none" => Achieved("unpublish", staging'[n], target'[n])
      BY DEF Achieved, Mounted
  <2> QED BY <1>4, <2>1, <2>2, <2>3, ReturnFits
<1> QED BY <1>6, <1>7, <1>8, <1>9, <1>10, <1>11

-----------------------------------------------------------------------------
(* Crashes of the driver, stale mounts, deadlines and reboots.             *)
LEMMA NodeFaults ==
    ASSUME IInv, NEW n \in Nodes, NodeFault(n) \/ Reboot(n)
    PROVE  IInv'
<1>1. TypeOK /\ SizeFits /\ \A m \in Nodes : NodeFits(m)
    BY DEF IInv
<1>2. UNCHANGED <<kernel, exists, short, refs, requests, answer, warned,
                  clone, resize, claim, wanted, reach, going, moves>>
    BY DEF NodeFault, DriverCrash, MountsGoStale, GiveUp, Reboot, agent, cluster
<1>3. faults' \in 0..MaxFaults
    BY <1>1, FaultType DEF NodeFault, DriverCrash, MountsGoStale, GiveUp, Reboot
<1>4. SizeFits'
    BY <1>1, <1>2 DEF SizeFits, CapacityTold
<1>5. /\ staging \in [Nodes -> Paths \cup {"nfs"}]
      /\ target \in [Nodes -> Paths \cup {"rw", "ro"}]
      /\ calls \in [Nodes -> Seq([op : Ops, pc : Steps])]
      /\ reply \in [Nodes -> {"none", "awaited", "ok", "error"}]
      /\ done \in [Nodes -> 0..3] /\ reach \in [Nodes -> 0..3]
      /\ \A m \in Nodes : done[m] <= reach[m]
    BY <1>1 DEF TypeOK, NodeTypeOK
<1>6. /\ staging' \in [Nodes -> Paths \cup {"nfs"}]
      /\ target' \in [Nodes -> Paths \cup {"rw", "ro"}]
    BY <1>5 DEF NodeFault, DriverCrash, MountsGoStale, GiveUp, Reboot, Paths
<1>7. /\ calls' \in [Nodes -> Seq([op : Ops, pc : Steps])]
      /\ reply' \in [Nodes -> {"none", "awaited", "ok", "error"}]
      /\ done' \in [Nodes -> 0..3]
  <2>1. calls' = calls \/ calls' = [calls EXCEPT ![n] = <<>>]
      BY DEF NodeFault, DriverCrash, MountsGoStale, GiveUp, Reboot
  <2>2. <<>> \in Seq([op : Ops, pc : Steps])
      OBVIOUS
  <2>3. \E v \in {"none", "awaited", "ok", "error"} : reply' = [reply EXCEPT ![n] = v]
    <3>1. CASE DriverCrash(n)
        BY <1>5, <3>1 DEF DriverCrash, Lost
    <3>2. CASE MountsGoStale(n)
      <4>1. /\ reply[n] \in {"none", "awaited", "ok", "error"}
            /\ reply' = [reply EXCEPT ![n] = reply[n]]
          BY <1>5, <3>2 DEF MountsGoStale
      <4> QED BY <4>1
    <3>3. CASE GiveUp(n)
        BY <3>3 DEF GiveUp
    <3>4. CASE Reboot(n)
        BY <1>5, <3>4 DEF Reboot
    <3> QED BY <3>1, <3>2, <3>3, <3>4 DEF NodeFault
  <2>4. done' = done \/ done' = [done EXCEPT ![n] = 1]
      BY DEF NodeFault, Reboot, cluster
  <2>5. calls' \in [Nodes -> Seq([op : Ops, pc : Steps])]
      BY <1>5, <2>1, <2>2
  <2>6. reply' \in [Nodes -> {"none", "awaited", "ok", "error"}]
      BY <1>5, <2>3
  <2>7. done' \in [Nodes -> 0..3]
      BY <1>5, <2>4
  <2> QED BY <2>5, <2>6, <2>7
<1>8. /\ overtaken' \subseteq Nodes
      /\ \A m \in Nodes \ {n} :
             /\ staging'[m] = staging[m] /\ target'[m] = target[m] /\ calls'[m] = calls[m]
             /\ reply'[m] = reply[m] /\ done'[m] = done[m]
             /\ m \in overtaken' <=> m \in overtaken
    BY <1>1, <1>5 DEF TypeOK, NodeTypeOK, NodeFault, DriverCrash, MountsGoStale, GiveUp, Reboot,
                      cluster
<1>9. done'[n] = done[n] \/ (done[n] > 1 /\ done'[n] = 1)
    BY <1>5 DEF NodeFault, DriverCrash, MountsGoStale, GiveUp, Reboot, cluster
<1>10. TypeOK'
  <2>1. ASSUME NEW m \in Nodes PROVE done'[m] <= reach'[m]
    <3>1. done[m] \in 0..3 /\ reach[m] \in 0..3 /\ done[m] <= reach[m]
        BY <1>5
    <3>2. done'[m] <= done[m]
        BY <1>8, <1>9, <3>1
    <3>3. done'[m] \in 0..3 /\ reach'[m] = reach[m]
        BY <1>2, <1>7
    <3> QED BY <3>1, <3>2, <3>3
  <2> QED BY <1>1, <1>2, <1>3, <1>6, <1>7, <1>8, <2>1 DEF TypeOK, NodeTypeOK
<1>11. ASSUME NEW m \in Nodes, m # n PROVE NodeFits(m)'
    BY <1>1, <1>2, <1>8, <1>11, NodeKept
<1>12. NodeFits(n)'
  <2>1. StagesFit(n) /\ AttachFits(n) /\ (n \notin overtaken => MountsFit(n) /\ CallsFit(n))
      BY <1>1 DEF NodeFits
  <2>2. reply'[n] = "none" <=> reply[n] = "none"
      BY <1>5 DEF NodeFault, DriverCrash, MountsGoStale, GiveUp, Reboot, Lost
  <2>3. StagesFit(n)' /\ AttachFits(n)'
    <3>1. done[n] \in 0..3 /\ reach[n] \in 0..3 /\ done[n] <= reach[n]
        BY <1>5
    <3>2. /\ done'[n] >= 1 <=> done[n] >= 1
          /\ done'[n] = 0 <=> done[n] = 0
          /\ done[n] < reach[n] => done'[n] < reach[n]
        BY <1>9, <3>1
    <3>3. StagesFit(n)'
        BY <1>2, <2>1, <2>2, <3>2 DEF StagesFit
    <3>4. AttachFits(n)'
        BY <1>2, <2>1, <3>2 DEF AttachFits
    <3> QED BY <3>3, <3>4
  <2>4. CASE DriverCrash(n) /\ UNCHANGED <<agent, cluster>>
    <3>1. /\ calls'[n] = <<>> /\ UNCHANGED <<staging, target, overtaken, done>>
          /\ reply'[n] = IF reply[n] = "awaited" THEN "error" ELSE reply[n]
        BY <1>5, <2>4 DEF DriverCrash, Lost, cluster
    <3>2. n \notin overtaken => MountsFit(n)'
        BY <1>2, <2>1, <3>1 DEF MountsFit
    <3>3. n \notin overtaken => CallsFit(n)'
        BY <1>2, <2>1, <3>1 DEF CallsFit, LastCall
    <3> QED BY <2>3, <3>1, <3>2, <3>3 DEF NodeFits
  <2>5. CASE MountsGoStale(n) /\ UNCHANGED <<agent, cluster>>
    <3>1. /\ UNCHANGED <<calls, reply, overtaken, done>>
          /\ staging[n] = "nfs" /\ staging'[n] = "stale"
          /\ target'[n] \in Mounted <=> target[n] \in Mounted
        BY <1>5, <2>5 DEF MountsGoStale, cluster, Mounted
    <3>2. n \notin overtaken => MountsFit(n)'
        BY <1>2, <2>1, <3>1 DEF MountsFit
    <3>3. n \notin overtaken => CallsFit(n)'
        BY <1>2, <2>1, <3>1 DEF CallsFit, LastCall, Achieved
    <3> QED BY <2>3, <3>1, <3>2, <3>3 DEF NodeFits
  <2>6. CASE GiveUp(n) /\ UNCHANGED <<agent, cluster>>
    <3>1. UNCHANGED <<staging, target, calls, overtaken, done>> /\ reply'[n] = "error"
        BY <1>5, <2>6 DEF GiveUp, cluster
    <3>2. n \notin overtaken => MountsFit(n)'
        BY <1>2, <2>1, <3>1 DEF MountsFit
    <3>3. n \notin overtaken => CallsFit(n)'
        BY <2>1, <3>1 DEF CallsFit
    <3> QED BY <2>3, <3>1, <3>2, <3>3 DEF NodeFits
  <2>7. CASE Reboot(n)
    <3>1. /\ calls'[n] = <<>> /\ done[n] > 1 /\ done'[n] = 1
          /\ staging'[n] \in {"none", "dir"} /\ target'[n] \in {"none", "dir"}
          /\ reply'[n] \in {"none", "error"}
        BY <1>5, <2>7 DEF Reboot
    <3>2. MountsFit(n)'
        BY <1>2, <3>1 DEF MountsFit, Mounted
    <3>3. CallsFit(n)'
        BY <3>1 DEF CallsFit
    <3> QED BY <2>3, <3>2, <3>3 DEF NodeFits
  <2> QED BY <2>4, <2>5, <2>6, <2>7 DEF NodeFault
<1> QED BY <1>4, <1>10, <1>11, <1>12 DEF IInv

-----------------------------------------------------------------------------
(* A kubelet, or the attacher for node n, makes a call or takes an answer. *)
LEMMA MoveKeeps ==
    ASSUME IInv, NEW n \in Nodes,
           UNCHANGED <<staging, target, kernel, faults, exists, short, refs, warned,
                       clone, resize, claim, wanted, moves>>,
           calls' \in [Nodes -> Seq([op : Ops, pc : Steps])],
           reply' \in [Nodes -> {"none", "awaited", "ok", "error"}], overtaken' \subseteq Nodes,
           answer' \in [Requesters -> {"none", "awaited", "ok", "error"}],
           requests' \in Seq(Requests),
           done' \in [Nodes -> 0..3], reach' \in [Nodes -> 0..3],
           going' \in [Nodes -> {"up", "down"}], done'[n] <= reach'[n],
           \A m \in Nodes \ {n} : /\ calls'[m] = calls[m] /\ reply'[m] = reply[m]
                                  /\ done'[m] = done[m] /\ reach'[m] = reach[m]
                                  /\ going'[m] = going[m]
                                  /\ m \in overtaken' <=> m \in overtaken,
           \A r \in Requesters \ {n} :
               /\ answer'[r] = answer[r] /\ SentBy(requests', r) = SentBy(requests, r)
               /\ \A op : LastIs(requests, r, op) => LastIs(requests', r, op),
           \A op \in {"create", "grow"} : Has(requests', op) <=> Has(requests, op),
           NodeFits(n)'
    PROVE  IInv'
<1>1. TypeOK /\ SizeFits /\ \A m \in Nodes : NodeFits(m)
    BY DEF IInv
<1>2. \A m \in Nodes : done'[m] <= reach'[m]
    BY <1>1 DEF TypeOK
<1>3. TypeOK'
    BY <1>1, <1>2 DEF TypeOK, NodeTypeOK
<1>4. /\ answer'[Volume] = answer[Volume] /\ answer'[Resizer] = answer[Resizer]
      /\ SentBy(requests', Volume) = SentBy(requests, Volume)
    BY Requesting
<1>5. SizeFits'
    BY <1>1, <1>4 DEF SizeFits, CapacityTold
<1>6. ASSUME NEW m \in Nodes, m # n PROVE NodeFits(m)'
  <2>1. m \in Requesters \ {n}
      BY <1>6, Requesting
  <2> QED BY <1>1, <1>6, <2>1, NodeKept
<1> QED BY <1>3, <1>5, <1>6 DEF IInv

LEMMA NodeRequests ==
    ASSUME IInv, NEW n \in Nodes, NEW op \in {"publish", "unpublish"}, Request(op, n)
    PROVE  /\ requests' \in Seq(Requests) /\ LastIs(requests', n, op)
           /\ answer' \in [Requesters -> {"none", "awaited", "ok", "error"}]
           /\ answer'[n] = "awaited"
           /\ \A r \in Requesters \ {n} :
                  /\ answer'[r] = answer[r] /\ SentBy(requests', r) = SentBy(requests, r)
                  /\ \A o : LastIs(requests, r, o) => LastIs(requests', r, o)
           /\ \A o \in {"create", "grow"} : Has(requests', o) <=> Has(requests, o)
<1> DEFINE x == [op |-> op, who |-> n]
<1>1. /\ requests \in Seq(Requests) /\ requests' = Append(requests, x) /\ x \in Requests
      /\ x.op = op /\ x.who = n
    BY DEF Request, IInv, TypeOK, Requests
<1>2. /\ answer' = [answer EXCEPT ![n] = "awaited"] /\ n \in Requesters
      /\ answer \in [Requesters -> {"none", "awaited", "ok", "error"}]
    BY Requesting DEF Request, IInv, TypeOK
<1> HIDE DEF x
<1>3. requests' \in Seq(Requests)
    BY <1>1, AppendOf
<1>4. LastIs(requests', n, op)
    BY <1>1, AppendSent
<1>5. ASSUME NEW r \in Requesters \ {n}
      PROVE  /\ SentBy(requests', r) = SentBy(requests, r)
             /\ \A o : LastIs(requests, r, o) => LastIs(requests', r, o)
    BY <1>1, AppendSent
<1>6. ASSUME NEW o \in {"create", "grow"} PROVE Has(requests', o) <=> Has(requests, o)
    BY <1>1, AppendSent
<1>7. /\ answer' \in [Requesters -> {"none", "awaited", "ok", "error"}]
      /\ answer'[n] = "awaited" /\ \A r \in Requesters \ {n} : answer'[r] = answer[r]
    BY <1>2
<1> QED BY <1>3, <1>4, <1>5, <1>6, <1>7

LEMMA NodeCalls ==
    ASSUME IInv, NEW n \in Nodes, NEW op \in Ops, Call(op, n), reply[n] = "none"
    PROVE  /\ calls' \in [Nodes -> Seq([op : Ops, pc : Steps])]
           /\ reply' \in [Nodes -> {"none", "awaited", "ok", "error"}]
           /\ reply'[n] = "awaited" /\ overtaken' \subseteq Nodes
           /\ \A m \in Nodes \ {n} : /\ calls'[m] = calls[m] /\ reply'[m] = reply[m]
                                     /\ m \in overtaken' <=> m \in overtaken
           /\ n \notin overtaken' =>
                  /\ n \notin overtaken
                  /\ \A i \in DOMAIN calls'[n] :
                         \/ i \in DOMAIN calls[n] /\ calls'[n][i] = calls[n][i]
                         \/ calls'[n][i].op = op
                  /\ target' = target /\ LastCall(n)' = op => CallsFit(n)'
<1> DEFINE C == [op : Ops, pc : Steps]
           c == calls[n]
           d == calls'[n]
<1>1. /\ c \in Seq(C) /\ n \in DOMAIN calls /\ calls \in [Nodes -> Seq(C)]
      /\ reply \in [Nodes -> {"none", "awaited", "ok", "error"}]
      /\ overtaken \subseteq Nodes /\ (n \notin overtaken => CallsFit(n))
    BY DEF IInv, TypeOK, NodeTypeOK, NodeFits
<1>2. /\ reply' \in [Nodes -> {"none", "awaited", "ok", "error"}]
      /\ reply'[n] = "awaited" /\ \A m \in Nodes \ {n} : reply'[m] = reply[m]
  <2>1. reply' = [reply EXCEPT ![n] = "awaited"]
      BY DEF Call, Enter, Overtake
  <2> QED BY <1>1, <2>1
<1>3. ASSUME NEW q \in Seq(C), calls' = [calls EXCEPT ![n] = q]
      PROVE  /\ calls' \in [Nodes -> Seq(C)] /\ d = q
             /\ \A m \in Nodes \ {n} : calls'[m] = calls[m]
  <2> HIDE DEF C
  <2> QED BY <1>1, <1>3
<1>4. CASE Enter(n, op)
  <2> DEFINE x == [op |-> op, pc |-> IF c = <<>> THEN "start" ELSE "wait"]
  <2>1. /\ x \in C /\ x.op = op /\ x.pc \in {"start", "wait"} /\ (c # <<>> => x.pc = "wait")
        /\ calls' = [calls EXCEPT ![n] = Append(c, x)] /\ UNCHANGED overtaken
      BY <1>4 DEF Enter, Steps, Begin
  <2> HIDE DEF x, C
  <2>2. /\ Append(c, x) \in Seq(C) /\ Len(c) \in Nat /\ Len(Append(c, x)) = Len(c) + 1
        /\ DOMAIN c = 1..Len(c) /\ DOMAIN Append(c, x) = 1..(Len(c) + 1)
        /\ Append(c, x)[Len(c) + 1] = x /\ \A i \in DOMAIN c : Append(c, x)[i] = c[i]
      BY <1>1, <2>1, AppendOf
  <2>3. /\ calls' \in [Nodes -> Seq(C)] /\ d = Append(c, x)
        /\ \A m \in Nodes \ {n} : calls'[m] = calls[m]
      BY <1>3, <2>1, <2>2
  <2>4. ASSUME NEW i \in DOMAIN d
        PROVE  (i \in DOMAIN c /\ d[i] = c[i]) \/ (i = Len(c) + 1 /\ d[i] = x)
      BY <2>2, <2>3
  <2>5. ASSUME n \notin overtaken, target' = target, LastCall(n)' = op PROVE CallsFit(n)'
    <3>1. ASSUME NEW i \in DOMAIN d
          PROVE  /\ d[i].pc # "late" /\ (i > 1 => d[i].pc = "wait")
                 /\ d[i].pc \in {"remount", "undo"} => target[n] \in Mounted
      <4>1. CASE i \in DOMAIN c /\ d[i] = c[i]
          BY <1>1, <2>5, <4>1 DEF CallsFit
      <4>2. CASE i = Len(c) + 1 /\ d[i] = x
        <5>1. i > 1 => c # <<>>
            BY <2>2, <4>2
        <5> QED BY <2>1, <4>2, <5>1
      <4> QED BY <2>4, <3>1, <4>1, <4>2
    <3>2. d[Len(d)].op = op
        BY <2>1, <2>2, <2>3
    <3> QED BY <1>2, <2>5, <3>1, <3>2 DEF CallsFit
  <2>6. \A i \in DOMAIN d : (i \in DOMAIN c /\ d[i] = c[i]) \/ d[i].op = op
      BY <2>1, <2>4
  <2> QED BY <1>1, <1>2, <2>1, <2>3, <2>5, <2>6 DEF C
<1>5. CASE Overtake(n, op)
  <2> DEFINE late == [i \in DOMAIN c |-> [op |-> c[i].op, pc |-> "late"]]
             first == <<[op |-> op, pc |-> "start"]>>
  <2>1. calls' = [calls EXCEPT ![n] = first \o late] /\ overtaken' = overtaken \cup {n}
      BY <1>5 DEF Overtake
  <2>2. first \in Seq(C) /\ late \in Seq(C)
    <3>1. [op |-> op, pc |-> "start"] \in C
        BY DEF Steps, Begin
    <3>2. ASSUME NEW i \in DOMAIN c PROVE [op |-> c[i].op, pc |-> "late"] \in C
      <4>1. c[i] \in C
        <5> HIDE DEF c, C
        <5> QED BY <1>1, <3>2
      <4> QED BY <4>1 DEF Steps, Begin
    <3>3. Len(c) \in Nat /\ DOMAIN c = 1..Len(c)
        BY <1>1
    <3> HIDE DEF C, c
    <3> QED BY <3>1, <3>2, <3>3
  <2>3. first \o late \in Seq(C)
    <3> HIDE DEF first, late, C
    <3> QED BY <2>2
  <2> HIDE DEF first, late
  <2>4. calls' \in [Nodes -> Seq(C)] /\ \A m \in Nodes \ {n} : calls'[m] = calls[m]
      BY <1>3, <2>1, <2>3
  <2> QED BY <1>1, <1>2, <2>1, <2>4 DEF C
<1> QED BY <1>4, <1>5 DEF Call

(* Attach, stage, publish.                                                 *)
LEMMA UpStep == ASSUME IInv, NEW n \in Nodes, Up(n) PROVE IInv'
<1>1. /\ reply[n] = "none" /\ answer[n] = "none" /\ done[n] < 3 /\ UNCHANGED done
      /\ reach' = [reach EXCEPT ![n] = IF @ > done[n] THEN @ ELSE done[n] + 1]
      /\ going' = [going EXCEPT ![n] = "up"]
      /\ UNCHANGED <<kernel, faults, clone, resize, claim, wanted, moves>>
    BY DEF Up, Idle
<1>2. /\ done \in [Nodes -> 0..3] /\ reach \in [Nodes -> 0..3]
      /\ going \in [Nodes -> {"up", "down"}]
      /\ done[n] \in 0..3 /\ reach[n] \in 0..3 /\ done[n] <= reach[n]
      /\ StagesFit(n) /\ AttachFits(n) /\ (n \notin overtaken => MountsFit(n) /\ CallsFit(n))
    BY DEF IInv, TypeOK, NodeFits
<1>3. /\ going' \in [Nodes -> {"up", "down"}] /\ going'[n] = "up"
      /\ \A m \in Nodes \ {n} : reach'[m] = reach[m] /\ going'[m] = going[m]
      /\ reach'[n] = IF reach[n] > done[n] THEN reach[n] ELSE done[n] + 1
    BY <1>1, <1>2
<1>4. reach' \in [Nodes -> 0..3] /\ reach'[n] \in 0..3 /\ done'[n] <= reach'[n]
  <2>1. (IF reach[n] > done[n] THEN reach[n] ELSE done[n] + 1) \in 0..3
      BY <1>1, <1>2
  <2>2. reach' \in [Nodes -> 0..3]
      BY <1>1, <1>2, <2>1
  <2> QED BY <1>1, <1>2, <1>3, <2>1, <2>2
<1>5. CASE done[n] = 0
  <2>1. Request("publish", n)
      BY <1>5 DEF Up
  <2>2. UNCHANGED <<staging, target, calls, reply, overtaken, exists, short, refs, warned>>
      BY <2>1 DEF Request, node
  <2>3. reach[n] <= 1 /\ reach'[n] = 1
      BY <1>2, <1>3, <1>5 DEF StagesFit
  <2>4. answer'[n] = "awaited" /\ LastIs(requests', n, "publish")
      BY <2>1, NodeRequests
  <2>5. StagesFit(n)' /\ AttachFits(n)'
      BY <1>1, <1>3, <1>5, <2>2, <2>3, <2>4 DEF StagesFit, AttachFits
  <2>6. n \notin overtaken => MountsFit(n)'
      BY <1>1, <1>2, <1>5, <2>2, <2>3 DEF MountsFit
  <2>7. n \notin overtaken => CallsFit(n)'
      BY <1>1, <1>2, <2>2 DEF CallsFit
  <2>8. /\ calls' \in [Nodes -> Seq([op : Ops, pc : Steps])] /\ overtaken' \subseteq Nodes
        /\ reply' \in [Nodes -> {"none", "awaited", "ok", "error"}] /\ done' \in [Nodes -> 0..3]
      BY <1>1, <1>2, <2>2 DEF IInv, TypeOK, NodeTypeOK
  <2> QED BY <1>1, <1>3, <1>4, <2>1, <2>2, <2>5, <2>6, <2>7, <2>8, NodeRequests, MoveKeeps
          DEF NodeFits
<1>6. ASSUME NEW op \in Ops, Call(op, n), done[n] >= 1,
             op = IF done[n] = 1 THEN "stage" ELSE "publish"
      PROVE  IInv'
  <2>1. UNCHANGED <<staging, target, exists, short, refs, requests, answer, warned>>
      BY <1>6 DEF Call, agent
  <2>2. reach'[n] >= 2 /\ done[n] < reach'[n] /\ (done[n] = 2 => reach'[n] = 3)
      BY <1>1, <1>2, <1>3, <1>6
  <2>3. LastCall(n)' = op
      BY <1>1, <1>3, <1>6 DEF LastCall
  <2>4. reply'[n] = "awaited" /\ (n \notin overtaken' => CallsFit(n)')
      BY <1>1, <1>6, <2>1, <2>3, NodeCalls
  <2>5. StagesFit(n)' /\ AttachFits(n)'
      BY <1>1, <1>2, <1>6, <2>1, <2>2, <2>4 DEF StagesFit, AttachFits
  <2>6. ASSUME n \notin overtaken' PROVE MountsFit(n)'
    <3>0. MountsFit(n)
        BY <1>1, <1>2, <1>6, <2>6, NodeCalls
    <3>1. reach'[n] = 2 => reach[n] <= 2 /\ op = "stage"
        BY <1>1, <1>2, <1>3, <1>6
    <3>2. ASSUME reach[n] <= 2
          PROVE  /\ target[n] \notin Mounted
                 /\ \A i \in DOMAIN calls[n] : calls[n][i].op \in {"stage", "unstage"}
        BY <1>2, <3>0, <3>2 DEF MountsFit
    <3>3. reach'[n] = 2 => \A i \in DOMAIN calls'[n] : calls'[n][i].op \in {"stage", "unstage"}
        BY <1>1, <1>6, <2>6, <3>1, <3>2, NodeCalls
    <3>4. ~(reach'[n] <= 1) /\ done'[n] # 3
        BY <1>1, <1>2, <1>4, <2>2
    <3> QED BY <2>1, <3>1, <3>2, <3>3, <3>4 DEF MountsFit
  <2>7. /\ answer' \in [Requesters -> {"none", "awaited", "ok", "error"}]
        /\ requests' \in Seq(Requests) /\ done' \in [Nodes -> 0..3]
      BY <1>1, <1>2, <2>1 DEF IInv, TypeOK
  <2>8. NodeFits(n)'
      BY <2>4, <2>5, <2>6 DEF NodeFits
  <2> QED BY <1>1, <1>3, <1>4, <1>6, <2>1, <2>7, <2>8, NodeCalls, MoveKeeps
<1>7. CASE done[n] = 1
    BY <1>6, <1>7 DEF Up, Ops
<1>8. CASE done[n] = 2
    BY <1>6, <1>8 DEF Up, Ops
<1> QED BY <1>1, <1>2, <1>5, <1>7, <1>8

(* Unpublish, unstage, detach.                                             *)
LEMMA DownStep == ASSUME IInv, NEW n \in Nodes, Down(n) PROVE IInv'
<1>1. /\ reply[n] = "none" /\ answer[n] = "none" /\ reach[n] > 0 /\ UNCHANGED reach
      /\ done' = [done EXCEPT ![n] = IF @ = reach[n] THEN @ - 1 ELSE @]
      /\ going' = [going EXCEPT ![n] = "down"]
      /\ UNCHANGED <<kernel, faults, clone, resize, claim, wanted, moves>>
    BY DEF Down, Idle
<1>2. /\ done \in [Nodes -> 0..3] /\ reach \in [Nodes -> 0..3]
      /\ going \in [Nodes -> {"up", "down"}]
      /\ done[n] \in 0..3 /\ reach[n] \in 0..3 /\ done[n] <= reach[n]
      /\ StagesFit(n) /\ AttachFits(n) /\ (n \notin overtaken => MountsFit(n) /\ CallsFit(n))
    BY DEF IInv, TypeOK, NodeFits
<1>3. /\ going' \in [Nodes -> {"up", "down"}] /\ going'[n] = "down"
      /\ \A m \in Nodes \ {n} : done'[m] = done[m] /\ going'[m] = going[m]
      /\ done'[n] = IF done[n] = reach[n] THEN done[n] - 1 ELSE done[n]
    BY <1>1, <1>2
<1>4. done' \in [Nodes -> 0..3] /\ done'[n] \in 0..3 /\ done'[n] < reach[n] /\ done'[n] <= done[n]
  <2>1. (IF done[n] = reach[n] THEN done[n] - 1 ELSE done[n]) \in 0..3
      BY <1>1, <1>2
  <2>2. done' \in [Nodes -> 0..3]
      BY <1>1, <1>2, <2>1
  <2>3. done'[n] < reach[n] /\ done'[n] <= done[n]
      BY <1>1, <1>2, <1>3
  <2> QED BY <2>2, <2>3
<1>5. CASE reach[n] = 1
  <2>1. Request("unpublish", n)
      BY <1>5 DEF Down
  <2>2. UNCHANGED <<staging, target, calls, reply, overtaken, exists, short, refs, warned>>
      BY <2>1 DEF Request, node
  <2>3. done'[n] = 0
      BY <1>4, <1>5
  <2>4. answer'[n] = "awaited" /\ LastIs(requests', n, "unpublish")
      BY <2>1, NodeRequests
  <2>5. StagesFit(n)' /\ AttachFits(n)'
      BY <1>1, <1>3, <1>5, <2>2, <2>3, <2>4 DEF StagesFit, AttachFits
  <2>6. n \notin overtaken => MountsFit(n)'
      BY <1>1, <1>2, <1>5, <2>2, <2>3 DEF MountsFit
  <2>7. n \notin overtaken => CallsFit(n)'
      BY <1>1, <1>2, <2>2 DEF CallsFit
  <2>8. /\ calls' \in [Nodes -> Seq([op : Ops, pc : Steps])] /\ overtaken' \subseteq Nodes
        /\ reply' \in [Nodes -> {"none", "awaited", "ok", "error"}] /\ reach' \in [Nodes -> 0..3]
      BY <1>1, <1>2, <2>2 DEF IInv, TypeOK, NodeTypeOK
  <2>9. done'[n] <= reach'[n]
      BY <1>1, <1>5, <2>3
  <2> QED BY <1>1, <1>3, <1>4, <2>1, <2>2, <2>5, <2>6, <2>7, <2>8, <2>9, NodeRequests, MoveKeeps
          DEF NodeFits
<1>6. ASSUME NEW op \in Ops, Call(op, n), reach[n] >= 2,
             op = IF reach[n] = 2 THEN "unstage" ELSE "unpublish"
      PROVE  IInv'
  <2>1. UNCHANGED <<staging, target, exists, short, refs, requests, answer, warned>>
      BY <1>6 DEF Call, agent
  <2>2. done'[n] >= 1 /\ done[n] >= 1
      BY <1>2, <1>3, <1>6 DEF StagesFit
  <2>3. LastCall(n)' = op
      BY <1>1, <1>3, <1>6 DEF LastCall
  <2>4. reply'[n] = "awaited" /\ (n \notin overtaken' => CallsFit(n)')
      BY <1>1, <1>6, <2>1, <2>3, NodeCalls
  <2>5. StagesFit(n)' /\ AttachFits(n)'
      BY <1>1, <1>2, <1>4, <1>6, <2>1, <2>2, <2>4 DEF StagesFit, AttachFits
  <2>6. ASSUME n \notin overtaken' PROVE MountsFit(n)'
    <3>0. MountsFit(n)
        BY <1>1, <1>2, <1>6, <2>6, NodeCalls
    <3>1. reach[n] = 2 => op = "unstage"
        BY <1>6
    <3>2. reach[n] = 2 => /\ target[n] \notin Mounted
                          /\ \A i \in DOMAIN calls[n] : calls[n][i].op \in {"stage", "unstage"}
        BY <3>0 DEF MountsFit
    <3>3. reach[n] = 2 => \A i \in DOMAIN calls'[n] : calls'[n][i].op \in {"stage", "unstage"}
        BY <1>1, <1>6, <2>6, <3>1, <3>2, NodeCalls
    <3>4. ~(reach[n] <= 1) /\ done'[n] # 3
        BY <1>2, <1>4, <1>6
    <3> QED BY <1>1, <2>1, <3>2, <3>3, <3>4 DEF MountsFit
  <2>7. /\ answer' \in [Requesters -> {"none", "awaited", "ok", "error"}]
        /\ requests' \in Seq(Requests) /\ reach' \in [Nodes -> 0..3]
      BY <1>1, <1>2, <2>1 DEF IInv, TypeOK
  <2>8. NodeFits(n)'
      BY <2>4, <2>5, <2>6 DEF NodeFits
  <2>9. done'[n] <= reach'[n]
      BY <1>1, <1>2, <1>4
  <2> QED BY <1>1, <1>3, <1>4, <1>6, <2>1, <2>7, <2>8, <2>9, NodeCalls, MoveKeeps
<1>7. CASE reach[n] = 2
    BY <1>6, <1>7 DEF Down, Ops
<1>8. CASE reach[n] = 3
    BY <1>6, <1>8 DEF Down, Ops
<1> QED BY <1>1, <1>2, <1>5, <1>7, <1>8

(* The answer: what it says is so.                                         *)
LEMMA AnsweredStep == ASSUME IInv, NEW n \in Nodes, Answered(n) PROVE IInv'
<1> DEFINE ok == "ok" \in {reply[n], answer[n]}
<1>1. /\ reply[n] \in {"ok", "error"} \/ answer[n] \in {"ok", "error"}
      /\ reply' = [reply EXCEPT ![n] = "none"] /\ answer' = [answer EXCEPT ![n] = "none"]
      /\ done' = [done EXCEPT ![n] = IF ok /\ going[n] = "up" THEN @ + 1 ELSE @]
      /\ reach' = [reach EXCEPT ![n] = IF ok /\ going[n] = "down" THEN @ - 1 ELSE @]
      /\ UNCHANGED <<staging, target, calls, overtaken, kernel, faults, exists, short, refs,
                     requests, warned, clone, resize, claim, wanted, going, moves>>
    BY DEF Answered
<1>2. /\ calls \in [Nodes -> Seq([op : Ops, pc : Steps])]
      /\ reply \in [Nodes -> {"none", "awaited", "ok", "error"}]
      /\ answer \in [Requesters -> {"none", "awaited", "ok", "error"}]
      /\ requests \in Seq(Requests) /\ n \in Requesters /\ overtaken \subseteq Nodes
      /\ done \in [Nodes -> 0..3] /\ reach \in [Nodes -> 0..3]
      /\ going \in [Nodes -> {"up", "down"}]
    BY Requesting DEF IInv, TypeOK, NodeTypeOK
<1>3. /\ done[n] \in 0..3 /\ reach[n] \in 0..3 /\ done[n] <= reach[n] /\ going[n] \in {"up", "down"}
      /\ StagesFit(n) /\ AttachFits(n) /\ (n \notin overtaken => MountsFit(n) /\ CallsFit(n))
    BY DEF IInv, TypeOK, NodeFits
<1>4. /\ reply'[n] = "none" /\ answer'[n] = "none"
      /\ reply' \in [Nodes -> {"none", "awaited", "ok", "error"}]
      /\ answer' \in [Requesters -> {"none", "awaited", "ok", "error"}]
      /\ \A m \in Nodes \ {n} : reply'[m] = reply[m]
      /\ \A r \in Requesters \ {n} : answer'[r] = answer[r]
    BY <1>1, <1>2
<1>5. /\ done'[n] = IF ok /\ going[n] = "up" THEN done[n] + 1 ELSE done[n]
      /\ reach'[n] = IF ok /\ going[n] = "down" THEN reach[n] - 1 ELSE reach[n]
      /\ \A m \in Nodes \ {n} : done'[m] = done[m] /\ reach'[m] = reach[m]
    BY <1>1, <1>2
<1>6. /\ done[n] < reach[n] /\ (reach[n] >= 2 => done[n] >= 1)
      /\ answer[n] # "none" => done[n] = 0 /\ reach[n] = 1 /\ reply[n] = "none"
      /\ answer[n] = "none" => reach[n] >= 2 /\ (ok => reply[n] = "ok")
    BY <1>1, <1>3 DEF StagesFit
<1>7. /\ done'[n] \in 0..3 /\ reach'[n] \in 0..3 /\ done'[n] <= reach'[n]
      /\ reach'[n] >= 2 => done'[n] >= 1
    BY <1>3, <1>5, <1>6
<1>8. done' \in [Nodes -> 0..3] /\ reach' \in [Nodes -> 0..3]
    BY <1>1, <1>2, <1>5, <1>7
<1>9. StagesFit(n)'
    BY <1>4, <1>7 DEF StagesFit
<1>10. AttachFits(n)'
  <2>1. done'[n] >= 1 => done[n] >= 1 \/ (answer[n] = "ok" /\ going[n] = "up")
      BY <1>3, <1>5, <1>6
  <2> QED BY <1>1, <1>3, <1>4, <2>1 DEF AttachFits
<1>11. ASSUME n \notin overtaken PROVE MountsFit(n)' /\ CallsFit(n)'
  <2>0. MountsFit(n) /\ CallsFit(n)
      BY <1>3, <1>11
  <2>1. CallsFit(n)'
      BY <1>1, <1>4, <2>0 DEF CallsFit
  <2>2. CASE answer[n] # "none" \/ ~ok
    <3>1. (reach'[n] <= 1 <=> reach[n] <= 1) /\ (reach'[n] = 2 <=> reach[n] = 2) /\ done'[n] # 3
        BY <1>3, <1>5, <1>6, <2>2
    <3> QED BY <1>1, <1>3, <2>0, <2>1, <3>1 DEF MountsFit
  <2>3. CASE answer[n] = "none" /\ ok
    <3>1. reply[n] = "ok" /\ reach[n] >= 2
        BY <1>6, <2>3
    <3>2. calls[n] = <<>> /\ Achieved(LastCall(n), staging[n], target[n])
        BY <2>0, <3>1 DEF CallsFit
    <3>3. CASE going[n] = "up"
      <4>1. done'[n] = done[n] + 1 /\ reach'[n] = reach[n]
          BY <1>5, <2>3, <3>3
      <4>2. done'[n] = 3 => LastCall(n) = "publish"
          BY <1>3, <3>3, <4>1 DEF LastCall
      <4>3. done'[n] = 3 => target[n] \in Mounted
          BY <3>2, <4>2 DEF Achieved
      <4> QED BY <1>1, <1>3, <2>0, <2>1, <3>2, <4>1, <4>3 DEF MountsFit
    <3>4. CASE going[n] = "down"
      <4>1. done'[n] = done[n] /\ reach'[n] = reach[n] - 1 /\ done'[n] # 3
          BY <1>3, <1>5, <1>6, <2>3, <3>4
      <4>2. CASE reach[n] = 2
        <5>1. staging[n] # "nfs" /\ target[n] \notin Mounted
            BY <2>0, <3>2, <3>4, <4>2 DEF Achieved, LastCall, MountsFit
        <5> QED BY <1>1, <2>1, <3>2, <4>1, <4>2, <5>1 DEF MountsFit
      <4>3. CASE reach[n] = 3
        <5>1. target[n] \notin Mounted
            BY <3>2, <3>4, <4>3 DEF Achieved, LastCall
        <5> QED BY <1>1, <2>1, <3>2, <4>1, <4>3, <5>1 DEF MountsFit
      <4> QED BY <1>3, <3>1, <4>2, <4>3
    <3> QED BY <1>3, <3>3, <3>4
  <2> QED BY <2>2, <2>3
<1>12. NodeFits(n)'
    BY <1>1, <1>9, <1>10, <1>11 DEF NodeFits
<1> HIDE DEF ok
<1>13. \A m \in Nodes \ {n} : calls'[m] = calls[m] /\ going'[m] = going[m]
    BY <1>1
<1>14. /\ calls' \in [Nodes -> Seq([op : Ops, pc : Steps])] /\ requests' \in Seq(Requests)
       /\ going' \in [Nodes -> {"up", "down"}] /\ overtaken' \subseteq Nodes
    BY <1>1, <1>2
<1> QED BY <1>1, <1>4, <1>5, <1>7, <1>8, <1>12, <1>13, <1>14, MoveKeeps

-----------------------------------------------------------------------------
LEMMA InitIInv == Init => IInv
<1> SUFFICES ASSUME Init PROVE IInv
    OBVIOUS
<1>1. TypeOK
  <2>1. <<>> \in Seq([op : Ops, pc : Steps]) /\ <<>> \in Seq(Requests)
      OBVIOUS
  <2>2. NodeTypeOK
      BY <2>1, FaultsAssumption DEF Init, NodeInit, NodeTypeOK, Paths
  <2>3. /\ answer \in [Requesters -> {"none", "awaited", "ok", "error"}]
        /\ done \in [Nodes -> 0..3] /\ reach \in [Nodes -> 0..3]
        /\ going \in [Nodes -> {"up", "down"}] /\ \A n \in Nodes : done[n] <= reach[n]
      BY DEF Init
  <2>4. moves \in 0..MaxMoves
      BY AttachAssumption DEF Init
  <2>5. requests \in Seq(Requests) /\ refs \subseteq Nodes /\ wanted \subseteq Nodes
      BY <2>1 DEF Init
  <2> QED BY <2>2, <2>3, <2>4, <2>5 DEF Init, TypeOK
<1>2. answer[Volume] = "none" /\ answer[Resizer] = "none" /\ \A n \in Nodes : answer[n] = "none"
    BY Requesting DEF Init
<1>3. SizeFits
    BY <1>2, EmptySent DEF Init, SizeFits, CapacityTold
<1>4. ASSUME NEW n \in Nodes PROVE NodeFits(n)
    BY <1>2, EmptySent DEF Init, NodeInit, NodeFits, StagesFit, AttachFits, MountsFit, CallsFit,
                           Mounted
<1> QED BY <1>1, <1>3, <1>4 DEF IInv

LEMMA NextIInv == IInv /\ [Next]_vars => IInv'
<1> SUFFICES ASSUME IInv, [Next]_vars PROVE IInv'
    OBVIOUS
<1>1. CASE UNCHANGED vars
  <2>1. TypeOK'
      BY <1>1 DEF IInv, TypeOK, NodeTypeOK, vars, node, agent, cluster
  <2>2. SizeFits'
      BY <1>1 DEF IInv, SizeFits, CapacityTold, vars, agent, cluster
  <2>3. ASSUME NEW n \in Nodes PROVE NodeFits(n)'
      BY <1>1, NodeKept DEF IInv, vars, node, agent, cluster
  <2> QED BY <2>1, <2>2, <2>3 DEF IInv
<1>2. CASE \E n \in Nodes : NodeStep(n)
    BY <1>2, StageSteps, PublishSteps DEF NodeStep, Handler
<1>3. CASE \E n \in Nodes : NodeFault(n) \/ Reboot(n)
    BY <1>3, NodeFaults
<1>4. CASE \E n \in Nodes : Up(n) \/ Down(n) \/ Answered(n)
    BY <1>4, UpStep, DownStep, AnsweredStep
<1>5. CASE AgentStep \/ AgentCrash \/ \E r \in Requesters : RequestTimeout(r)
    BY <1>5, ServeSteps, CrashStep, TimeoutStep
<1>6. CASE \/ Reconcile \/ TableLost \/ Provision \/ Reclaim \/ VolumeAnswered
           \/ ClaimDeleted \/ UserExpands \/ Resize \/ Resized
           \/ \E n \in Nodes : PodMoves(n)
    BY <1>6, ClaimSteps
<1>7. CASE Finished
    BY <1>1, <1>7 DEF Finished
<1> QED BY <1>1, <1>2, <1>3, <1>4, <1>5, <1>6, <1>7 DEF Next

(* The inductive invariant: what Kubernetes believes of every node and of  *)
(* the volume fits the queues of the agent and of the node driver, and     *)
(* what both will still do; of the mounts it says nothing on a node where  *)
(* a call was overtaken on its way to the mutex.                           *)
THEOREM AttachInvariant == Spec => []IInv
BY InitIInv, NextIInv, PTL DEF Spec

(* A pod the kubelet considers running has the volume at its target path,  *)
(* whatever NodePublishVolume, NodeUnpublishVolume and their repetitions   *)
(* went through, on every node where the mutex of driver.go served its     *)
(* callers in order: on any number of nodes, for any number of faults.     *)
THEOREM PodsSeeVolume == Spec => []PodSeesVolume
<1>1. IInv => PodSeesVolume
    BY DEF IInv, NodeFits, MountsFit, PodSeesVolume
<1> QED BY <1>1, AttachInvariant, PTL

(* A node that has the volume mounted has an export reference in it, so    *)
(* that the agent's DeleteVolume refuses the volume: attach before stage,  *)
(* detach after unstage, and no late unpublish in the agent's queue; again *)
(* where the node's calls were served in order.                            *)
THEOREM InUseAreReferenced == Spec => []InUseIsReferenced
<1>1. ASSUME IInv, NEW n \in Nodes \ overtaken, staging[n] = "nfs" \/ target[n] \in Mounted
      PROVE  n \in refs /\ exists
  <2>1. StagesFit(n) /\ AttachFits(n) /\ MountsFit(n) /\ reach[n] \in 0..3
      BY <1>1 DEF IInv, NodeFits, TypeOK
  <2>2. reach[n] >= 2
      BY <1>1, <2>1 DEF MountsFit
  <2> QED BY <2>1, <2>2 DEF StagesFit, AttachFits
<1>2. IInv => InUseIsReferenced
    BY <1>1 DEF InUseIsReferenced
<1> QED BY <1>2, AttachInvariant, PTL

(* A claim Kubernetes believes to be as large as asked for is, unless the  *)
(* controller has logged that a clone could not be expanded, through       *)
(* conflicts of CreateVolume, lost answers and requests served late.       *)
THEOREM CapacityIsTold == Spec => []CapacityTold
<1>1. IInv => CapacityTold
    BY DEF IInv, SizeFits
<1> QED BY <1>1, AttachInvariant, PTL
=============================================================================

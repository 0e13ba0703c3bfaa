-------------------------- MODULE PaginationProofs --------------------------
(***************************************************************************)
(* What paginatedList and paginate keep for any number of clients, volumes *)
(* and page snapshots: a listing is sorted and whole, the counter of       *)
(* snapshots is exact, memory is bounded on both sides, and a walk that    *)
(* follows the cursors delivers exactly one listing.                       *)
(***************************************************************************)
EXTENDS Pagination, FiniteSetTheorems, SequenceTheorems, TLAPS

-----------------------------------------------------------------------------
(* Listing: of a finite set of numbers every element has its own place.    *)
LEMMA RankInjective ==
    ASSUME NEW S \in SUBSET Nat, IsFiniteSet(S)
    PROVE  /\ \A v \in S : Rank(S, v) \in 0..(Cardinality(S) - 1)
           /\ \A v, w \in S : v < w => Rank(S, v) < Rank(S, w)
<1> DEFINE Below(v) == {w \in S : w < v}
<1>1. ASSUME NEW v \in S
      PROVE  /\ IsFiniteSet(Below(v)) /\ Cardinality(Below(v)) \in Nat
             /\ Cardinality(Below(v)) < Cardinality(S)
  <2>1. Below(v) \subseteq S \ {v}
      OBVIOUS
  <2>2. IsFiniteSet(S \ {v}) /\ Cardinality(S \ {v}) = Cardinality(S) - 1
      BY FS_RemoveElement
  <2>3. /\ IsFiniteSet(Below(v)) /\ Cardinality(Below(v)) <= Cardinality(S \ {v})
      BY <2>1, <2>2, FS_Subset
  <2> QED BY <2>2, <2>3, FS_CardinalityType
<1>2. ASSUME NEW v \in S, NEW w \in S, v < w
      PROVE  Cardinality(Below(v)) < Cardinality(Below(w))
  <2>1. Below(v) \subseteq Below(w) \ {v} /\ v \in Below(w)
    <3>1. ASSUME NEW x \in S, x < v PROVE x < w /\ x # v
      <4>1. x \in Nat /\ v \in Nat /\ w \in Nat
          OBVIOUS
      <4> QED BY <1>2, <3>1, <4>1
    <3> QED BY <1>2, <3>1
  <2>2. /\ IsFiniteSet(Below(w) \ {v})
        /\ Cardinality(Below(w) \ {v}) = Cardinality(Below(w)) - 1
      BY <1>1, <2>1, FS_RemoveElement
  <2>3. Cardinality(Below(v)) <= Cardinality(Below(w) \ {v})
      BY <2>1, <2>2, FS_Subset
  <2> QED BY <1>1, <2>2, <2>3
<1>3. Cardinality(S) \in Nat
    BY FS_CardinalityType
<1> QED BY <1>1, <1>2, <1>3 DEF Rank

LEMMA RankOnto ==
    ASSUME NEW S \in SUBSET Nat, IsFiniteSet(S), NEW n \in 1..Cardinality(S)
    PROVE  \E v \in S : Rank(S, v) = n - 1
<1> DEFINE places == 0..(Cardinality(S) - 1)
           f == [v \in S |-> Rank(S, v)]
<1>1. Cardinality(S) \in Nat
    BY FS_CardinalityType
<1>2. IsFiniteSet(places) /\ Cardinality(places) = Cardinality(S)
  <2>1. Cardinality(S) - 1 \in Int /\ 0 \in Int
      BY <1>1
  <2>2. /\ IsFiniteSet(places)
        /\ Cardinality(places) = IF 0 > Cardinality(S) - 1 THEN 0
                                 ELSE (Cardinality(S) - 1) - 0 + 1
      BY <2>1, FS_Interval
  <2> QED BY <1>1, <2>2
<1>3. f \in [S -> places]
    BY RankInjective
<1>4. \A v, w \in S : v # w => f[v] # f[w]
  <2> SUFFICES ASSUME NEW v \in S, NEW w \in S, v # w PROVE Rank(S, v) # Rank(S, w)
      OBVIOUS
  <2>1. v < w \/ w < v
      OBVIOUS
  <2> QED BY <2>1, RankInjective
<1>5. f \in Injection(S, places)
    BY <1>3, <1>4 DEF Injection, IsInjective
<1>6. f \in Surjection(S, places)
    BY <1>2, <1>5, FS_Injection
<1>7. n - 1 \in places
    BY <1>1
<1>8. \E v \in S : f[v] = n - 1
    BY <1>6, <1>7 DEF Surjection
<1> QED BY <1>8

(* The listing of the volumes is sorted by name, and has every volume      *)
(* exactly once.                                                           *)
THEOREM ListingIsSorted ==
    ASSUME NEW S \in SUBSET Nat, IsFiniteSet(S)
    PROVE  /\ Listing(S) \in Seq(S) /\ Len(Listing(S)) = Cardinality(S)
           /\ \A m, n \in 1..Len(Listing(S)) : m < n => Listing(S)[m] < Listing(S)[n]
           /\ \A v \in S : \E n \in 1..Len(Listing(S)) : Listing(S)[n] = v
<1> DEFINE l == Listing(S)
<1>1. Cardinality(S) \in Nat
    BY FS_CardinalityType
<1>2. ASSUME NEW n \in 1..Cardinality(S)
      PROVE  l[n] \in S /\ Rank(S, l[n]) = n - 1
    BY RankOnto DEF Listing
<1>3. l \in Seq(S) /\ Len(l) = Cardinality(S) /\ DOMAIN l = 1..Cardinality(S)
    BY <1>1, <1>2 DEF Listing
<1>4. ASSUME NEW m \in 1..Cardinality(S), NEW n \in 1..Cardinality(S), m < n
      PROVE  l[m] < l[n]
  <2>1. /\ l[m] \in S /\ l[n] \in S
        /\ Rank(S, l[m]) = m - 1 /\ Rank(S, l[n]) = n - 1
      BY <1>2
  <2> HIDE DEF l
  <2>2. l[n] < l[m] => Rank(S, l[n]) < Rank(S, l[m])
      BY <2>1, RankInjective
  <2>3. l[m] # l[n] /\ ~(l[n] < l[m])
      BY <1>1, <1>4, <2>1, <2>2
  <2>4. l[m] \in Nat /\ l[n] \in Nat
      BY <2>1
  <2> QED BY <2>3, <2>4
<1>5. ASSUME NEW v \in S
      PROVE  \E n \in 1..Cardinality(S) : l[n] = v
  <2> DEFINE n == Rank(S, v) + 1
  <2>1. n \in 1..Cardinality(S) /\ n - 1 = Rank(S, v)
      BY <1>1, RankInjective
  <2>2. l[n] \in S /\ Rank(S, l[n]) = Rank(S, v)
      BY <1>2, <2>1
  <2> HIDE DEF l, n
  <2>3. /\ l[n] < v => Rank(S, l[n]) < Rank(S, v)
        /\ v < l[n] => Rank(S, v) < Rank(S, l[n])
      BY <2>2, RankInjective
  <2>4. Rank(S, v) \in Int
      BY <1>1, RankInjective
  <2>5. l[n] \in Nat /\ v \in Nat
      BY <2>2
  <2>6. l[n] = v
      BY <2>2, <2>3, <2>4, <2>5
  <2> QED BY <2>1, <2>6
<1> QED BY <1>3, <1>4, <1>5

LEMMA ListingFits ==
    ASSUME NEW S \in SUBSET (1..MaxVolumes)
    PROVE  Listing(S) \in Lists
<1>1. IsFiniteSet(1..MaxVolumes) /\ Cardinality(1..MaxVolumes) = MaxVolumes
    BY Sizes, FS_Interval
<1>2. IsFiniteSet(S) /\ Cardinality(S) <= MaxVolumes
    BY <1>1, FS_Subset
<1>3. Listing(S) \in Seq(S) /\ Len(Listing(S)) = Cardinality(S)
    BY <1>2, ListingIsSorted
<1>4. Listing(S) \in Seq(1..MaxVolumes)
    BY <1>3, SeqMonotonic
<1> QED BY <1>2, <1>3, <1>4 DEF Lists

LEMMA NoItemsFit == <<>> \in Lists
BY Sizes DEF Lists

LEMMA FailedFits == Failed \in Pages /\ Failed.err /\ Failed.next = NoCursor
BY NoItemsFit DEF Failed, Pages, Cursors

LEMMA WholeFits ==
    ASSUME NEW s \in Lists
    PROVE  Whole(s) \in Pages
BY DEF Whole, Pages, Cursors

LEMMA PageFits ==
    ASSUME NEW id \in SnapIds, NEW s \in Lists, NEW offset \in Nat
    PROVE  PageOf(id, s, offset) \in Pages
<1> DEFINE rest == SubSeq(s, offset + 1, Len(s))
<1>1. CASE offset >= Len(s)
    BY <1>1, NoItemsFit, WholeFits DEF PageOf
<1>2. CASE ~(offset >= Len(s))
  <2>1. s \in Seq(1..MaxVolumes) /\ Len(s) \in Nat /\ Len(s) <= MaxVolumes
      BY DEF Lists
  <2>2. rest \in Seq(1..MaxVolumes) /\ Len(rest) = Len(s) - offset
    <3>1. /\ offset + 1 \in Int /\ Len(s) \in Int
          /\ \A i \in offset + 1..Len(s) : s[i] \in 1..MaxVolumes
      <4>1. \A i \in offset + 1..Len(s) : i \in 1..Len(s)
          BY <2>1
      <4>2. \A i \in 1..Len(s) : s[i] \in 1..MaxVolumes
          BY <2>1, LenProperties
      <4> QED BY <2>1, <4>1, <4>2
    <3>2. /\ rest \in Seq(1..MaxVolumes)
          /\ Len(rest) = IF offset + 1 <= Len(s) THEN Len(s) - (offset + 1) + 1 ELSE 0
        BY <2>1, <3>1, SubSeqProperties
    <3> QED BY <1>2, <2>1, <3>2
  <2>3. rest \in Lists
      BY <2>1, <2>2, Sizes DEF Lists
  <2>4. CASE Limit > 0 /\ Len(rest) > Limit
    <3>1. SubSeq(rest, 1, Limit) \in Seq(1..MaxVolumes) /\ Len(SubSeq(rest, 1, Limit)) = Limit
        BY <2>1, <2>2, <2>4, Sizes, SubSeqProperties
    <3>2. SubSeq(rest, 1, Limit) \in Lists
        BY <2>1, <2>2, <2>4, <3>1, Sizes DEF Lists
    <3>3. PageOf(id, s, offset) = [items |-> SubSeq(rest, 1, Limit),
                                   next |-> <<id, offset + Limit>>, err |-> FALSE]
        BY <1>2, <2>4 DEF PageOf
    <3> QED BY <3>2, <3>3, Sizes DEF Pages, Cursors
  <2>5. CASE ~(Limit > 0 /\ Len(rest) > Limit)
    <3>1. PageOf(id, s, offset) = Whole(rest)
        BY <1>2, <2>5 DEF PageOf
    <3> QED BY <2>3, <3>1, WholeFits
  <2> QED BY <2>4, <2>5
<1> QED BY <1>1, <1>2

-----------------------------------------------------------------------------
(* What the answer to a request does: only its client moves, and a         *)
(* producer's bytes grow by at most one page.                              *)
LEMMA RespondSteps ==
    ASSUME Shaped, NEW c \in Clients, NEW p \in Pages, Respond(c, p)
    PROVE  /\ items' \in [Clients -> Lists] /\ page' \in [Clients -> Pages]
           /\ after' \in [Clients -> Cursors] /\ pending' \in [Clients -> Int]
           /\ pc' \in [Clients -> {"idle", "fetch", "wait", "reset", "store", "send", "closed"}]
           /\ pc'[c] \in {"send", "closed", "fetch"}
           /\ \A d \in Clients : d # c => /\ pc'[d] = pc[d] /\ after'[d] = after[d]
                                        /\ pending'[d] = pending[d]
           /\ pending'[c] <= pending[c] + MaxVolumes
<1>1. p.items \in Lists /\ p.next \in Cursors /\ Len(p.items) \in 0..MaxVolumes
    BY Sizes DEF Pages, Lists
<1>2. /\ items' = [items EXCEPT ![c] = <<>>]
      /\ items' \in [Clients -> Lists]
    BY NoItemsFit DEF Shaped, Respond
<1>3. CASE c \in Streamers
  <2>1. /\ page' = [page EXCEPT ![c] = p]
        /\ pending' = [pending EXCEPT ![c] = @ + Len(p.items)]
        /\ pc' = [pc EXCEPT ![c] = "send"] /\ after' = after
      BY <1>3 DEF Respond
  <2> QED BY <1>1, <1>2, <2>1, Sizes DEF Shaped
<1>4. CASE c \notin Streamers
  <2>1. /\ page' = page /\ pending' = pending /\ after' = [after EXCEPT ![c] = p.next]
        /\ pc' = [pc EXCEPT ![c] = IF p.err \/ p.next = NoCursor THEN "closed" ELSE "fetch"]
      BY <1>4 DEF Respond
  <2> QED BY <1>1, <1>2, <2>1, Sizes DEF Shaped
<1> QED BY <1>3, <1>4

-----------------------------------------------------------------------------
(* The four things that can happen to the cap: nothing, ...                *)
LEMMA CapUntouched ==
    ASSUME Shaped, CapKept, UNCHANGED <<snaps, count>>, Storing' \subseteq Storing
    PROVE  CapKept'
<1>1. IsFiniteSet(Storing)
    BY ClientsFinite, FS_Subset DEF Storing
<1>2. Cardinality(Storing') <= Cardinality(Storing)
    BY <1>1, FS_Subset
<1>3. Cardinality(Storing) \in Nat /\ Cardinality(Storing') \in Nat
    BY <1>1, FS_Subset, FS_CardinalityType
<1>4. count \in Nat /\ Cardinality(Clients) \in Nat
    BY ClientsFinite, FS_CardinalityType DEF CapKept, CountExact
<1> QED BY <1>2, <1>3, <1>4, Sizes DEF CapKept, CountExact

(* ... a request finds it not reached, ...                                 *)
LEMMA CapChecked ==
    ASSUME CapKept, UNCHANGED <<snaps, count>>, ~Full
    PROVE  CapKept'
<1>1. Storing' \subseteq Clients
    BY DEF Storing
<1>2. /\ Cardinality(Storing') <= Cardinality(Clients)
      /\ Cardinality(Storing') \in Nat /\ Cardinality(Clients) \in Nat
    BY <1>1, ClientsFinite, FS_Subset, FS_CardinalityType
<1>3. count \in Nat
    BY FS_CardinalityType DEF CapKept, CountExact
<1> QED BY <1>2, <1>3, Sizes DEF CapKept, CountExact, Full

(* ... a request that did stores its snapshot, ...                         *)
LEMMA CapUsed ==
    ASSUME CapKept, NEW c \in Storing, NEW id, id \notin DOMAIN snaps,
           DOMAIN snaps' = DOMAIN snaps \cup {id}, count' = count + 1,
           Storing' \subseteq Storing \ {c}
    PROVE  CapKept'
<1>1. /\ IsFiniteSet(Storing) /\ IsFiniteSet(Storing \ {c})
      /\ Cardinality(Storing \ {c}) = Cardinality(Storing) - 1
  <2>1. IsFiniteSet(Storing)
      BY ClientsFinite, FS_Subset DEF Storing
  <2> QED BY <2>1, FS_RemoveElement
<1>2. Cardinality(Storing') <= Cardinality(Storing) - 1 /\ IsFiniteSet(Storing')
    BY <1>1, FS_Subset
<1>3. /\ IsFiniteSet(DOMAIN snaps')
      /\ Cardinality(DOMAIN snaps') = Cardinality(DOMAIN snaps) + 1
    BY FS_AddElement DEF CapKept
<1>4. /\ count \in Nat /\ Cardinality(Clients) \in Nat
      /\ Cardinality(Storing) \in Nat /\ Cardinality(Storing') \in Nat
    BY <1>1, <1>2, ClientsFinite, FS_CardinalityType DEF CapKept, CountExact
<1> QED BY <1>2, <1>3, <1>4, Sizes DEF CapKept, CountExact

(* ... and a timer fires, for a snapshot that is there or for one that has *)
(* gone before.                                                            *)
LEMMA CapFreed ==
    ASSUME CapKept, NEW id, DOMAIN snaps' = DOMAIN snaps \ {id},
           count' = IF id \in DOMAIN snaps THEN count - 1 ELSE count,
           Storing' = Storing
    PROVE  CapKept'
<1>1. /\ IsFiniteSet(DOMAIN snaps')
      /\ Cardinality(DOMAIN snaps') = IF id \in DOMAIN snaps THEN Cardinality(DOMAIN snaps) - 1
                                      ELSE Cardinality(DOMAIN snaps)
    BY FS_RemoveElement DEF CapKept
<1>2. IsFiniteSet(Storing)
    BY ClientsFinite, FS_Subset DEF Storing
<1>3. /\ count \in Nat /\ Cardinality(Clients) \in Nat /\ Cardinality(Storing) \in Nat
    BY <1>2, ClientsFinite, FS_CardinalityType DEF CapKept, CountExact
<1> QED BY <1>1, <1>3, Sizes DEF CapKept, CountExact

-----------------------------------------------------------------------------
LEMMA InitIInv == Init => IInv
<1> SUFFICES ASSUME Init PROVE IInv
    OBVIOUS
<1>1. NoPage \in Pages
    BY NoItemsFit DEF NoPage, Pages, Cursors
<1>2. Shaped
    BY <1>1, NoItemsFit DEF Init, Shaped, Cursors
<1>3. DOMAIN snaps = {} /\ Storing = {}
    BY DEF Init, Storing
<1>4. CapKept
    BY <1>3, ClientsFinite, FS_EmptySet, FS_CardinalityType, Sizes
       DEF Init, CapKept, CountExact
<1>5. BudgetKept \/ ~(MaxBytes > 0)
    BY Sizes DEF Init, BudgetKept, Clients
<1> QED BY <1>2, <1>4, <1>5 DEF IInv

(* A step that neither stores nor lets a request pass a check.             *)
Quiet == /\ UNCHANGED <<snaps, count>>
         /\ \A c \in Clients : /\ pc'[c] \in {"reset", "store"} => pc'[c] = pc[c]
                               /\ pending'[c] <= pending[c] \/ pending'[c] = 0

LEMMA QuietSteps ==
    ASSUME IInv, Shaped', Quiet
    PROVE  IInv'
<1>1. Storing' \subseteq Storing
    BY DEF Quiet, Storing
<1>2. CapKept'
    BY <1>1, CapUntouched DEF IInv, Quiet
<1>3. ASSUME BudgetKept, MaxBytes > 0
      PROVE  BudgetKept'
  <2> SUFFICES ASSUME NEW c \in Streamers
               PROVE  /\ pending'[c] <= MaxBytes - 1 + MaxVolumes
                      /\ pc'[c] \in {"reset", "store"} => pending'[c] < MaxBytes
      BY DEF BudgetKept
  <2>1. c \in Clients
      BY DEF Clients
  <2>2. /\ pc'[c] \in {"reset", "store"} => pc'[c] = pc[c]
        /\ pending'[c] <= pending[c] \/ pending'[c] = 0
        /\ pending[c] \in Int /\ pending'[c] \in Int
      BY <2>1 DEF Quiet, IInv, Shaped
  <2>3. /\ pending[c] <= MaxBytes - 1 + MaxVolumes
        /\ pc[c] \in {"reset", "store"} => pending[c] < MaxBytes
      BY <1>3 DEF BudgetKept
  <2> QED BY <1>3, <2>2, <2>3, Sizes
<1> QED BY <1>2, <1>3 DEF IInv

(* A walk starts, waits for its budget, is cancelled or ends.              *)
LEMMA WalkSteps ==
    ASSUME IInv, NEW c \in Clients,
           StartWalk(c) \/ AwaitBudget(c) \/ Cancel(c) \/ EndWalk(c)
    PROVE  IInv'
<1>1. CASE StartWalk(c) \/ AwaitBudget(c)
  <2>1. Shaped'
      BY <1>1 DEF IInv, Shaped, StartWalk, AwaitBudget, server, Cursors
  <2>2. Quiet
      BY <1>1 DEF IInv, Shaped, Quiet, StartWalk, AwaitBudget, server
  <2> QED BY <2>1, <2>2, QuietSteps
<1>2. CASE Cancel(c)
    BY <1>2, QuietSteps DEF IInv, Shaped, Quiet, Cancel, server, pipe, bounds
<1>3. CASE EndWalk(c)
  <2>1. Shaped'
      BY <1>3 DEF IInv, Shaped, EndWalk, server, Cursors
  <2>2. Quiet
      BY <1>3 DEF IInv, Shaped, Quiet, EndWalk, server
  <2> QED BY <2>1, <2>2, QuietSteps
<1> QED BY <1>1, <1>2, <1>3

(* The producer sends its page or gives up.                                *)
LEMMA ProducerSteps ==
    ASSUME IInv, NEW c \in Clients, Send(c) \/ StopProducer(c)
    PROVE  IInv'
<1>1. NoPage \in Pages /\ NoCursor \in Cursors
    BY NoItemsFit DEF NoPage, Pages, Cursors
<1>2. page[c] \in Pages /\ page[c].next \in Cursors
    BY DEF IInv, Shaped, Pages
<1>3. CASE Send(c)
  <2>1. chan' \in [Clients -> Seq(Pages)]
    <3>1. chan[c] \in Seq(Pages) /\ chan' = [chan EXCEPT ![c] = Append(chan[c], page[c])]
        BY <1>3 DEF IInv, Shaped, Send
    <3>2. Append(chan[c], page[c]) \in Seq(Pages)
        BY <1>2, <3>1
    <3> QED BY <3>1, <3>2 DEF IInv, Shaped
  <2>2. Shaped'
      BY <1>1, <1>2, <1>3, <2>1 DEF IInv, Shaped, Send, server
  <2>3. Quiet
      BY <1>3 DEF IInv, Shaped, Quiet, Send, server
  <2> QED BY <2>2, <2>3, QuietSteps
<1>4. CASE StopProducer(c)
  <2>1. Shaped'
      BY <1>1, <1>4 DEF IInv, Shaped, StopProducer, server, pipe
  <2>2. Quiet
      BY <1>4 DEF IInv, Shaped, Quiet, StopProducer, server, pipe
  <2> QED BY <2>1, <2>2, QuietSteps
<1> QED BY <1>3, <1>4

(* The consumer takes a page, gives its bytes back, or returns.            *)
LEMMA ConsumerSteps ==
    ASSUME IInv, NEW c \in Clients, Consumer(c)
    PROVE  IInv'
<1>1. CASE Receive(c)
  <2>1. Head(chan[c]) \in Pages /\ Tail(chan[c]) \in Seq(Pages)
    <3>1. chan[c] \in Seq(Pages) /\ chan[c] # <<>>
        BY <1>1 DEF IInv, Shaped, Receive
    <3> QED BY <3>1, HeadTailProperties
  <2>2. Len(Head(chan[c]).items) \in Nat
      BY <2>1 DEF Pages, Lists
  <2>3. chan' \in [Clients -> Seq(Pages)]
      BY <1>1, <2>1 DEF IInv, Shaped, Receive
  <2>4. taken' \in [Clients -> Nat]
      BY <1>1, <2>2 DEF IInv, Shaped, Receive
  <2>5. Shaped' /\ Quiet
      BY <1>1, <2>3, <2>4 DEF IInv, Shaped, Quiet, Receive, server
  <2> QED BY <2>5, QuietSteps
<1>2. CASE GiveBack(c)
  <2>1. UNCHANGED <<volumes, snaps, count, items, page, chan, after, pc>>
      BY <1>2 DEF GiveBack, server
  <2>2. \/ UNCHANGED <<pending, taken>>
        \/ pending' = [pending EXCEPT ![c] = @ - taken[c]] /\ taken' = [taken EXCEPT ![c] = 0]
      BY <1>2 DEF GiveBack, Deduct, Signal
  <2>3. pending[c] \in Int /\ taken[c] \in Nat /\ pending[c] - taken[c] <= pending[c]
      BY DEF IInv, Shaped
  <2>4. Shaped'
      BY <2>1, <2>2, <2>3 DEF IInv, Shaped
  <2>5. \A d \in Clients : pending'[d] <= pending[d]
    <3> SUFFICES ASSUME NEW d \in Clients PROVE pending'[d] <= pending[d]
        OBVIOUS
    <3>1. /\ pending \in [Clients -> Int]
          /\ \/ pending'[d] = pending[d]
             \/ d = c /\ pending'[d] = pending[c] - taken[c]
        BY <2>2 DEF IInv, Shaped
    <3>2. pending[d] \in Int
        BY <3>1
    <3> QED BY <2>3, <3>1, <3>2
  <2>6. Quiet
      BY <2>1, <2>5 DEF Quiet
  <2> QED BY <2>4, <2>6, QuietSteps
<1>3. CASE Drained(c)
    BY <1>3, QuietSteps DEF IInv, Shaped, Quiet, Drained, server, bounds
<1> QED BY <1>1, <1>2, <1>3 DEF Consumer

-----------------------------------------------------------------------------
(* The answer p to a request for which there was budget.                   *)
LEMMA AnswerSteps ==
    ASSUME IInv, NEW c \in Clients, NEW p \in Pages, Respond(c, p),
           UNCHANGED <<volumes, chan, taken>>,
           DOMAIN snaps' \subseteq SnapIds, \A id \in DOMAIN snaps' : snaps'[id] \in Lists,
           MaxBytes > 0 /\ c \in Streamers => pending[c] < MaxBytes,
           CapKept'
    PROVE  IInv'
<1>1. Shaped'
    BY RespondSteps DEF IInv, Shaped
<1>2. ASSUME BudgetKept, MaxBytes > 0
      PROVE  BudgetKept'
  <2> SUFFICES ASSUME NEW d \in Streamers
               PROVE  /\ pending'[d] <= MaxBytes - 1 + MaxVolumes
                      /\ pc'[d] \in {"reset", "store"} => pending'[d] < MaxBytes
      BY DEF BudgetKept
  <2>1. d \in Clients
      BY DEF Clients
  <2>2. CASE d = c
    <3>1. /\ pending'[c] <= pending[c] + MaxVolumes /\ pc'[c] \in {"send", "closed", "fetch"}
          /\ pending'[c] \in Int /\ pending[c] \in Int
        BY RespondSteps DEF IInv, Shaped
    <3> QED BY <1>2, <2>2, <3>1, Sizes
  <2>3. CASE d # c
      BY <1>2, <2>1, <2>3, RespondSteps DEF BudgetKept, IInv
  <2> QED BY <2>2, <2>3
<1> QED BY <1>1, <1>2 DEF IInv
LEMMA RequestSteps ==
    ASSUME IInv, NEW c \in Clients, Fetch(c) \/ FetchFails(c)
    PROVE  IInv'
<1>1. /\ UNCHANGED <<volumes, snaps, count, chan, taken>>
      /\ pc[c] = "fetch" /\ ~OverBudget(c)
    BY DEF Fetch, FetchFails, server
<1>2. MaxBytes > 0 /\ c \in Streamers => pending[c] < MaxBytes
    BY <1>1, Sizes DEF OverBudget, IInv, Shaped
<1>3. DOMAIN snaps' \subseteq SnapIds /\ \A id \in DOMAIN snaps' : snaps'[id] \in Lists
    BY <1>1 DEF IInv, Shaped
<1>4. ASSUME NEW p \in Pages, Respond(c, p) PROVE IInv'
  <2>1. Storing' \subseteq Storing
      BY <1>4, RespondSteps DEF Storing, IInv
  <2>2. CapKept'
      BY <1>1, <2>1, CapUntouched DEF IInv
  <2> QED BY <1>1, <1>2, <1>3, <1>4, <2>2, AnswerSteps
<1>5. ASSUME NEW s \in Lists, NEW to \in {"reset", "store"},
             items' = [items EXCEPT ![c] = s], pc' = [pc EXCEPT ![c] = to],
             UNCHANGED <<after, page, pending>>,
             to = "reset" => after[c] # NoCursor, to = "store" => ~Full
      PROVE  IInv'
  <2>1. Shaped'
      BY <1>1, <1>5 DEF IInv, Shaped
  <2>2. CapKept'
    <3>1. CASE to = "store"
        BY <1>1, <1>5, <3>1, CapChecked DEF IInv
    <3>2. CASE to = "reset"
      <4>1. Storing' \subseteq Storing
          BY <1>5, <3>2 DEF Storing, IInv, Shaped
      <4> QED BY <1>1, <4>1, CapUntouched DEF IInv
    <3> QED BY <3>1, <3>2
  <2>3. ASSUME BudgetKept, MaxBytes > 0 PROVE BudgetKept'
    <3>1. Streamers \subseteq Clients
        BY DEF Clients
    <3> QED BY <1>2, <1>5, <2>3, <3>1 DEF BudgetKept, IInv, Shaped
  <2> QED BY <2>1, <2>2, <2>3 DEF IInv
<1>6. CASE FetchFails(c)
    BY <1>4, <1>6, FailedFits DEF FetchFails
<1>7. CASE Fetch(c)
  <2> DEFINE all == Listing(volumes)
  <2>1. all \in Lists
      BY ListingFits DEF IInv, Shaped
  <2> HIDE DEF all
  <2>2. CASE /\ Loaded(c) /\ items' = [items EXCEPT ![c] = snaps[after[c][1]]]
             /\ pc' = [pc EXCEPT ![c] = "reset"] /\ UNCHANGED <<after, page, pending>>
    <3>1. snaps[after[c][1]] \in Lists /\ after[c] # NoCursor
        BY <2>2 DEF Loaded, IInv, Shaped
    <3> QED BY <1>5, <2>2, <3>1
  <2>3. CASE Respond(c, Whole(all))
      BY <1>4, <2>1, <2>3, WholeFits
  <2>4. CASE /\ ~Full /\ items' = [items EXCEPT ![c] = all]
             /\ pc' = [pc EXCEPT ![c] = "store"] /\ UNCHANGED <<after, page, pending>>
      BY <1>5, <2>1, <2>4
  <2> QED BY <1>7, <2>2, <2>3, <2>4 DEF Fetch, all
<1> QED BY <1>6, <1>7

LEMMA ResetSteps ==
    ASSUME IInv, NEW c \in Clients, ResetTimer(c)
    PROVE  IInv'
<1>1. /\ UNCHANGED <<volumes, snaps, count, chan, taken>> /\ pc[c] = "reset"
      /\ Answer(c, PageOf(after[c][1], items[c], after[c][2]))
    BY DEF ResetTimer
<1>2. after[c] \in SnapIds \X Nat /\ items[c] \in Lists
    BY <1>1 DEF IInv, Shaped, Cursors
<1>3. PICK p \in Pages : Respond(c, p)
    BY <1>1, <1>2, PageFits, FailedFits DEF Answer
<1>4. DOMAIN snaps' \subseteq SnapIds /\ \A id \in DOMAIN snaps' : snaps'[id] \in Lists
    BY <1>1 DEF IInv, Shaped
<1>5. MaxBytes > 0 /\ c \in Streamers => pending[c] < MaxBytes
    BY <1>1 DEF IInv, BudgetKept
<1>6. Storing' \subseteq Storing
    BY <1>1, <1>3, RespondSteps DEF Storing, IInv
<1>7. CapKept'
    BY <1>1, <1>6, CapUntouched DEF IInv
<1> QED BY <1>1, <1>3, <1>4, <1>5, <1>7, AnswerSteps

LEMMA StoreSteps ==
    ASSUME IInv, NEW c \in Clients, StoreSnapshot(c)
    PROVE  IInv'
<1> DEFINE id == CHOOSE i \in SnapIds : Fresh(i)
<1>1. id \in SnapIds /\ id \notin DOMAIN snaps
    BY DEF StoreSnapshot, Fresh
<1>2. /\ snaps' = [i \in DOMAIN snaps \cup {id} |-> IF i = id THEN items[c] ELSE snaps[i]]
      /\ count' = count + 1 /\ Answer(c, PageOf(id, items[c], 0))
      /\ UNCHANGED <<volumes, chan, taken>> /\ pc[c] = "store"
    BY DEF StoreSnapshot
<1> HIDE DEF id
<1>3. items[c] \in Lists
    BY DEF IInv, Shaped
<1>4. PICK p \in Pages : Respond(c, p)
    BY <1>1, <1>2, <1>3, PageFits, FailedFits DEF Answer
<1>5. DOMAIN snaps' \subseteq SnapIds /\ \A i \in DOMAIN snaps' : snaps'[i] \in Lists
    BY <1>1, <1>2, <1>3 DEF IInv, Shaped
<1>6. MaxBytes > 0 /\ c \in Streamers => pending[c] < MaxBytes
    BY <1>2 DEF IInv, BudgetKept
<1>7. c \in Storing /\ Storing' \subseteq Storing \ {c}
    BY <1>2, <1>4, RespondSteps DEF Storing, IInv
<1>8. DOMAIN snaps' = DOMAIN snaps \cup {id}
    BY <1>2
<1>9. CapKept'
    BY <1>1, <1>2, <1>7, <1>8, CapUsed DEF IInv
<1> QED BY <1>2, <1>4, <1>5, <1>6, <1>9, AnswerSteps

LEMMA ExpireSteps ==
    ASSUME IInv, NEW id \in SnapIds, Expire(id)
    PROVE  IInv'
<1>1. /\ snaps' = [i \in DOMAIN snaps \ {id} |-> snaps[i]]
      /\ count' = IF id \in DOMAIN snaps THEN count - 1 ELSE count
      /\ UNCHANGED <<volumes, pc, after, items, page, pipe>>
    BY DEF Expire
<1>2. Shaped'
    BY <1>1 DEF IInv, Shaped, pipe
<1>3. DOMAIN snaps' = DOMAIN snaps \ {id} /\ Storing' = Storing
    BY <1>1 DEF Storing
<1>4. CapKept'
    BY <1>1, <1>3, CapFreed DEF IInv
<1>5. BudgetKept => BudgetKept'
    BY <1>1 DEF BudgetKept, pipe
<1> QED BY <1>2, <1>4, <1>5 DEF IInv

LEMMA NextIInv == IInv /\ [Next]_vars => IInv'
<1> SUFFICES ASSUME IInv, [Next]_vars PROVE IInv'
    OBVIOUS
<1>1. CASE UNCHANGED vars
  <2>1. Shaped'
      BY <1>1 DEF vars, server, pipe, IInv, Shaped
  <2>2. Quiet
      BY <1>1 DEF vars, server, pipe, IInv, Shaped, Quiet
  <2> QED BY <2>1, <2>2, QuietSteps
<1>2. ASSUME NEW v \in 1..MaxVolumes, Change(v) PROVE IInv'
  <2>1. Shaped'
      BY <1>2 DEF IInv, Shaped, Change, pipe
  <2>2. Quiet
      BY <1>2 DEF IInv, Shaped, Quiet, Change, pipe
  <2> QED BY <2>1, <2>2, QuietSteps
<1>3. ASSUME NEW c \in Clients, StartWalk(c) \/ Step(c) \/ Consumer(c) \/ Cancel(c) PROVE IInv'
    BY <1>3, WalkSteps, ProducerSteps, ConsumerSteps, RequestSteps, ResetSteps, StoreSteps
       DEF Step
<1> QED BY <1>1, <1>2, <1>3, ExpireSteps DEF Next

-----------------------------------------------------------------------------
(* The inductive invariant of listing.                                     *)
THEOREM ListingInvariant == Spec => []IInv
<1>1. Init => IInv
    BY InitIInv
<1>2. IInv /\ [Next]_vars => IInv'
    BY NextIInv
<1> QED BY <1>1, <1>2, PTL DEF Spec

(* snapshotCount is the number of stored snapshots at every moment, for    *)
(* every order of requests and timers.                                     *)
THEOREM SnapshotsCounted == Spec => []CountExact
<1>1. IInv => CountExact
    BY DEF IInv, CapKept
<1> QED BY <1>1, ListingInvariant, PTL

(* With a budget, the stored snapshots exceed the cap by less than the     *)
(* number of clients, and a stream's pages its budget by less than a page. *)
THEOREM MemoryIsBounded ==
    ASSUME MaxBytes > 0
    PROVE  Spec => []MemoryBounded
<1>1. IInv => MemoryBounded
  <2> SUFFICES ASSUME IInv PROVE MemoryBounded
      OBVIOUS
  <2>1. IsFiniteSet(Storing)
      BY ClientsFinite, FS_Subset DEF Storing
  <2>2. /\ Cardinality(Storing) \in Nat /\ Cardinality(Clients) \in Nat
        /\ Cardinality(DOMAIN snaps) \in Nat
      BY <2>1, ClientsFinite, FS_CardinalityType DEF IInv, CapKept
  <2>3. Cardinality(DOMAIN snaps) <= MaxSnapshots + Cardinality(Clients) - 1
      BY <2>2, Sizes DEF IInv, CapKept, CountExact
  <2> QED BY <2>3 DEF IInv, BudgetKept, MemoryBounded
<1> QED BY <1>1, ListingInvariant, PTL

-----------------------------------------------------------------------------
(* What a walk delivers.  The pages of a queue q, put after s, make t: g   *)
(* has the sums on the way.                                                *)
Items == Seq(1..MaxVolumes)

Joins(s, q, t) ==
    \E g \in [0..Len(q) -> Items] :
        /\ g[0] = s /\ g[Len(q)] = t
        /\ \A i \in 1..Len(q) : g[i] = g[i - 1] \o q[i].items

LEMMA ItemsOf == /\ Lists \subseteq Items /\ <<>> \in Items
                 /\ \A p \in Pages : p.items \in Items
                 /\ \A s, t \in Items : s \o t \in Items
<1>1. \A s, t \in Items : s \o t \in Items
    BY ConcatProperties DEF Items
<1> QED BY <1>1 DEF Items, Lists, Pages

LEMMA ItemsAssociate ==
    ASSUME NEW s \in Items, NEW t \in Items, NEW u \in Items
    PROVE  (s \o t) \o u = s \o (t \o u)
BY ConcatAssociative DEF Items

LEMMA JoinsNothing ==
    /\ \A s \in Items : Joins(s, <<>>, s)
    /\ \A s, t : Joins(s, <<>>, t) => t = s
<1>1. ASSUME NEW s \in Items PROVE Joins(s, <<>>, s)
  <2> DEFINE g == [i \in 0..Len(<<>>) |-> s]
  <2>1. g \in [0..Len(<<>>) -> Items] /\ g[0] = s /\ g[Len(<<>>)] = s
      OBVIOUS
  <2>2. \A i \in 1..Len(<<>>) : g[i] = g[i - 1] \o <<>>[i].items
      OBVIOUS
  <2> QED BY <2>1, <2>2 DEF Joins
<1>2. ASSUME NEW s, NEW t, Joins(s, <<>>, t) PROVE t = s
    BY <1>2 DEF Joins
<1> QED BY <1>1, <1>2

(* One more page at the end, and one less at the front.                    *)
LEMMA JoinsOneMore ==
    ASSUME NEW q \in Seq(Pages), NEW p \in Pages, NEW s, NEW t, Joins(s, q, t)
    PROVE  Joins(s, Append(q, p), t \o p.items)
<1>1. PICK g \in [0..Len(q) -> Items] :
          /\ g[0] = s /\ g[Len(q)] = t
          /\ \A i \in 1..Len(q) : g[i] = g[i - 1] \o q[i].items
    BY DEF Joins
<1>2. /\ Len(q) \in Nat /\ Len(Append(q, p)) = Len(q) + 1 /\ Append(q, p)[Len(q) + 1] = p
      /\ \A i \in 1..Len(q) : Append(q, p)[i] = q[i]
    BY AppendProperties
<1>3. t \in Items /\ t \o p.items \in Items
    BY <1>1, <1>2, ItemsOf
<1> DEFINE h == [i \in 0..Len(q) + 1 |-> IF i <= Len(q) THEN g[i] ELSE t \o p.items]
<1>4. h \in [0..Len(q) + 1 -> Items] /\ h[0] = s /\ h[Len(q) + 1] = t \o p.items
  <2>1. ASSUME NEW i \in 0..Len(q) + 1 PROVE (IF i <= Len(q) THEN g[i] ELSE t \o p.items) \in Items
    <3>1. i <= Len(q) => i \in 0..Len(q)
        BY <1>2
    <3> QED BY <1>1, <1>3, <3>1
  <2> QED BY <1>1, <1>2, <2>1
<1>5. ASSUME NEW i \in 1..Len(q) + 1 PROVE h[i] = h[i - 1] \o Append(q, p)[i].items
  <2>1. CASE i <= Len(q)
    <3>1. i \in 1..Len(q) /\ i - 1 \in 0..Len(q) + 1 /\ i - 1 <= Len(q)
        BY <1>2, <2>1
    <3>2. h[i] = g[i] /\ h[i - 1] = g[i - 1]
        BY <1>2, <3>1
    <3> QED BY <1>1, <1>2, <3>1, <3>2
  <2>2. CASE i = Len(q) + 1
    <3>1. i - 1 = Len(q) /\ Len(q) \in 0..Len(q) + 1 /\ ~(i <= Len(q))
        BY <1>2, <2>2
    <3>2. h[i] = t \o p.items /\ h[i - 1] = t
        BY <1>1, <1>2, <3>1
    <3> QED BY <1>2, <2>2, <3>2
  <2>3. i <= Len(q) \/ i = Len(q) + 1
      BY <1>2
  <2> QED BY <2>1, <2>2, <2>3
<1> HIDE DEF h
<1> QED BY <1>2, <1>4, <1>5 DEF Joins

LEMMA JoinsOneLess ==
    ASSUME NEW q \in Seq(Pages), q # <<>>, NEW s, NEW t, Joins(s, q, t)
    PROVE  Joins(s \o Head(q).items, Tail(q), t)
<1>1. PICK g \in [0..Len(q) -> Items] :
          /\ g[0] = s /\ g[Len(q)] = t
          /\ \A i \in 1..Len(q) : g[i] = g[i - 1] \o q[i].items
    BY DEF Joins
<1>2. /\ Len(q) \in Nat \ {0} /\ Len(Tail(q)) = Len(q) - 1 /\ Head(q) = q[1]
      /\ \A i \in 1..Len(q) - 1 : Tail(q)[i] = q[i + 1]
  <2>1. /\ Len(Tail(q)) = Len(q) - 1
        /\ \A i \in 1..Len(Tail(q)) : Tail(q)[i] = q[i + 1]
      BY HeadTailProperties
  <2>2. Len(q) \in Nat \ {0} /\ Head(q) = q[1]
      BY EmptySeq, LenProperties
  <2> QED BY <2>1, <2>2
<1> DEFINE h == [i \in 0..Len(q) - 1 |-> g[i + 1]]
<1>3. h \in [0..Len(q) - 1 -> Items] /\ h[Len(q) - 1] = t /\ h[0] = s \o q[1].items
  <2>1. ASSUME NEW i \in 0..Len(q) - 1 PROVE g[i + 1] \in Items
    <3>1. i + 1 \in 0..Len(q)
        BY <1>2
    <3> QED BY <1>1, <3>1
  <2>2. h \in [0..Len(q) - 1 -> Items]
      BY <2>1
  <2>3. /\ Len(q) - 1 \in 0..Len(q) - 1 /\ (Len(q) - 1) + 1 = Len(q) /\ 0 \in 0..Len(q) - 1
        /\ 0 + 1 = 1 /\ 1 - 1 = 0 /\ 1 \in 1..Len(q)
      BY <1>2
  <2>4. h[Len(q) - 1] = g[Len(q)] /\ h[0] = g[1]
      BY <2>3
  <2>5. g[1] = g[0] \o q[1].items
      BY <1>1, <2>3
  <2> QED BY <1>1, <2>2, <2>4, <2>5
<1>4. ASSUME NEW i \in 1..Len(q) - 1 PROVE h[i] = h[i - 1] \o Tail(q)[i].items
  <2>1. /\ i \in 0..Len(q) - 1 /\ i - 1 \in 0..Len(q) - 1 /\ i + 1 \in 1..Len(q)
        /\ (i - 1) + 1 = i /\ (i + 1) - 1 = i
      BY <1>2
  <2>2. h[i] = g[i + 1] /\ h[i - 1] = g[i]
      BY <2>1
  <2>3. g[i + 1] = g[i] \o q[i + 1].items
      BY <1>1, <2>1
  <2> QED BY <1>2, <2>2, <2>3
<1> HIDE DEF h
<1> QED BY <1>2, <1>3, <1>4 DEF Joins

(* What comes last is a suffix.                                            *)
LEMMA SuffixOf ==
    ASSUME NEW u \in Items, NEW l \in Items
    PROVE  IsSuffix(l, u \o l)
<1> DEFINE S == 1..MaxVolumes
           t == u \o l
           a == Len(u)
           b == Len(l)
<1>1. /\ a \in Nat /\ b \in Nat /\ Len(t) = a + b /\ t \in Seq(S)
      /\ \A i \in 1..(a + b) : t[i] = IF i <= a THEN u[i] ELSE l[i - a]
    BY ConcatProperties DEF Items
<1>2. \A i \in 1..(a + b) : t[i] \in S
    BY <1>1, LenProperties
<1>3. \A i \in 1..b : l[i] \in S
    BY LenProperties DEF Items
<1> HIDE DEF S, t, a, b
<1>4. Reverse(l) = [i \in 1..b |-> l[(b - i) + 1]]
    BY DEF Reverse, b
<1>5. Reverse(t) = [i \in 1..(a + b) |-> t[((a + b) - i) + 1]]
    BY <1>1 DEF Reverse
<1>6. Reverse(l) \in Seq(S) /\ Len(Reverse(l)) = b
  <2>1. \A i \in 1..b : l[(b - i) + 1] \in S
    <3>1. \A i \in 1..b : (b - i) + 1 \in 1..b
        BY <1>1
    <3> QED BY <1>3, <3>1
  <2> QED BY <1>1, <1>4, <2>1
<1>7. Reverse(t) \in Seq(S) /\ Len(Reverse(t)) = a + b
  <2>1. \A i \in 1..(a + b) : t[((a + b) - i) + 1] \in S
    <3>1. \A i \in 1..(a + b) : ((a + b) - i) + 1 \in 1..(a + b)
        BY <1>1
    <3> QED BY <1>2, <3>1
  <2>2. a + b \in Nat
      BY <1>1
  <2> QED BY <1>5, <2>1, <2>2
<1>8. ASSUME NEW i \in 1..b PROVE Reverse(t)[i] = Reverse(l)[i]
  <2>1. /\ i \in 1..(a + b) /\ ((a + b) - i) + 1 \in 1..(a + b) /\ ~(((a + b) - i) + 1 <= a)
        /\ (((a + b) - i) + 1) - a = (b - i) + 1
      BY <1>1
  <2>2. Reverse(t)[i] = t[((a + b) - i) + 1] /\ Reverse(l)[i] = l[(b - i) + 1]
      BY <1>4, <1>5, <2>1
  <2> QED BY <1>1, <2>1, <2>2
<1>9. SubSeq(Reverse(l), 1, b) = Reverse(l)
    BY <1>6, SubSeqFull
<1>10. /\ SubSeq(Reverse(t), 1, b) \in Seq(S) /\ Len(SubSeq(Reverse(t), 1, b)) = b
       /\ \A i \in 1..b : SubSeq(Reverse(t), 1, b)[i] = Reverse(t)[i]
  <2>1. \A i \in 1..b : Reverse(t)[i] \in S
    <3>1. \A i \in 1..b : i \in 1..(a + b)
        BY <1>1
    <3> QED BY <1>7, <3>1, LenProperties
  <2>2. 1 \in Int /\ b \in Int /\ (IF 1 <= b THEN b - 1 + 1 ELSE 0) = b /\ b - 1 + 1 = b
      BY <1>1
  <2>3. /\ SubSeq(Reverse(t), 1, b) \in Seq(S)
        /\ Len(SubSeq(Reverse(t), 1, b)) = IF 1 <= b THEN b - 1 + 1 ELSE 0
        /\ \A i \in 1..b - 1 + 1 : SubSeq(Reverse(t), 1, b)[i] = Reverse(t)[1 + i - 1]
      BY <2>1, <2>2, SubSeqProperties
  <2>4. \A i \in 1..b : 1 + i - 1 = i
      BY <1>1
  <2> QED BY <2>2, <2>3, <2>4
<1>11. SubSeq(Reverse(t), 1, b) = Reverse(l)
    BY <1>6, <1>8, <1>10, SeqEqual
<1>12. IsPrefix(Reverse(l), Reverse(t))
    BY <1>1, <1>6, <1>7, <1>9, <1>11 DEF IsPrefix
<1> QED BY <1>12 DEF IsSuffix, t

(* A page takes what has been delivered of a listing to its own end.       *)
Continues(u, id, s, offset, p) ==
    /\ ~p.err
    /\ \/ /\ p.next = NoCursor
          /\ (u \o SubSeq(s, 1, offset)) \o p.items = u \o s
       \/ /\ p.next = <<id, offset + Limit>> /\ offset + Limit \in 0..Len(s)
          /\ (u \o SubSeq(s, 1, offset)) \o p.items = u \o SubSeq(s, 1, offset + Limit)

LEMMA PageContinues ==
    ASSUME NEW id \in SnapIds, NEW s \in Lists, NEW offset \in 0..Len(s), NEW u \in Items,
           NEW p, p = PageOf(id, s, offset)
    PROVE  Continues(u, id, s, offset, p)
<1> DEFINE rest == SubSeq(s, offset + 1, Len(s))
           start == SubSeq(s, 1, offset)
<1>1. s \in Items /\ Len(s) \in Nat /\ offset \in Nat
    BY DEF Lists, Items
<1>2. ASSUME NEW m \in 1..Len(s) + 1, NEW n \in 0..Len(s) PROVE SubSeq(s, m, n) \in Items
  <2>1. \A i \in m..n : s[i] \in 1..MaxVolumes
    <3>1. \A i \in m..n : i \in 1..Len(s)
        BY <1>1
    <3> QED BY <1>1, <3>1, LenProperties DEF Items
  <2>2. m \in Int /\ n \in Int
      BY <1>1
  <2> QED BY <2>1, <2>2, SubSeqProperties DEF Items
<1>3. start \in Items /\ rest \in Items
    BY <1>1, <1>2
<1>4. ASSUME NEW n \in offset..Len(s)
      PROVE  (u \o start) \o SubSeq(s, offset + 1, n) = u \o SubSeq(s, 1, n)
  <2>1. SubSeq(s, 1, offset) \o SubSeq(s, offset + 1, n) = SubSeq(s, 1, n)
    <3>1. 1 \in 1..Len(s) + 1 /\ offset \in 1 - 1..Len(s)
        BY <1>1
    <3> QED BY <1>1, <3>1, ConcatAdjacentSubSeq DEF Items
  <2>2. SubSeq(s, offset + 1, n) \in Items
    <3>1. offset + 1 \in 1..Len(s) + 1 /\ n \in 0..Len(s)
        BY <1>1
    <3> QED BY <1>2, <3>1
  <2> HIDE DEF start
  <2>3. (u \o start) \o SubSeq(s, offset + 1, n) = u \o (start \o SubSeq(s, offset + 1, n))
      BY <1>3, <2>2, ItemsAssociate
  <2> QED BY <2>1, <2>3 DEF start
<1>5. SubSeq(s, 1, Len(s)) = s
    BY <1>1, SubSeqFull DEF Items
<1>6. (u \o start) \o rest = u \o s
  <2>1. Len(s) \in offset..Len(s)
      BY <1>1
  <2> QED BY <1>4, <1>5, <2>1
<1>7. CASE offset >= Len(s)
  <2>1. p = Whole(<<>>)
      BY <1>7 DEF PageOf
  <2>2. rest = <<>>
      BY <1>1, <1>7, SubSeqEmpty
  <2> HIDE DEF rest
  <2>3. ~p.err /\ p.next = NoCursor /\ p.items = rest
      BY <2>1, <2>2 DEF Whole
  <2> QED BY <1>6, <2>3 DEF Continues
<1>8. CASE ~(offset >= Len(s)) /\ ~(Limit > 0 /\ Len(rest) > Limit)
  <2>1. p = Whole(rest)
      BY <1>8 DEF PageOf
  <2>2. ~p.err /\ p.next = NoCursor /\ p.items = rest
      BY <2>1 DEF Whole
  <2> QED BY <1>6, <2>2 DEF Continues
<1>9. CASE ~(offset >= Len(s)) /\ Limit > 0 /\ Len(rest) > Limit
  <2>1. p = [items |-> SubSeq(rest, 1, Limit), next |-> <<id, offset + Limit>>, err |-> FALSE]
      BY <1>9 DEF PageOf
  <2>2. Len(rest) = Len(s) - offset
    <3>1. \A i \in offset + 1..Len(s) : s[i] \in 1..MaxVolumes
      <4>1. \A i \in offset + 1..Len(s) : i \in 1..Len(s)
          BY <1>1
      <4> QED BY <1>1, <4>1, LenProperties DEF Items
    <3>2. offset + 1 \in Int /\ Len(s) \in Int
        BY <1>1
    <3>3. Len(rest) = IF offset + 1 <= Len(s) THEN Len(s) - (offset + 1) + 1 ELSE 0
        BY <3>1, <3>2, SubSeqProperties
    <3> QED BY <1>1, <1>9, <3>3
  <2>3. /\ Limit \in Nat /\ offset + Limit \in offset..Len(s) /\ offset + Limit \in 0..Len(s)
        /\ offset + 1 \in 1..Len(s) /\ Len(s) \in 1..Len(s)
        /\ 1 \in 1..Len(s) - (offset + 1) + 1 /\ Limit \in 1..Len(s) - (offset + 1) + 1
        /\ (offset + 1) + 1 - 1 = offset + 1 /\ (offset + 1) + Limit - 1 = offset + Limit
      BY <1>1, <1>9, <2>2, Sizes
  <2>4. SubSeq(rest, 1, Limit) = SubSeq(s, offset + 1, offset + Limit)
    <3>1. SubSeq(rest, 1, Limit) = SubSeq(s, (offset + 1) + 1 - 1, (offset + 1) + Limit - 1)
        BY <1>1, <2>3, SubSeqOfSubSeq DEF Items
    <3> QED BY <2>3, <3>1
  <2>5. (u \o start) \o SubSeq(rest, 1, Limit) = u \o SubSeq(s, 1, offset + Limit)
      BY <1>4, <2>3, <2>4
  <2> DEFINE x == SubSeq(rest, 1, Limit)
             cur == <<id, offset + Limit>>
  <2> HIDE DEF x, cur
  <2>6. p = [items |-> x, next |-> cur, err |-> FALSE]
      BY <2>1 DEF x, cur
  <2>7. ~p.err /\ p.next = cur /\ p.items = x
      BY <2>6
  <2> QED BY <2>3, <2>5, <2>7 DEF x, cur, Continues
<1> QED BY <1>7, <1>8, <1>9

-----------------------------------------------------------------------------
(* How far a walk is.  Its fetches have delivered t, and ls, e and sn are  *)
(* the listings of the walk, the snapshots expired early and the stored    *)
(* ones: t ends with listing l, and has nothing before it unless a cursor  *)
(* may have expired, ...                                                   *)
Follows(e, t, l) == \E u \in Items : t = u \o l /\ (e = 0 => u = <<>>)

Complete(ls, e, t) == \E l \in ls : Follows(e, t, l)

(* ... or with the part of l that is before the cursor, whose snapshot is  *)
(* l unless it has expired, ...                                            *)
Under(e, sn, t, cur, l) ==
    /\ cur[2] \in 0..Len(l) /\ Follows(e, t, SubSeq(l, 1, cur[2]))
    /\ IF cur[1] \in DOMAIN sn THEN sn[cur[1]] = l ELSE e > 0

(* ... which the answer to a request decides.                              *)
Reached(ls, e, sn, t, cur) ==
    IF cur = NoCursor THEN Complete(ls, e, t) ELSE \E l \in ls : Under(e, sn, t, cur, l)

Failing(q) == q # <<>> /\ q[Len(q)].err

Fetched(c, t) ==
    /\ pc[c] = "idle" => t = <<>>
    /\ pc[c] \in {"fetch", "wait"} =>
           IF after[c] = NoCursor THEN t = <<>>
           ELSE Reached(listings[c], early, snaps, t, after[c])
    /\ pc[c] = "reset" => items[c] \in listings[c] /\ Under(early, snaps, t, after[c], items[c])
    /\ pc[c] = "store" => items[c] \in listings[c] /\ (early = 0 => t = <<>>)
    /\ pc[c] = "send" => \/ page[c].err /\ page[c].next = NoCursor
                         \/ Reached(listings[c], early, snaps, t, page[c].next)
    /\ pc[c] = "closed" => Failing(chan[c]) \/ Complete(listings[c], early, t)

(* The pages a walk has fetched and not delivered, and what they add up to *)
(* as long as it can still end well.                                       *)
OnTheWay(c) == IF pc[c] = "send" THEN Append(chan[c], page[c]) ELSE chan[c]

Walking(c) ==
    result[c] # "error" /\ c \notin cancelled =>
        \E t \in Items : Joins(got[c], OnTheWay(c), t) /\ Fetched(c, t)

(* What holds of a client at all times.                                    *)
Kept(c) ==
    /\ pc[c] \notin {"idle", "closed"} => Listing(volumes) \in listings[c]
    /\ pc[c] = "idle" => result[c] = "none" /\ c \notin cancelled /\ got[c] = <<>> /\ chan[c] = <<>>
    /\ c \notin Streamers => pc[c] # "send" /\ chan[c] = <<>>
    /\ c \notin Streamers /\ result[c] # "none" => pc[c] = "closed"
    /\ cpc[c] # "idle" => c \in Streamers /\ result[c] = "none"
    /\ result[c] = "ok" => pc[c] = "closed" /\ chan[c] = <<>>

Told ==
    /\ got \in [Clients -> Items] /\ listings \in [Clients -> SUBSET Lists] /\ early \in Nat
    /\ result \in [Clients -> {"none", "ok", "error"}]
    /\ cpc \in [Clients -> {"idle", "recv", "deduct", "signal"}]

WInv == IInv /\ Told /\ \A c \in Clients : Kept(c) /\ Walking(c)

-----------------------------------------------------------------------------
(* More listings, more expired cursors and new snapshots change nothing,   *)
(* as long as snapshot id stays what it was or expires early.              *)
Keeps(sn, sn2, e2, id) ==
    IF id \in DOMAIN sn2 THEN id \in DOMAIN sn /\ sn2[id] = sn[id]
    ELSE id \in DOMAIN sn => e2 > 0

LEMMA Monotone ==
    ASSUME NEW ls, NEW ls2, ls \subseteq ls2, NEW e \in Nat, NEW e2 \in Nat, e <= e2,
           NEW sn, NEW sn2, NEW t
    PROVE  /\ Complete(ls, e, t) => Complete(ls2, e2, t)
           /\ \A cur, l : Keeps(sn, sn2, e2, cur[1]) /\ Under(e, sn, t, cur, l) =>
                              Under(e2, sn2, t, cur, l)
           /\ \A cur : (cur # NoCursor => Keeps(sn, sn2, e2, cur[1]))
                            /\ Reached(ls, e, sn, t, cur) => Reached(ls2, e2, sn2, t, cur)
<1>1. \A l : Follows(e, t, l) => Follows(e2, t, l)
    BY DEF Follows
<1>2. Complete(ls, e, t) => Complete(ls2, e2, t)
    BY <1>1 DEF Complete
<1>3. ASSUME NEW cur, NEW l, Keeps(sn, sn2, e2, cur[1]), Under(e, sn, t, cur, l)
      PROVE  Under(e2, sn2, t, cur, l)
  <2>1. IF cur[1] \in DOMAIN sn2 THEN sn2[cur[1]] = l ELSE e2 > 0
      BY <1>3 DEF Keeps, Under
  <2> QED BY <1>1, <1>3, <2>1 DEF Under
<1>4. ASSUME NEW cur, cur # NoCursor => Keeps(sn, sn2, e2, cur[1]), Reached(ls, e, sn, t, cur)
      PROVE  Reached(ls2, e2, sn2, t, cur)
    BY <1>2, <1>3, <1>4 DEF Reached
<1> QED BY <1>2, <1>3, <1>4

(* A step of others, or of the agent's timers.                             *)
Same(c) ==
    /\ pc'[c] = pc[c] /\ after'[c] = after[c] /\ items'[c] = items[c] /\ page'[c] = page[c]
    /\ got'[c] = got[c] /\ result'[c] = result[c] /\ chan'[c] = chan[c] /\ cpc'[c] = cpc[c]
    /\ c \in cancelled' <=> c \in cancelled

SnapsKept == \A id : InUse(id) \/ Offered(id) => Keeps(snaps, snaps', early', id)

LEMMA OthersKept ==
    ASSUME WInv, NEW c \in Clients, Same(c), SnapsKept, early' \in Nat, early <= early',
           listings[c] \subseteq listings'[c],
           pc[c] \notin {"idle", "closed"} => Listing(volumes)' \in listings'[c]
    PROVE  Kept(c)' /\ Walking(c)'
<1>1. Kept(c) /\ Walking(c) /\ early \in Nat
    BY DEF WInv, Told
<1>2. Kept(c)'
    BY <1>1 DEF Kept, Same
<1>3. ASSUME NEW t, Fetched(c, t) PROVE Fetched(c, t)'
  <2>1. pc[c] # "idle" /\ after[c] # NoCursor => Keeps(snaps, snaps', early', after[c][1])
      BY DEF SnapsKept, InUse
  <2>2. page[c].next # NoCursor => Keeps(snaps, snaps', early', page[c].next[1])
      BY DEF SnapsKept, Offered
  <2>3. pc[c] = "reset" => after[c] # NoCursor
      BY DEF WInv, IInv, Shaped
  <2>4. Complete(listings[c], early, t) => Complete(listings'[c], early', t)
      BY <1>1, Monotone
  <2>5. pc[c] = "reset" => Under(early', snaps', t, after[c], items[c])
      BY <1>1, <1>3, <2>1, <2>3, Monotone DEF Fetched
  <2>6. pc[c] # "idle" /\ after[c] # NoCursor /\ Reached(listings[c], early, snaps, t, after[c])
               => Reached(listings'[c], early', snaps', t, after[c])
      BY <1>1, <2>1, Monotone
  <2>7. Reached(listings[c], early, snaps, t, page[c].next)
               => Reached(listings'[c], early', snaps', t, page[c].next)
    <3> DEFINE cur == page[c].next
    <3>1. cur # NoCursor => Keeps(snaps, snaps', early', cur[1])
        BY <2>2
    <3> HIDE DEF cur
    <3>2. Reached(listings[c], early, snaps, t, cur)
              => Reached(listings'[c], early', snaps', t, cur)
        BY <1>1, <3>1, Monotone
    <3> QED BY <3>2 DEF cur
  <2>8. early' = 0 => early = 0
      BY <1>1
  <2> QED BY <1>3, <2>4, <2>5, <2>6, <2>7, <2>8 DEF Fetched, Same
<1>4. Walking(c)'
  <2>1. OnTheWay(c)' = OnTheWay(c)
      BY DEF OnTheWay, Same
  <2> QED BY <1>1, <1>3, <2>1 DEF Walking, Same
<1> QED BY <1>2, <1>4

(* A step of client c.                                                     *)
LEMMA OneMoves ==
    ASSUME WInv, [Next]_vars, NEW c \in Clients, \A d \in Clients \ {c} : Same(d),
           UNCHANGED <<volumes, early>>, SnapsKept,
           \A d \in Clients \ {c} : listings'[d] = listings[d],
           Told', Kept(c)', Walking(c)'
    PROVE  WInv'
<1>1. IInv'
    BY NextIInv DEF WInv
<1>2. ASSUME NEW d \in Clients, d # c PROVE Kept(d)' /\ Walking(d)'
  <2>1. early' \in Nat /\ early <= early'
      BY DEF WInv, Told
  <2>2. pc[d] \notin {"idle", "closed"} => Listing(volumes)' \in listings'[d]
    <3>1. Listing(volumes)' = Listing(volumes)
        BY DEF Listing, Rank
    <3> QED BY <1>2, <3>1 DEF WInv, Kept
  <2> QED BY <1>2, <2>1, <2>2, OthersKept
<1> QED BY <1>1, <1>2 DEF WInv

LEMMA SnapsSame == UNCHANGED snaps => SnapsKept
BY DEF SnapsKept, Keeps

(* The types all steps of a client start from.                             *)
LEMMA WalkTypes ==
    ASSUME WInv
    PROVE  /\ items \in [Clients -> Lists] /\ page \in [Clients -> Pages]
           /\ chan \in [Clients -> Seq(Pages)] /\ after \in [Clients -> Cursors]
           /\ pc \in [Clients -> {"idle", "fetch", "wait", "reset", "store", "send", "closed"}]
           /\ got \in [Clients -> Items] /\ listings \in [Clients -> SUBSET Lists] /\ early \in Nat
           /\ result \in [Clients -> {"none", "ok", "error"}]
           /\ cpc \in [Clients -> {"idle", "recv", "deduct", "signal"}]
BY DEF WInv, IInv, Shaped, Told

(* The answer p to a request.                                              *)
LEMMA RespondTells ==
    ASSUME WInv, NEW c \in Clients, NEW p \in Pages, Respond(c, p),
           pc[c] \in {"fetch", "reset", "store"},
           UNCHANGED <<chan, cpc, cancelled, listings, early, volumes>>,
           \A t \in Items : Fetched(c, t) =>
               \/ p.err /\ p.next = NoCursor
               \/ Reached(listings[c], early, snaps', t \o p.items, p.next)
    PROVE  Told' /\ Kept(c)' /\ Walking(c)' /\ \A d \in Clients \ {c} : Same(d)
<1>1. Kept(c) /\ Walking(c) /\ p.items \in Items
    BY ItemsOf DEF WInv
<1>2. Listing(volumes)' = Listing(volumes)
    BY DEF Listing, Rank
<1>3. \A t \in Items : t \o p.items \in Items
    BY <1>1, ItemsOf
<1>4. CASE c \in Streamers
  <2>1. /\ page' = [page EXCEPT ![c] = p] /\ pc' = [pc EXCEPT ![c] = "send"]
        /\ items' = [items EXCEPT ![c] = <<>>] /\ UNCHANGED <<after, got, result>>
      BY <1>4 DEF Respond
  <2>2. /\ page'[c] = p /\ pc'[c] = "send" /\ got'[c] = got[c] /\ result'[c] = result[c]
        /\ \A d \in Clients \ {c} : Same(d)
      BY <2>1, WalkTypes DEF Same
  <2>3. Told'
      BY <2>1, WalkTypes DEF Told
  <2>4. Kept(c)'
      BY <1>1, <1>2, <1>4, <2>2 DEF Kept
  <2>5. Walking(c)'
    <3> SUFFICES ASSUME result'[c] # "error", c \notin cancelled'
                 PROVE  \E t \in Items : Joins(got'[c], OnTheWay(c)', t) /\ Fetched(c, t)'
        BY DEF Walking
    <3>1. PICK t \in Items : Joins(got[c], chan[c], t) /\ Fetched(c, t)
        BY <1>1, <2>2 DEF Walking, OnTheWay
    <3>2. PICK t2 \in Items : t2 = t \o p.items
        BY <1>3
    <3>3. Joins(got'[c], OnTheWay(c)', t2)
      <4>1. OnTheWay(c)' = Append(chan[c], p)
          BY <2>2 DEF OnTheWay
      <4> QED BY <2>2, <3>1, <3>2, <4>1, WalkTypes, JoinsOneMore
    <3>4. Fetched(c, t2)'
        BY <2>2, <3>1, <3>2 DEF Fetched
    <3> QED BY <3>3, <3>4
  <2> QED BY <2>2, <2>3, <2>4, <2>5
<1>5. CASE c \notin Streamers
  <2>1. /\ got' = [got EXCEPT ![c] = @ \o p.items] /\ after' = [after EXCEPT ![c] = p.next]
        /\ result' = [result EXCEPT ![c] = IF p.err THEN "error"
                                           ELSE IF p.next = NoCursor THEN "ok" ELSE "none"]
        /\ pc' = [pc EXCEPT ![c] = IF p.err \/ p.next = NoCursor THEN "closed" ELSE "fetch"]
        /\ items' = [items EXCEPT ![c] = <<>>] /\ UNCHANGED page
      BY <1>5 DEF Respond
  <2>2. /\ got'[c] = got[c] \o p.items /\ after'[c] = p.next
        /\ result'[c] = IF p.err THEN "error" ELSE IF p.next = NoCursor THEN "ok" ELSE "none"
        /\ pc'[c] = IF p.err \/ p.next = NoCursor THEN "closed" ELSE "fetch"
        /\ \A d \in Clients \ {c} : Same(d)
      BY <2>1, WalkTypes DEF Same
  <2>3. chan[c] = <<>> /\ result[c] = "none" /\ chan'[c] = <<>>
      BY <1>1, <1>5 DEF Kept
  <2>4. Told'
    <3>1. got' \in [Clients -> Items]
        BY <1>3, <2>1, WalkTypes
    <3>2. result' \in [Clients -> {"none", "ok", "error"}]
        BY <2>1, WalkTypes
    <3> QED BY <3>1, <3>2, WalkTypes DEF Told
  <2>5. Kept(c)'
      BY <1>1, <1>2, <1>5, <2>2, <2>3 DEF Kept
  <2>6. Walking(c)'
    <3> SUFFICES ASSUME result'[c] # "error", c \notin cancelled'
                 PROVE  \E t \in Items : Joins(got'[c], OnTheWay(c)', t) /\ Fetched(c, t)'
        BY DEF Walking
    <3>1. PICK t \in Items : Joins(got[c], chan[c], t) /\ Fetched(c, t)
        BY <1>1, <2>3 DEF Walking, OnTheWay
    <3>2. t = got[c]
        BY <2>3, <3>1, JoinsNothing
    <3>3. PICK t2 \in Items : t2 = t \o p.items
        BY <1>3
    <3>4. ~p.err
        BY <2>2
    <3>5. Joins(got'[c], OnTheWay(c)', t2)
      <4>1. OnTheWay(c)' = <<>>
          BY <2>2, <2>3 DEF OnTheWay
      <4> QED BY <2>2, <3>2, <3>3, <4>1, JoinsNothing
    <3>6. Reached(listings[c], early, snaps', t2, p.next)
        BY <3>1, <3>3, <3>4
    <3>7. Fetched(c, t2)'
        BY <2>2, <3>4, <3>6 DEF Fetched, Reached
    <3> QED BY <3>5, <3>7
  <2> QED BY <2>2, <2>4, <2>5, <2>6
<1> QED BY <1>4, <1>5

(* A request that finds no snapshot for its cursor has nothing to follow,  *)
(* unless one has expired early.                                           *)
LEMMA StartsOver ==
    ASSUME NEW c \in Clients, NEW t, Fetched(c, t), pc[c] = "fetch", ~Loaded(c), early \in Nat
    PROVE  early = 0 => t = <<>>
BY DEF Fetched, Loaded, Reached, Under

LEMMA FetchTells ==
    ASSUME WInv, [Next]_vars, NEW c \in Clients, Fetch(c) \/ FetchFails(c)
    PROVE  WInv'
<1>1. /\ UNCHANGED <<volumes, snaps, chan, cpc, cancelled, listings, early>> /\ SnapsKept
      /\ pc[c] = "fetch"
    BY SnapsSame DEF Fetch, FetchFails, server, bounds
<1>2. ASSUME NEW p \in Pages, Respond(c, p),
             \A t \in Items : Fetched(c, t) =>
               \/ p.err /\ p.next = NoCursor
               \/ Reached(listings[c], early, snaps', t \o p.items, p.next)
      PROVE  WInv'
  <2>1. Told' /\ Kept(c)' /\ Walking(c)' /\ \A d \in Clients \ {c} : Same(d)
      BY <1>1, <1>2, RespondTells
  <2> QED BY <1>1, <2>1, OneMoves
<1>3. CASE FetchFails(c)
    BY <1>2, <1>3, FailedFits DEF FetchFails
<1>4. CASE Fetch(c)
  <2>1. Kept(c) /\ Walking(c) /\ Listing(volumes) \in listings[c]
      BY <1>1 DEF WInv, Kept
  <2>2. Listing(volumes)' = Listing(volumes)
      BY <1>1 DEF Listing, Rank
  <2>3. PICK all : all = Listing(volumes)
      OBVIOUS
  <2>4. all \in Lists /\ all \in listings[c]
      BY <2>1, <2>3, WalkTypes
  <2>5. ASSUME ~Loaded(c), Respond(c, Whole(all)) PROVE WInv'
    <3> DEFINE p == Whole(all)
    <3>1. p \in Pages /\ ~p.err /\ p.next = NoCursor /\ p.items = all
        BY <2>4, WholeFits DEF Whole
    <3>2. Respond(c, p)
        BY <2>5
    <3> HIDE DEF p
    <3>3. ASSUME NEW t \in Items, Fetched(c, t)
          PROVE  Reached(listings[c], early, snaps', t \o p.items, p.next)
      <4>1. early = 0 => t = <<>>
          BY <1>1, <2>5, <3>3, StartsOver, WalkTypes
      <4>2. Follows(early, t \o all, all)
          BY <4>1 DEF Follows
      <4> QED BY <2>4, <3>1, <4>2 DEF Reached, Complete
    <3> QED BY <1>2, <3>1, <3>2, <3>3
  <2>6. ASSUME NEW s \in Lists, NEW to \in {"reset", "store"},
               items' = [items EXCEPT ![c] = s], pc' = [pc EXCEPT ![c] = to],
               UNCHANGED <<after, page, got, result>>, result[c] = "none",
               \A t \in Items : Fetched(c, t) =>
                   /\ s \in listings[c]
                   /\ to = "reset" => Under(early, snaps, t, after[c], s)
                   /\ to = "store" => (early = 0 => t = <<>>)
        PROVE  WInv'
    <3>1. /\ items'[c] = s /\ pc'[c] = to /\ \A d \in Clients \ {c} : Same(d)
        BY <1>1, <2>6, WalkTypes DEF Same
    <3>2. Told'
        BY <1>1, <2>6, WalkTypes DEF Told
    <3>3. Kept(c)'
        BY <1>1, <2>1, <2>2, <2>6, <3>1 DEF Kept
    <3>4. OnTheWay(c) = chan[c] /\ OnTheWay(c)' = chan[c]
        BY <1>1, <2>6, <3>1 DEF OnTheWay
    <3>5. ASSUME NEW t \in Items, Fetched(c, t) PROVE Fetched(c, t)'
        BY <1>1, <2>6, <3>1, <3>5 DEF Fetched
    <3>6. Walking(c)'
        BY <1>1, <2>1, <2>6, <3>4, <3>5 DEF Walking
    <3> QED BY <1>1, <3>1, <3>2, <3>3, <3>6, OneMoves
  <2>7. CASE /\ Loaded(c) /\ items' = [items EXCEPT ![c] = snaps[after[c][1]]]
             /\ pc' = [pc EXCEPT ![c] = "reset"] /\ UNCHANGED <<after, page, got, result>>
    <3>1. PICK s : s = snaps[after[c][1]]
        OBVIOUS
    <3>2. s \in Lists
        BY <2>7, <3>1 DEF Loaded, WInv, IInv, Shaped
    <3>3. ASSUME NEW t \in Items, Fetched(c, t)
          PROVE  s \in listings[c] /\ Under(early, snaps, t, after[c], s)
      <4>1. Reached(listings[c], early, snaps, t, after[c]) /\ after[c] # NoCursor
          BY <1>1, <2>7, <3>3 DEF Fetched, Loaded
      <4>2. PICK l \in listings[c] : Under(early, snaps, t, after[c], l)
          BY <4>1 DEF Reached
      <4>3. l = s
          BY <2>7, <3>1, <4>2 DEF Under, Loaded
      <4> QED BY <4>2, <4>3
    <3>4. result[c] = "none"
        BY <1>4 DEF Fetch
    <3> QED BY <2>6, <2>7, <3>1, <3>2, <3>3, <3>4
  <2>8. CASE /\ ~Loaded(c) /\ items' = [items EXCEPT ![c] = all]
             /\ pc' = [pc EXCEPT ![c] = "store"] /\ UNCHANGED <<after, page, got, result>>
    <3>1. ASSUME NEW t \in Items, Fetched(c, t) PROVE early = 0 => t = <<>>
        BY <1>1, <2>8, <3>1, StartsOver, WalkTypes
    <3>2. result[c] = "none"
        BY <1>4 DEF Fetch
    <3> QED BY <2>4, <2>6, <2>8, <3>1, <3>2
  <2> QED BY <1>4, <2>3, <2>5, <2>7, <2>8 DEF Fetch
<1> QED BY <1>3, <1>4

(* A page of a snapshot, of one that was loaded or a new one.              *)
LEMMA PageReaches ==
    ASSUME NEW ls, NEW e, NEW sn, NEW t, NEW s \in Lists, s \in ls, NEW id \in SnapIds,
           NEW offset \in 0..Len(s), Follows(e, t, SubSeq(s, 1, offset)),
           IF id \in DOMAIN sn THEN sn[id] = s ELSE e > 0,
           NEW p, p = PageOf(id, s, offset)
    PROVE  ~p.err /\ Reached(ls, e, sn, t \o p.items, p.next)
<1>1. PICK u \in Items : t = u \o SubSeq(s, 1, offset) /\ (e = 0 => u = <<>>)
    BY DEF Follows
<1>2. Continues(u, id, s, offset, p) /\ ~p.err
  <2>1. Continues(u, id, s, offset, p)
      BY PageContinues
  <2> QED BY <2>1 DEF Continues
<1>3. CASE p.next = NoCursor /\ t \o p.items = u \o s
  <2>1. Follows(e, t \o p.items, s)
      BY <1>1, <1>3 DEF Follows
  <2> QED BY <1>2, <1>3, <2>1 DEF Reached, Complete
<1>4. CASE /\ p.next = <<id, offset + Limit>> /\ offset + Limit \in 0..Len(s)
           /\ t \o p.items = u \o SubSeq(s, 1, offset + Limit)
  <2>1. Follows(e, t \o p.items, SubSeq(s, 1, offset + Limit))
      BY <1>1, <1>4 DEF Follows
  <2>2. p.next # NoCursor /\ p.next[1] = id /\ p.next[2] = offset + Limit
      BY <1>4 DEF NoCursor
  <2>3. Under(e, sn, t \o p.items, p.next, s)
      BY <1>4, <2>1, <2>2 DEF Under
  <2> QED BY <1>2, <2>2, <2>3 DEF Reached
<1> QED BY <1>1, <1>2, <1>3, <1>4 DEF Continues

LEMMA ResetTells ==
    ASSUME WInv, [Next]_vars, NEW c \in Clients, ResetTimer(c)
    PROVE  WInv'
<1>1. /\ UNCHANGED <<volumes, snaps, chan, cpc, cancelled, listings, early>> /\ SnapsKept
      /\ pc[c] = "reset" /\ Answer(c, PageOf(after[c][1], items[c], after[c][2]))
    BY SnapsSame DEF ResetTimer, bounds
<1>2. items[c] \in Lists /\ after[c] \in SnapIds \X Nat
    BY <1>1 DEF WInv, IInv, Shaped, Cursors
<1>3. PICK id \in SnapIds, offset \in Nat, s \in Lists :
          id = after[c][1] /\ offset = after[c][2] /\ s = items[c]
    BY <1>2
<1>4. PICK p \in Pages : (p = PageOf(id, s, offset) \/ p = Failed) /\ Respond(c, p)
    BY <1>1, <1>3, PageFits, FailedFits DEF Answer
<1>5. ASSUME NEW t \in Items, Fetched(c, t), p # Failed
      PROVE  Reached(listings[c], early, snaps', t \o p.items, p.next)
  <2>1. s \in listings[c] /\ Under(early, snaps, t, after[c], s)
      BY <1>1, <1>3, <1>5 DEF Fetched
  <2>2. /\ offset \in 0..Len(s) /\ Follows(early, t, SubSeq(s, 1, offset))
        /\ IF id \in DOMAIN snaps THEN snaps[id] = s ELSE early > 0
      BY <1>3, <2>1 DEF Under
  <2>3. Reached(listings[c], early, snaps, t \o p.items, p.next)
      BY <1>4, <1>5, <2>1, <2>2, PageReaches
  <2> QED BY <1>1, <2>3
<1>6. Told' /\ Kept(c)' /\ Walking(c)' /\ \A d \in Clients \ {c} : Same(d)
    BY <1>1, <1>4, <1>5, FailedFits, RespondTells
<1> QED BY <1>1, <1>6, OneMoves

LEMMA StoreTells ==
    ASSUME WInv, [Next]_vars, NEW c \in Clients, StoreSnapshot(c)
    PROVE  WInv'
<1>1. PICK id \in SnapIds :
          /\ Fresh(id) /\ Answer(c, PageOf(id, items[c], 0))
          /\ snaps' = [i \in DOMAIN snaps \cup {id} |-> IF i = id THEN items[c] ELSE snaps[i]]
    BY DEF StoreSnapshot
<1>2. /\ UNCHANGED <<volumes, chan, cpc, cancelled, listings, early>> /\ pc[c] = "store"
    BY DEF StoreSnapshot, bounds
<1>3. SnapsKept
    BY <1>1 DEF SnapsKept, Keeps, Fresh
<1>4. PICK s \in Lists : s = items[c]
    BY WalkTypes
<1>5. PICK p \in Pages : (p = PageOf(id, s, 0) \/ p = Failed) /\ Respond(c, p)
    BY <1>1, <1>4, PageFits, FailedFits DEF Answer
<1>6. snaps'[id] = s /\ id \in DOMAIN snaps'
    BY <1>1, <1>4
<1>7. ASSUME NEW t \in Items, Fetched(c, t), p # Failed
      PROVE  Reached(listings[c], early, snaps', t \o p.items, p.next)
  <2>1. s \in listings[c] /\ (early = 0 => t = <<>>)
      BY <1>2, <1>4, <1>7 DEF Fetched
  <2>2. SubSeq(s, 1, 0) = <<>> /\ t \o <<>> = t
      BY SubSeqEmpty, ConcatEmptySeq DEF Items
  <2>3. Follows(early, t, SubSeq(s, 1, 0))
      BY <2>1, <2>2 DEF Follows
  <2>4. 0 \in 0..Len(s)
      BY DEF Lists
  <2> QED BY <1>5, <1>6, <1>7, <2>1, <2>3, <2>4, PageReaches
<1>8. Told' /\ Kept(c)' /\ Walking(c)' /\ \A d \in Clients \ {c} : Same(d)
    BY <1>2, <1>3, <1>5, <1>7, FailedFits, RespondTells
<1> QED BY <1>2, <1>3, <1>8, OneMoves

(* The producer hands its page over, or gives up.                          *)
LEMMA ProducerTells ==
    ASSUME WInv, [Next]_vars, NEW c \in Clients, Send(c) \/ StopProducer(c)
    PROVE  WInv'
<1>1. /\ UNCHANGED <<volumes, snaps, got, result, cpc, cancelled, listings, early>> /\ SnapsKept
      /\ Told'
  <2>1. UNCHANGED <<volumes, snaps, got, result, cpc, cancelled, listings, early>>
      BY DEF Send, StopProducer, server, pipe, bounds
  <2> QED BY <2>1, SnapsSame DEF Told, WInv
<1>2. Kept(c) /\ Walking(c)
    BY DEF WInv
<1>3. Listing(volumes)' = Listing(volumes)
    BY <1>1 DEF Listing, Rank
<1>4. CASE Send(c)
  <2>1. PICK p \in Pages : p = page[c]
      BY WalkTypes
  <2>2. /\ pc[c] = "send" /\ chan'[c] = Append(chan[c], p) /\ after'[c] = p.next
        /\ pc'[c] = IF p.next = NoCursor THEN "closed" ELSE "fetch"
        /\ \A d \in Clients \ {c} : Same(d)
      BY <1>1, <1>4, <2>1, WalkTypes DEF Send, Same
  <2>3. c \in Streamers /\ result[c] # "ok"
      BY <1>2, <2>2 DEF Kept
  <2>4. Kept(c)'
      BY <1>1, <1>2, <1>3, <2>2, <2>3 DEF Kept
  <2>5. OnTheWay(c)' = OnTheWay(c)
      BY <2>1, <2>2 DEF OnTheWay
  <2>6. ASSUME NEW t \in Items, Fetched(c, t) PROVE Fetched(c, t)'
    <3>1. \/ p.err /\ p.next = NoCursor
          \/ Reached(listings[c], early, snaps, t, p.next)
        BY <2>1, <2>2, <2>6 DEF Fetched
    <3>2. p.err => Failing(chan'[c])
      <4>1. /\ Append(chan[c], p) # <<>> /\ Len(Append(chan[c], p)) = Len(chan[c]) + 1
            /\ Append(chan[c], p)[Len(chan[c]) + 1] = p
          BY WalkTypes, AppendProperties
      <4> QED BY <2>2, <4>1 DEF Failing
    <3> QED BY <1>1, <2>2, <3>1, <3>2 DEF Fetched, Reached
  <2>7. Walking(c)'
      BY <1>1, <1>2, <2>5, <2>6 DEF Walking
  <2> QED BY <1>1, <2>2, <2>4, <2>7, OneMoves
<1>5. CASE StopProducer(c)
  <2>1. /\ c \in Streamers /\ Done(c) /\ pc[c] \in {"send", "wait", "fetch"}
        /\ pc'[c] = "closed" /\ UNCHANGED chan /\ \A d \in Clients \ {c} : Same(d)
      BY <1>1, <1>5, WalkTypes DEF StopProducer, Same, pipe
  <2>2. Kept(c)'
      BY <1>1, <1>2, <2>1 DEF Kept
  <2>3. c \in cancelled \/ result[c] = "error"
      BY <1>2, <2>1, WalkTypes DEF Kept, Done
  <2>4. Walking(c)'
      BY <1>1, <2>3 DEF Walking
  <2> QED BY <1>1, <2>1, <2>2, <2>4, OneMoves
<1> QED BY <1>4, <1>5

(* The consumer.                                                           *)
LEMMA ReceiveTells ==
    ASSUME WInv, [Next]_vars, NEW c \in Clients, Receive(c)
    PROVE  WInv'
<1>1. /\ UNCHANGED <<volumes, snaps, pc, after, items, page, cancelled, listings, early>>
      /\ SnapsKept /\ cpc[c] = "recv" /\ chan[c] # <<>>
      /\ chan' = [chan EXCEPT ![c] = Tail(@)]
    BY SnapsSame DEF Receive, server, bounds
<1>2. Kept(c) /\ Walking(c) /\ Listing(volumes)' = Listing(volumes)
    BY <1>1 DEF WInv, Listing, Rank
<1>3. PICK q \in Seq(Pages) : q = chan[c] /\ q # <<>>
    BY <1>1, WalkTypes
<1>4. PICK p \in Pages : p = Head(q)
    BY <1>3, HeadTailProperties
<1>5. p.items \in Items /\ chan'[c] = Tail(q)
    BY <1>1, <1>3, ItemsOf, WalkTypes
<1>6. c \in Streamers /\ result[c] = "none"
    BY <1>1, <1>2 DEF Kept
<1>7. CASE /\ result' = [result EXCEPT ![c] = "error"] /\ cpc' = [cpc EXCEPT ![c] = "idle"]
           /\ UNCHANGED got
  <2>1. Told' /\ result'[c] = "error" /\ cpc'[c] = "idle" /\ \A d \in Clients \ {c} : Same(d)
      BY <1>1, <1>7, WalkTypes DEF Told, Same
  <2>2. Kept(c)'
    <3>1. pc[c] # "idle"
        BY <1>1, <1>2 DEF Kept
    <3> QED BY <1>1, <1>2, <1>6, <2>1, <3>1 DEF Kept
  <2>3. Walking(c)'
      BY <2>1 DEF Walking
  <2> QED BY <1>1, <2>1, <2>2, <2>3, OneMoves
<1>8. CASE /\ ~p.err /\ got' = [got EXCEPT ![c] = @ \o p.items] /\ UNCHANGED result
           /\ cpc' = [cpc EXCEPT ![c] = IF MaxBytes > 0 THEN "deduct" ELSE "recv"]
  <2>1. /\ Told' /\ got'[c] = got[c] \o p.items
        /\ cpc'[c] \in {"deduct", "recv"} /\ \A d \in Clients \ {c} : Same(d)
    <3>1. got[c] \o p.items \in Items
        BY <1>5, ItemsOf, WalkTypes
    <3>2. Told'
        BY <1>1, <1>8, <3>1, WalkTypes DEF Told
    <3> QED BY <1>1, <1>8, <3>2, WalkTypes DEF Same
  <2>2. Kept(c)'
    <3>1. pc[c] # "idle"
        BY <1>1, <1>2 DEF Kept
    <3> QED BY <1>1, <1>2, <1>6, <1>8, <2>1, <3>1 DEF Kept
  <2>3. OnTheWay(c)' = Tail(OnTheWay(c)) /\ Head(OnTheWay(c)) = p /\ OnTheWay(c) # <<>>
        /\ OnTheWay(c) \in Seq(Pages)
    <3>1. CASE pc[c] = "send"
      <4>1. PICK x \in Pages : x = page[c]
          BY WalkTypes
      <4>2. OnTheWay(c) = Append(q, x) /\ OnTheWay(c)' = Append(Tail(q), x)
          BY <1>1, <1>3, <1>5, <3>1, <4>1 DEF OnTheWay
      <4>3. Head(Append(q, x)) = Head(q) /\ Tail(Append(q, x)) = Append(Tail(q), x)
          BY <1>3, HeadTailAppend
      <4>4. Append(q, x) \in Seq(Pages) /\ Append(q, x) # <<>>
          BY AppendProperties
      <4> QED BY <1>4, <4>2, <4>3, <4>4
    <3>2. CASE pc[c] # "send"
        BY <1>1, <1>3, <1>4, <1>5, <3>2 DEF OnTheWay
    <3> QED BY <3>1, <3>2
  <2>4. ASSUME NEW t \in Items, Joins(got[c], OnTheWay(c), t)
        PROVE  Joins(got'[c], OnTheWay(c)', t)
      BY <2>1, <2>3, <2>4, JoinsOneLess
  <2>5. Failing(q) => Failing(Tail(q))
    <3> SUFFICES ASSUME Failing(q) PROVE Failing(Tail(q))
        OBVIOUS
    <3>1. /\ Len(q) \in Nat \ {0} /\ Len(Tail(q)) = Len(q) - 1 /\ Head(q) = q[1]
          /\ Tail(q) \in Seq(Pages) /\ \A i \in 1..Len(Tail(q)) : Tail(q)[i] = q[i + 1]
      <4>1. Len(q) \in Nat \ {0} /\ Head(q) = q[1]
          BY <1>3, EmptySeq, LenProperties
      <4> QED BY <1>3, <4>1, HeadTailProperties
    <3>2. Len(q) # 1
        BY <1>4, <1>8, <3>1 DEF Failing
    <3>3. Len(Tail(q)) \in 1..Len(Tail(q)) /\ Len(Tail(q)) + 1 = Len(q) /\ Len(Tail(q)) # 0
        BY <3>1, <3>2
    <3>4. Tail(q)[Len(Tail(q))] = q[Len(q)] /\ Tail(q) # <<>>
        BY <3>1, <3>3, EmptySeq
    <3> QED BY <3>4 DEF Failing
  <2>6. ASSUME NEW t \in Items, Fetched(c, t) PROVE Fetched(c, t)'
      BY <1>1, <1>3, <1>5, <2>5, <2>6 DEF Fetched
  <2>7. Walking(c)'
      BY <1>1, <1>2, <1>8, <2>4, <2>6 DEF Walking
  <2> QED BY <1>1, <2>1, <2>2, <2>7, OneMoves
<1> QED BY <1>3, <1>4, <1>7, <1>8 DEF Receive

LEMMA ConsumerTells ==
    ASSUME WInv, [Next]_vars, NEW c \in Clients, GiveBack(c) \/ Drained(c)
    PROVE  WInv'
<1>1. /\ UNCHANGED <<volumes, snaps, pc, after, items, page, got, chan, cancelled, listings, early>>
      /\ SnapsKept
    BY SnapsSame DEF GiveBack, Drained, server, bounds
<1>2. Kept(c) /\ Walking(c) /\ Listing(volumes)' = Listing(volumes)
    BY <1>1 DEF WInv, Listing, Rank
<1>3. OnTheWay(c)' = OnTheWay(c)
    BY <1>1 DEF OnTheWay
<1>4. ASSUME NEW t, Fetched(c, t) PROVE Fetched(c, t)'
    BY <1>1, <1>4 DEF Fetched
<1>5. CASE GiveBack(c)
  <2>1. /\ UNCHANGED result /\ cpc[c] # "idle" /\ \A d \in Clients \ {c} : Same(d)
      BY <1>1, <1>5, WalkTypes DEF GiveBack, Same
  <2>2. Told'
      BY <1>1, <1>5, WalkTypes DEF GiveBack, Told
  <2>3. Kept(c)'
      BY <1>1, <1>2, <2>1 DEF Kept
  <2>4. Walking(c)'
      BY <1>1, <1>2, <1>3, <1>4, <2>1 DEF Walking
  <2> QED BY <1>1, <2>1, <2>2, <2>3, <2>4, OneMoves
<1>6. CASE Drained(c)
  <2>1. /\ cpc[c] = "recv" /\ chan[c] = <<>> /\ pc[c] = "closed" /\ result'[c] = "ok"
        /\ cpc'[c] = "idle" /\ Told' /\ \A d \in Clients \ {c} : Same(d)
      BY <1>1, <1>6, WalkTypes DEF Drained, Same, Told
  <2>2. result[c] = "none"
      BY <1>2, <2>1 DEF Kept
  <2>3. Kept(c)'
      BY <1>1, <1>2, <2>1, <2>2 DEF Kept
  <2>4. Walking(c)'
      BY <1>1, <1>2, <1>3, <1>4, <2>2 DEF Walking
  <2> QED BY <1>1, <2>1, <2>3, <2>4, OneMoves
<1> QED BY <1>5, <1>6

(* A walk starts, waits for its budget, is cancelled or ends.              *)
LEMMA WalkTells ==
    ASSUME WInv, [Next]_vars, NEW c \in Clients,
           StartWalk(c) \/ AwaitBudget(c) \/ Cancel(c) \/ EndWalk(c)
    PROVE  WInv'
<1>1. UNCHANGED <<volumes, snaps, items, page, early>> /\ SnapsKept
    BY SnapsSame DEF StartWalk, AwaitBudget, Cancel, EndWalk, server, bounds
<1>2. Kept(c) /\ Walking(c) /\ Listing(volumes)' = Listing(volumes)
    BY <1>1 DEF WInv, Listing, Rank
<1>3. Listing(volumes) \in Lists
    BY ListingFits DEF WInv, IInv, Shaped
<1>4. Joins(<<>>, <<>>, <<>>) /\ <<>> \in Items
    BY JoinsNothing, ItemsOf
<1>5. CASE StartWalk(c)
  <2>1. /\ pc[c] = "idle" /\ pc'[c] = "fetch" /\ after'[c] = NoCursor
        /\ cpc'[c] = (IF c \in Streamers THEN "recv" ELSE "idle")
        /\ listings'[c] = {Listing(volumes)} /\ UNCHANGED <<got, result, chan, cancelled>>
        /\ \A d \in Clients \ {c} : Same(d) /\ listings'[d] = listings[d]
      BY <1>1, <1>5, WalkTypes DEF StartWalk, Same
  <2>2. Told'
      BY <1>1, <1>3, <1>5, WalkTypes DEF StartWalk, Told
  <2>3. Kept(c)'
      BY <1>1, <1>2, <2>1 DEF Kept
  <2>4. Fetched(c, <<>>)'
      BY <2>1 DEF Fetched
  <2>5. got'[c] = <<>> /\ OnTheWay(c)' = <<>>
      BY <1>2, <2>1 DEF Kept, OnTheWay
  <2>6. Walking(c)'
      BY <1>4, <2>4, <2>5 DEF Walking
  <2> QED BY <1>1, <2>1, <2>2, <2>3, <2>6, OneMoves
<1>6. CASE AwaitBudget(c)
  <2>1. /\ pc[c] \in {"fetch", "wait"} /\ pc'[c] \in {"fetch", "wait"}
        /\ UNCHANGED <<after, got, result, chan, cpc, cancelled, listings>>
        /\ \A d \in Clients \ {c} : Same(d) /\ listings'[d] = listings[d]
      BY <1>1, <1>6, WalkTypes DEF AwaitBudget, Same
  <2>2. Told'
      BY <1>1, <2>1, WalkTypes DEF Told
  <2>3. Kept(c)'
      BY <1>1, <1>2, <2>1 DEF Kept
  <2>4. ASSUME NEW t, Fetched(c, t) PROVE Fetched(c, t)'
      BY <1>1, <2>1, <2>4 DEF Fetched
  <2>5. OnTheWay(c)' = OnTheWay(c)
      BY <2>1 DEF OnTheWay
  <2>6. Walking(c)'
      BY <1>2, <2>1, <2>4, <2>5 DEF Walking
  <2> QED BY <1>1, <2>1, <2>2, <2>3, <2>6, OneMoves
<1>7. CASE Cancel(c)
  <2>1. /\ pc[c] # "idle" /\ c \in cancelled'
        /\ UNCHANGED <<pc, after, got, result, chan, cpc, listings>>
        /\ \A d \in Clients \ {c} : Same(d) /\ listings'[d] = listings[d]
      BY <1>1, <1>7 DEF Cancel, Same, pipe
  <2>2. Told'
      BY <1>1, <2>1, WalkTypes DEF Told
  <2>3. Kept(c)'
      BY <1>1, <1>2, <2>1 DEF Kept
  <2>4. Walking(c)'
      BY <2>1 DEF Walking
  <2> QED BY <1>1, <2>1, <2>2, <2>3, <2>4, OneMoves
<1>8. CASE EndWalk(c)
  <2>1. /\ result[c] # "none" /\ pc'[c] = "idle" /\ got'[c] = <<>> /\ result'[c] = "none"
        /\ chan'[c] = <<>> /\ c \notin cancelled' /\ UNCHANGED cpc
        /\ \A d \in Clients \ {c} : Same(d) /\ listings'[d] = listings[d]
      BY <1>1, <1>8, WalkTypes DEF EndWalk, Same
  <2>2. Told'
    <3>1. got' \in [Clients -> Items] /\ result' \in [Clients -> {"none", "ok", "error"}]
        BY <1>4, <1>8, WalkTypes DEF EndWalk
    <3>2. listings' \in [Clients -> SUBSET Lists]
        BY <1>8, WalkTypes DEF EndWalk
    <3> QED BY <1>1, <2>1, <3>1, <3>2, WalkTypes DEF Told
  <2>3. Kept(c)'
      BY <1>2, <2>1 DEF Kept
  <2>4. Fetched(c, <<>>)' /\ OnTheWay(c)' = <<>>
      BY <2>1 DEF Fetched, OnTheWay
  <2>5. Walking(c)'
      BY <1>4, <2>1, <2>4 DEF Walking
  <2> QED BY <1>1, <2>1, <2>2, <2>3, <2>5, OneMoves
<1> QED BY <1>5, <1>6, <1>7, <1>8

(* Volumes come and go, and snapshots expire.                              *)
LEMMA AgentTells ==
    ASSUME WInv, [Next]_vars,
           \/ \E v \in 1..MaxVolumes : Change(v)
           \/ \E id \in SnapIds : Expire(id)
           \/ UNCHANGED vars
    PROVE  WInv'
<1>1. IInv'
    BY NextIInv DEF WInv
<1>2. ASSUME \A c \in Clients : Same(c), SnapsKept, Told', early <= early',
             \A c \in Clients : /\ listings[c] \subseteq listings'[c]
                                /\ pc[c] \notin {"idle", "closed"} =>
                                       Listing(volumes)' \in listings'[c]
      PROVE  WInv'
  <2>1. early' \in Nat
      BY <1>2 DEF Told
  <2>2. ASSUME NEW c \in Clients PROVE Kept(c)' /\ Walking(c)'
      BY <1>2, <2>1, <2>2, OthersKept
  <2> QED BY <1>1, <1>2, <2>2 DEF WInv
<1>3. ASSUME UNCHANGED <<volumes, listings>>, NEW c \in Clients
      PROVE  /\ listings[c] \subseteq listings'[c]
             /\ pc[c] \notin {"idle", "closed"} => Listing(volumes)' \in listings'[c]
  <2>1. Listing(volumes)' = Listing(volumes)
      BY <1>3 DEF Listing, Rank
  <2> QED BY <1>3, <2>1 DEF WInv, Kept
<1>4. ASSUME NEW v \in 1..MaxVolumes, Change(v) PROVE WInv'
  <2>1. /\ UNCHANGED <<snaps, pc, after, items, page, got, result, chan, cpc, cancelled, early>>
        /\ volumes' = (IF v \in volumes THEN volumes \ {v} ELSE volumes \cup {v})
        /\ listings' = [c \in Clients |-> IF pc[c] \in {"idle", "closed"} THEN listings[c]
                                          ELSE listings[c] \cup {Listing(volumes')}]
      BY <1>4 DEF Change, pipe
  <2>2. \A c \in Clients : Same(c)
      BY <2>1 DEF Same
  <2>3. PICK all : all = Listing(volumes') /\ all = Listing(volumes)'
    <3>1. Listing(volumes)' = Listing(volumes')
        BY DEF Listing, Rank
    <3> QED BY <3>1
  <2>4. all \in Lists
    <3>1. volumes' \subseteq 1..MaxVolumes
        BY <1>1 DEF IInv, Shaped
    <3>2. PICK S : S = volumes'
        OBVIOUS
    <3> QED BY <2>3, <3>1, <3>2, ListingFits
  <2>5. Told'
    <3>1. listings' \in [Clients -> SUBSET Lists]
        BY <2>1, <2>3, <2>4, WalkTypes
    <3> QED BY <2>1, <3>1, WalkTypes DEF Told
  <2>6. ASSUME NEW c \in Clients
        PROVE  /\ listings[c] \subseteq listings'[c]
               /\ pc[c] \notin {"idle", "closed"} => Listing(volumes)' \in listings'[c]
      BY <2>1, <2>3
  <2>7. SnapsKept /\ early <= early'
      BY <2>1, SnapsSame, WalkTypes
  <2> QED BY <1>2, <2>2, <2>5, <2>6, <2>7
<1>5. ASSUME NEW id \in SnapIds, Expire(id) PROVE WInv'
  <2>1. /\ UNCHANGED <<volumes, pc, after, items, page, got, result, chan, cpc, cancelled,
                       listings>>
        /\ snaps' = [i \in DOMAIN snaps \ {id} |-> snaps[i]]
        /\ \/ ~InUse(id) /\ ~Offered(id) /\ UNCHANGED early
           \/ early' = early + 1
      BY <1>5 DEF Expire, pipe
  <2>2. \A c \in Clients : Same(c)
      BY <2>1 DEF Same
  <2>3. early' \in Nat /\ early <= early' /\ (early' = early \/ early' > 0)
      BY <2>1, WalkTypes
  <2>4. Told'
      BY <2>1, <2>3, WalkTypes DEF Told
  <2>5. SnapsKept
    <3> SUFFICES ASSUME NEW i, InUse(i) \/ Offered(i) PROVE Keeps(snaps, snaps', early', i)
        BY DEF SnapsKept
    <3>1. i = id => early' > 0
        BY <2>1, WalkTypes
    <3> QED BY <2>1, <3>1 DEF Keeps
  <2> QED BY <1>2, <1>3, <2>1, <2>2, <2>3, <2>4, <2>5
<1>6. CASE UNCHANGED vars
  <2>1. /\ \A c \in Clients : Same(c)
        /\ UNCHANGED <<volumes, snaps, got, listings, early, result, cpc>>
      BY <1>6 DEF vars, server, pipe, bounds, Same
  <2>2. SnapsKept /\ Told' /\ early <= early'
      BY <2>1, SnapsSame, WalkTypes DEF Told
  <2> QED BY <1>2, <1>3, <2>1, <2>2
<1> QED BY <1>4, <1>5, <1>6

LEMMA InitWInv == Init => WInv
<1> SUFFICES ASSUME Init PROVE WInv
    OBVIOUS
<1>1. Told
    BY ItemsOf DEF Init, Told
<1>2. ASSUME NEW c \in Clients PROVE Kept(c) /\ Walking(c)
  <2>1. /\ pc[c] = "idle" /\ result[c] = "none" /\ got[c] = <<>> /\ chan[c] = <<>>
        /\ cpc[c] = "idle" /\ c \notin cancelled
      BY DEF Init
  <2>2. Kept(c)
      BY <2>1 DEF Kept
  <2>3. Fetched(c, <<>>) /\ OnTheWay(c) = <<>>
      BY <2>1 DEF Fetched, OnTheWay
  <2>4. Joins(<<>>, <<>>, <<>>) /\ <<>> \in Items
      BY JoinsNothing, ItemsOf
  <2> QED BY <2>1, <2>2, <2>3, <2>4 DEF Walking
<1> QED BY <1>1, <1>2, InitIInv DEF WInv

LEMMA NextWInv == WInv /\ [Next]_vars => WInv'
<1> SUFFICES ASSUME WInv, [Next]_vars PROVE WInv'
    OBVIOUS
<1>1. CASE \/ \E v \in 1..MaxVolumes : Change(v)
           \/ \E id \in SnapIds : Expire(id)
           \/ UNCHANGED vars
    BY <1>1, AgentTells
<1>2. ASSUME NEW c \in Clients, StartWalk(c) \/ Step(c) \/ Consumer(c) \/ Cancel(c) PROVE WInv'
    BY <1>2, WalkTells, FetchTells, ResetTells, StoreTells, ProducerTells, ReceiveTells,
       ConsumerTells DEF Step, Consumer
<1> QED BY <1>1, <1>2 DEF Next

(* Every walk of paginate that ends without an error and is not cancelled  *)
(* has delivered a listing that was current in the walk, whole and in      *)
(* order, for any number of clients and volumes, any page size and any     *)
(* capacity of the pipeline; pages of an expired cursor may come before it. *)
THEOREM WalksAreListings == Spec => []WalkIsListing
<1>1. WInv => WalkIsListing
  <2> SUFFICES ASSUME WInv, NEW c \in Clients, result[c] = "ok", c \notin cancelled
               PROVE  IF early = 0 THEN got[c] \in listings[c]
                      ELSE \E l \in listings[c] : IsSuffix(l, got[c])
      BY DEF WalkIsListing
  <2>1. Kept(c) /\ Walking(c)
      BY DEF WInv
  <2>2. pc[c] = "closed" /\ chan[c] = <<>>
      BY <2>1 DEF Kept
  <2>3. PICK t \in Items : Joins(got[c], <<>>, t) /\ Fetched(c, t)
      BY <2>1, <2>2 DEF Walking, OnTheWay
  <2>4. t = got[c]
      BY <2>3, JoinsNothing
  <2>5. Complete(listings[c], early, t)
      BY <2>2, <2>3 DEF Fetched, Failing
  <2>6. PICK l \in listings[c], u \in Items : t = u \o l /\ (early = 0 => u = <<>>)
      BY <2>5 DEF Complete, Follows
  <2>7. l \in Items
      BY ItemsOf, WalkTypes
  <2>8. early = 0 => t = l
      BY <2>6, <2>7, ConcatEmptySeq DEF Items
  <2>9. IsSuffix(l, t)
      BY <2>6, <2>7, SuffixOf
  <2> QED BY <2>4, <2>8, <2>9
<1> QED BY <1>1, InitWInv, NextWInv, PTL DEF Spec
=============================================================================

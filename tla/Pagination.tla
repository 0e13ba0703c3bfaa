----------------------------- MODULE Pagination -----------------------------
(***************************************************************************)
(* Paginated listing: the agent's paginatedList with its page snapshots    *)
(* (agent/api/v1/handler.go) and the client's paginate that walks over the *)
(* pages (agent/api/v1/client/client.go).                                  *)
(*                                                                         *)
(* A client without a callback fetches page after page and collects them.  *)
(* A client with one runs a producer that fetches ahead, bounded by the    *)
(* capacity of a channel and by a budget of bytes, and a consumer that     *)
(* hands each page to the callback.  A request's handler runs on behalf of *)
(* its client, so the client's pc stands for both.  An item is its         *)
(* volume's name, a number, and counts one byte.                           *)
(*                                                                         *)
(* A timer outlives the steps between its creation and the Store of its    *)
(* snapshot: they are one step.  LoadAndDelete and the decrement of the    *)
(* counter are one step, too: between them the cap is only tighter.        *)
(***************************************************************************)
EXTENDS Integers, Sequences, FiniteSets, SequencesExt

CONSTANTS Collectors, Streamers,  \* clients without and with a callback
          MaxVolumes,    \* bound: volumes are 1..MaxVolumes
          SnapIds,       \* identifiers of page snapshots
          Limit,         \* items per page, 0 for no pagination
          MaxSnapshots,  \* PaginationMaxSnapshots
          Prefetch,      \* capacity of the channel
          MaxBytes,      \* budget of the pages fetched ahead
          MaxWalks,      \* bound: calls of paginate
          MaxChanges,    \* bound: volumes created and deleted
          MaxEarly       \* bound: snapshots that expire under a walk

Clients == Collectors \cup Streamers
NoCursor == <<>>

ASSUME Sizes == /\ MaxVolumes \in Nat /\ Limit \in Nat /\ MaxSnapshots \in Nat \ {0}
                /\ Prefetch \in Nat /\ MaxBytes \in Nat
ASSUME ClientsFinite == IsFiniteSet(Clients)

VARIABLES volumes,   \* the volumes there are
          snaps,     \* pageSnapshots: identifier -> items, for those stored
          count,     \* snapshotCount
          armed,     \* snapshots whose timer is running
          pc,        \* client -> where its fetch is
          after,     \* client -> cursor of the next page: NoCursor, <<id, offset>>
          items,     \* client -> the listing its request works on
          page,      \* client -> the page fetched: [items, next, err]
          got,       \* client -> what the caller has been given
          result,    \* client -> "none", "ok", "error": what paginate returned
          chan,      \* client -> the channel's pages
          pending,   \* client -> bytes fetched and not yet consumed
          release,   \* client -> a token is in the release channel
          cpc,       \* client -> where its consumer is
          taken,     \* client -> bytes of the page the callback has
          cancelled, \* the clients whose caller has cancelled the context
          listings,  \* client -> the listings that were current in its walk
          walks, changes, early

server == <<volumes, snaps, count, armed>>
pipe == <<chan, pending, release, cpc, taken>>
bounds == <<walks, changes, early>>
vars == <<server, pc, after, items, page, got, result, pipe, cancelled, listings, bounds>>

(* Items in the order of the list endpoints, sorted by name: the n-th has  *)
(* n - 1 before it.                                                        *)
Rank(S, v) == Cardinality({w \in S : w < v})
Listing(S) == [n \in 1..Cardinality(S) |-> CHOOSE v \in S : Rank(S, v) = n - 1]
NoPage == [items |-> <<>>, next |-> NoCursor, err |-> FALSE]

TypeOK ==
    /\ volumes \subseteq 1..MaxVolumes
    /\ DOMAIN snaps \subseteq SnapIds /\ armed \subseteq SnapIds
    /\ count \in 0..Cardinality(SnapIds)
    /\ pc \in [Clients -> {"idle", "fetch", "wait", "reset", "store", "send", "closed"}]
    /\ result \in [Clients -> {"none", "ok", "error"}]
    /\ \A c \in Clients : Len(chan[c]) <= Prefetch
    /\ pending \in [Clients -> Nat]
    /\ release \in [Clients -> BOOLEAN]
    /\ taken \in [Clients -> 0..MaxVolumes]
    /\ cpc \in [Clients -> {"idle", "recv", "deduct", "signal"}]
    /\ cancelled \subseteq Clients

Init ==
    /\ volumes = 1..MaxVolumes /\ snaps = <<>> /\ count = 0 /\ armed = {}
    /\ pc = [c \in Clients |-> "idle"] /\ after = [c \in Clients |-> NoCursor]
    /\ items = [c \in Clients |-> <<>>] /\ page = [c \in Clients |-> NoPage]
    /\ got = [c \in Clients |-> <<>>] /\ result = [c \in Clients |-> "none"]
    /\ chan = [c \in Clients |-> <<>>] /\ pending = [c \in Clients |-> 0]
    /\ release = [c \in Clients |-> FALSE] /\ cpc = [c \in Clients |-> "idle"]
    /\ taken = [c \in Clients |-> 0]
    /\ cancelled = {} /\ listings = [c \in Clients |-> {}]
    /\ walks = 0 /\ changes = 0 /\ early = 0

-----------------------------------------------------------------------------
(* Volumes come and go under the walks.                                    *)
Change(v) ==
    /\ changes < MaxChanges /\ changes' = changes + 1
    /\ volumes' = IF v \in volumes THEN volumes \ {v} ELSE volumes \cup {v}
    /\ listings' = [c \in Clients |->
                       IF pc[c] \in {"idle", "closed"} THEN listings[c]
                       ELSE listings[c] \cup {Listing(volumes')}]
    /\ UNCHANGED <<snaps, count, armed, pc, after, items, page, got, result, pipe,
                   cancelled, walks, early>>

(* A call of paginate.                                                     *)
StartWalk(c) ==
    /\ pc[c] = "idle" /\ walks < MaxWalks /\ walks' = walks + 1
    /\ pc' = [pc EXCEPT ![c] = "fetch"]
    /\ after' = [after EXCEPT ![c] = NoCursor]
    /\ cpc' = [cpc EXCEPT ![c] = IF c \in Streamers THEN "recv" ELSE "idle"]
    /\ listings' = [listings EXCEPT ![c] = {Listing(volumes)}]
    /\ UNCHANGED <<server, items, page, got, result, chan, pending, release, taken,
                   cancelled, changes, early>>

(* The pages fetched and not yet consumed use up the budget.               *)
OverBudget(c) == c \in Streamers /\ MaxBytes > 0 /\ pending[c] >= MaxBytes

(* The producer finds its budget spent and waits for a token; then it      *)
(* looks again.                                                            *)
AwaitBudget(c) ==
    /\ \/ /\ pc[c] = "fetch" /\ OverBudget(c)
          /\ pc' = [pc EXCEPT ![c] = "wait"] /\ UNCHANGED release
       \/ /\ pc[c] = "wait" /\ release[c]
          /\ pc' = [pc EXCEPT ![c] = "fetch"]
          /\ release' = [release EXCEPT ![c] = FALSE]
    /\ UNCHANGED <<server, after, items, page, got, result, chan, pending, cpc, taken,
                   cancelled, listings, bounds>>

(* What fetch returns: a collector appends the page and goes on or         *)
(* returns, a producer accounts for it and offers it to the channel.       *)
Respond(c, p) ==
    /\ items' = [items EXCEPT ![c] = <<>>]
    /\ IF c \in Streamers
       THEN /\ page' = [page EXCEPT ![c] = p]
            /\ pending' = [pending EXCEPT ![c] = @ + Len(p.items)]
            /\ pc' = [pc EXCEPT ![c] = "send"]
            /\ UNCHANGED <<after, got, result>>
       ELSE /\ got' = [got EXCEPT ![c] = @ \o p.items]
            /\ after' = [after EXCEPT ![c] = p.next]
            /\ result' = [result EXCEPT ![c] = IF p.err THEN "error"
                                               ELSE IF p.next = NoCursor THEN "ok" ELSE "none"]
            /\ pc' = [pc EXCEPT ![c] = IF p.err \/ p.next = NoCursor THEN "closed" ELSE "fetch"]
            /\ UNCHANGED <<page, pending>>

Failed == [items |-> <<>>, next |-> NoCursor, err |-> TRUE]

(* A client that has timed out, or whose connection broke, gets an error,  *)
(* though its handler goes on to the end: it does not look at the context. *)
(* The client learns of it when the handler is done.                       *)
Answer(c, p) == Respond(c, p) \/ Respond(c, Failed)

Whole(s) == [items |-> s, next |-> NoCursor, err |-> FALSE]

(* A page of a snapshot with a next offset that counts from one.           *)
PageOfFromOne(id, s, offset) ==
    LET rest == SubSeq(s, offset + 1, Len(s))
    IN  IF offset >= Len(s) THEN Whole(<<>>)
        ELSE IF Limit > 0 /\ Len(rest) > Limit
        THEN [items |-> SubSeq(rest, 1, Limit), next |-> <<id, offset + Limit + 1>>, err |-> FALSE]
        ELSE Whole(rest)

(* The page of snapshot s that starts at an offset.                        *)
PageOf(id, s, offset) ==
    LET rest == SubSeq(s, offset + 1, Len(s))
    IN  IF offset >= Len(s) THEN Whole(<<>>)
        ELSE IF Limit > 0 /\ Len(rest) > Limit
        THEN [items |-> SubSeq(rest, 1, Limit), next |-> <<id, offset + Limit>>, err |-> FALSE]
        ELSE Whole(rest)

(* The cap counts as reached only when it is exceeded.                     *)
FullLate == count > MaxSnapshots

(* The cap on stored snapshots.                                            *)
Full == count >= MaxSnapshots

Loaded(c) == after[c] # NoCursor /\ after[c][1] \in DOMAIN snaps

(* A request: its handler lists the volumes and loads the cursor's         *)
(* snapshot, if it is still there; otherwise it answers with the whole     *)
(* listing when that fits on a page or too many snapshots are stored.      *)
Fetch(c) ==
    /\ pc[c] = "fetch" /\ result[c] = "none" /\ ~OverBudget(c)
    /\ \/ /\ Loaded(c)
          /\ items' = [items EXCEPT ![c] = snaps[after[c][1]]]
          /\ pc' = [pc EXCEPT ![c] = "reset"]
          /\ UNCHANGED <<after, page, got, result, pending>>
       \/ /\ ~Loaded(c)
          /\ LET all == Listing(volumes)
             IN  IF Limit = 0 \/ Len(all) <= Limit \/ Full
                 THEN Respond(c, Whole(all))
                 ELSE /\ items' = [items EXCEPT ![c] = all]
                      /\ pc' = [pc EXCEPT ![c] = "store"]
                      /\ UNCHANGED <<after, page, got, result, pending>>
    /\ UNCHANGED <<server, chan, release, cpc, taken, cancelled, listings, bounds>>

(* The timer of a snapshot in use is stopped and not started again.        *)
ResetTimerStops(c) ==
    /\ pc[c] = "reset"
    /\ armed' = armed \ {after[c][1]}
    /\ Answer(c, PageOf(after[c][1], items[c], after[c][2]))
    /\ UNCHANGED <<volumes, snaps, count, chan, release, cpc, taken, cancelled,
                   listings, bounds>>

(* ps.timer.Reset, even if the snapshot has expired since it was loaded.   *)
ResetTimer(c) ==
    /\ pc[c] = "reset"
    /\ armed' = armed \cup {after[c][1]}
    /\ Answer(c, PageOf(after[c][1], items[c], after[c][2]))
    /\ UNCHANGED <<volumes, snaps, count, chan, release, cpc, taken, cancelled,
                   listings, bounds>>

InUse(id) == \E c \in Clients : pc[c] # "idle" /\ after[c] # NoCursor /\ after[c][1] = id
Offered(id) == \E c \in Clients : page[c].next # NoCursor /\ page[c].next[1] = id

(* A random identifier is one nobody has.                                  *)
Fresh(id) == id \notin DOMAIN snaps \cup armed /\ ~InUse(id) /\ ~Offered(id)

(* A new snapshot under a random identifier, and its first page.           *)
StoreSnapshot(c) ==
    /\ pc[c] = "store" /\ \E i \in SnapIds : Fresh(i)
    /\ LET id == CHOOSE i \in SnapIds : Fresh(i)
       IN  /\ snaps' = [i \in DOMAIN snaps \cup {id} |-> IF i = id THEN items[c] ELSE snaps[i]]
           /\ armed' = armed \cup {id}
           /\ count' = count + 1
           /\ Answer(c, PageOf(id, items[c], 0))
    /\ UNCHANGED <<volumes, chan, release, cpc, taken, cancelled, listings, bounds>>

(* The request fails before its handler has done anything that stays: no   *)
(* connection, a status of 400 or more, a body that does not decode, or    *)
(* the context has ended.                                                  *)
FetchFails(c) ==
    /\ pc[c] = "fetch" /\ result[c] = "none" /\ ~OverBudget(c)
    /\ Respond(c, Failed)
    /\ UNCHANGED <<server, chan, release, cpc, taken, cancelled, listings, bounds>>

-----------------------------------------------------------------------------
(* deleteSnapshot when it decrements whether or not it deleted.            *)
ExpireDecrements(id) ==
    /\ id \in armed /\ armed' = armed \ {id}
    /\ \/ ~InUse(id) /\ ~Offered(id) /\ UNCHANGED early
       \/ (InUse(id) \/ Offered(id)) /\ early < MaxEarly /\ early' = early + 1
    /\ snaps' = [i \in DOMAIN snaps \ {id} |-> snaps[i]]
    /\ count' = IF count > 0 THEN count - 1 ELSE 0
    /\ UNCHANGED <<volumes, pc, after, items, page, got, result, pipe, cancelled,
                   listings, walks, changes>>

(* A timer fires: deleteSnapshot.  That it does so under a walk, which     *)
(* takes longer than the time to live for a page, happens MaxEarly times.  *)
Expire(id) ==
    /\ id \in armed /\ armed' = armed \ {id}
    /\ \/ ~InUse(id) /\ ~Offered(id) /\ UNCHANGED early
       \/ (InUse(id) \/ Offered(id)) /\ early < MaxEarly /\ early' = early + 1
    /\ snaps' = [i \in DOMAIN snaps \ {id} |-> snaps[i]]
    /\ count' = IF id \in DOMAIN snaps THEN count - 1 ELSE count
    /\ UNCHANGED <<volumes, pc, after, items, page, got, result, pipe, cancelled,
                   listings, walks, changes>>

-----------------------------------------------------------------------------
(* The producer sends its page and goes on to the next one, if any.        *)
Send(c) ==
    /\ pc[c] = "send" /\ Len(chan[c]) < Prefetch
    /\ chan' = [chan EXCEPT ![c] = Append(@, page[c])]
    /\ after' = [after EXCEPT ![c] = page[c].next]
    /\ pc' = [pc EXCEPT ![c] = IF page[c].next = NoCursor THEN "closed" ELSE "fetch"]
    /\ page' = [page EXCEPT ![c] = NoPage]
    /\ UNCHANGED <<server, items, got, result, pending, release, cpc, taken, cancelled,
                   listings, bounds>>

(* pipeCtx ends with the caller's context or when paginate returns.        *)
Done(c) == c \in cancelled \/ result[c] # "none"

(* The producer sees it where it waits, and closes the channel.  The page  *)
(* it holds, an error included, is dropped.                                *)
StopProducer(c) ==
    /\ c \in Streamers /\ Done(c)
    /\ pc[c] = "fetch" => result[c] # "none"
    /\ pc[c] \in {"send", "wait", "fetch"}
    /\ pc' = [pc EXCEPT ![c] = "closed"]
    /\ page' = [page EXCEPT ![c] = NoPage]
    /\ after' = [after EXCEPT ![c] = NoCursor]
    /\ UNCHANGED <<server, items, got, result, pipe, cancelled, listings, bounds>>

(* The consumer takes a page: its error ends the walk, its items go to the *)
(* callback, whose error ends the walk as well.                            *)
Receive(c) ==
    /\ cpc[c] = "recv" /\ chan[c] # <<>>
    /\ chan' = [chan EXCEPT ![c] = Tail(@)]
    /\ LET p == Head(chan[c])
       IN  \/ /\ result' = [result EXCEPT ![c] = "error"]
              /\ cpc' = [cpc EXCEPT ![c] = "idle"]
              /\ UNCHANGED <<got, taken>>
           \/ /\ ~p.err
              /\ got' = [got EXCEPT ![c] = @ \o p.items]
              /\ taken' = [taken EXCEPT ![c] = Len(p.items)]
              /\ cpc' = [cpc EXCEPT ![c] = IF MaxBytes > 0 THEN "deduct" ELSE "recv"]
              /\ UNCHANGED result
    /\ UNCHANGED <<server, pc, after, items, page, pending, release, cancelled,
                   listings, bounds>>

Deduct(c) ==
    /\ pending' = [pending EXCEPT ![c] = @ - taken[c]]
    /\ taken' = [taken EXCEPT ![c] = 0] /\ UNCHANGED release
Signal(c) ==
    /\ release' = [release EXCEPT ![c] = TRUE] /\ UNCHANGED <<pending, taken>>

(* The budget is given back the wrong way round: first the token.          *)
GiveBackSwapped(c) ==
    /\ \/ cpc[c] = "deduct" /\ cpc' = [cpc EXCEPT ![c] = "signal"] /\ Signal(c)
       \/ cpc[c] = "signal" /\ cpc' = [cpc EXCEPT ![c] = "recv"] /\ Deduct(c)
    /\ UNCHANGED <<server, pc, after, items, page, got, result, chan, cancelled,
                   listings, bounds>>

(* The page's bytes are given back, then a token is put into the release   *)
(* channel unless one is there.                                            *)
GiveBack(c) ==
    /\ \/ cpc[c] = "deduct" /\ cpc' = [cpc EXCEPT ![c] = "signal"] /\ Deduct(c)
       \/ cpc[c] = "signal" /\ cpc' = [cpc EXCEPT ![c] = "recv"] /\ Signal(c)
    /\ UNCHANGED <<server, pc, after, items, page, got, result, chan, cancelled,
                   listings, bounds>>

(* The channel is closed and empty: the consumer returns without an error. *)
Drained(c) ==
    /\ cpc[c] = "recv" /\ chan[c] = <<>> /\ pc[c] = "closed"
    /\ cpc' = [cpc EXCEPT ![c] = "idle"]
    /\ result' = [result EXCEPT ![c] = "ok"]
    /\ UNCHANGED <<server, pc, after, items, page, got, chan, pending, release, taken,
                   cancelled, listings, bounds>>

(* The caller's context ends; a collector only sees its request fail.      *)
Cancel(c) ==
    /\ c \in Streamers /\ pc[c] # "idle" /\ result[c] = "none" /\ c \notin cancelled
    /\ cancelled' = cancelled \cup {c}
    /\ UNCHANGED <<server, pc, after, items, page, got, result, pipe, listings, bounds>>

(* Both goroutines are gone and so is the call.                            *)
EndWalk(c) ==
    /\ pc[c] = "closed" /\ result[c] # "none"
    /\ pc' = [pc EXCEPT ![c] = "idle"] /\ after' = [after EXCEPT ![c] = NoCursor]
    /\ got' = [got EXCEPT ![c] = <<>>] /\ result' = [result EXCEPT ![c] = "none"]
    /\ chan' = [chan EXCEPT ![c] = <<>>] /\ pending' = [pending EXCEPT ![c] = 0]
    /\ release' = [release EXCEPT ![c] = FALSE] /\ taken' = [taken EXCEPT ![c] = 0]
    /\ cancelled' = cancelled \ {c} /\ listings' = [listings EXCEPT ![c] = {}]
    /\ UNCHANGED <<server, items, page, cpc, bounds>>

Step(c) ==
    \/ AwaitBudget(c) \/ Fetch(c) \/ ResetTimer(c) \/ StoreSnapshot(c)
    \/ FetchFails(c) \/ Send(c) \/ StopProducer(c)
    \/ EndWalk(c)

Consumer(c) == Receive(c) \/ GiveBack(c) \/ Drained(c)

Next ==
    \/ \E v \in 1..MaxVolumes : Change(v)
    \/ \E id \in SnapIds : Expire(id)
    \/ \E c \in Clients : StartWalk(c) \/ Step(c) \/ Consumer(c) \/ Cancel(c)

Spec == Init /\ [][Next]_vars

(* Fairness: requests are answered or fail, goroutines run, callbacks      *)
(* return and timers fire.                                                 *)
FairSpec ==
    /\ Spec
    /\ \A c \in Clients : WF_vars(Step(c)) /\ WF_vars(Consumer(c))
    /\ WF_vars(\E id \in SnapIds : Expire(id))

-----------------------------------------------------------------------------
(* snapshotCount is the number of stored snapshots, although a request may *)
(* re-arm the timer of a snapshot that has expired since it was loaded,    *)
(* and the timer then fires a second time.  A counter that drifts up turns *)
(* pagination off, one that drifts down lifts the cap.                     *)
CountExact == count = Cardinality(DOMAIN snaps)

(* Memory is bounded on both sides, if not by the numbers in the settings: *)
(* the cap is checked before the snapshot is stored and can be exceeded by *)
(* the requests that passed the check together, and the budget is checked  *)
(* before a page is fetched and can be exceeded by that page.              *)
MemoryBounded ==
    /\ Cardinality(DOMAIN snaps) <= MaxSnapshots + Cardinality(Clients) - 1
    /\ \A c \in Streamers : pending[c] <= MaxBytes - 1 + MaxVolumes

(* A walk that returns without an error and was not cancelled has given    *)
(* its caller a listing that was current at some moment of the walk, whole *)
(* and in order, although volumes change, the cap is reached and cursors   *)
(* expire: an expired cursor starts over, so that the listing then follows *)
(* the pages of the abandoned one.                                         *)
WalkIsListing ==
    \A c \in Clients :
        result[c] = "ok" /\ c \notin cancelled =>
            IF early = 0 THEN got[c] \in listings[c]
            ELSE \E l \in listings[c] : IsSuffix(l, got[c])

(* What the proofs of PaginationProofs need: the listings and pages there  *)
(* are have at most MaxVolumes items,                                      *)
Lists == {s \in Seq(1..MaxVolumes) : Len(s) <= MaxVolumes}
Cursors == {NoCursor} \cup (SnapIds \X Nat)
Pages == [items : Lists, next : Cursors, err : BOOLEAN]

Shaped ==
    /\ volumes \subseteq 1..MaxVolumes
    /\ DOMAIN snaps \subseteq SnapIds /\ \A id \in DOMAIN snaps : snaps[id] \in Lists
    /\ items \in [Clients -> Lists] /\ page \in [Clients -> Pages]
    /\ chan \in [Clients -> Seq(Pages)] /\ after \in [Clients -> Cursors]
    /\ pc \in [Clients -> {"idle", "fetch", "wait", "reset", "store", "send", "closed"}]
    /\ pending \in [Clients -> Int] /\ taken \in [Clients -> Nat]
    /\ \A c \in Clients : pc[c] = "reset" => after[c] # NoCursor

(* who has passed the check of the cap counts as if he had stored,         *)
Storing == {c \in Clients : pc[c] = "store"}
CapKept ==
    /\ IsFiniteSet(DOMAIN snaps) /\ CountExact
    /\ count + Cardinality(Storing) <= MaxSnapshots + Cardinality(Clients) - 1

(* and a request is on its way only if there was budget for it.            *)
BudgetKept ==
    \A c \in Streamers :
        /\ pending[c] <= MaxBytes - 1 + MaxVolumes
        /\ pc[c] \in {"reset", "store"} => pending[c] < MaxBytes

IInv == Shaped /\ CapKept /\ (MaxBytes > 0 => BudgetKept)

(* Every call of paginate returns: neither does the producer wait for a    *)
(* budget nobody gives back, nor the consumer for a page nobody sends, and *)
(* no goroutine stays behind when the callback or a request fails.         *)
WalkEnds == \A c \in Clients : pc[c] # "idle" ~> pc[c] = "idle"

(* Between walks all snapshots leave memory, those whose timer was re-armed *)
(* while it fired included.                                                *)
SnapshotsExpire == []<>(DOMAIN snaps = {})
=============================================================================

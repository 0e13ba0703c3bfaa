------------------------- MODULE AgentTrackerProofs -------------------------
(***************************************************************************)
(* The controller's tracker for any classes, tenants, agents, URLs and     *)
(* claims, and any number of changes and failures: what Kubernetes was     *)
(* told is deleted is gone (SoleDeletedIsGone) from every tenant that has  *)
(* its agent, and the agent's addresses, for itself.                       *)
(***************************************************************************)
EXTENDS AgentTracker, WellFoundedInduction, TLAPS

(* A set of classes has a first one.                                       *)
LEMMA FirstClass ==
    ASSUME NEW S, S \subseteq Nat, S # {}
    PROVE  Min(S) \in S
<1>1. PICK x \in S : \A y \in S : ~(<<y, x>> \in OpToRel(<, Nat))
    BY NatLessThanWellFounded, WFMin
<1>2. \A y \in S : x =< y
  <2> TAKE y \in S
  <2>1. x \in Nat /\ y \in Nat
      OBVIOUS
  <2>2. ~(y < x)
      BY <1>1, <2>1 DEF OpToRel
  <2> QED BY <2>1, <2>2
<1> QED BY <1>2 DEF Min

(* Of the clients the tracker makes, each is of some tenant.               *)
LEMMA ClientsOfTenants ==
    ASSUME IInv
    PROVE  \A u \in DOMAIN ClientsAfter : ClientsAfter[u].tenant \in TenantsInUse
<1> DEFINE known == {found[c].url : c \in DOMAIN found}
           Offers(u) == {c \in DOMAIN found : found[c].url = u /\ found[c].token # None}
<1>1. ASSUME NEW u, Offers(u) # {}
      PROVE  found[Min(Offers(u))].token.tenant \in TenantsInUse
  <2>1. Offers(u) \subseteq Nat
      BY TrackerAssumption DEF IInv, TrackerFits
  <2>2. Min(Offers(u)) \in Offers(u)
      BY <1>1, <2>1, FirstClass
  <2> QED BY <2>2 DEF IInv, TrackerFits
<1> HIDE DEF Offers
<1>2. ClientsAfter = [u \in {w \in known : w \in DOMAIN agents \/ Offers(w) # {}} |->
                         IF u \in DOMAIN agents THEN agents[u] ELSE found[Min(Offers(u))].token]
    BY DEF ClientsAfter, Offers
<1> QED BY <1>1, <1>2 DEF IInv, TrackerFits

LEMMA InitIInv == Init => IInv
BY TrackerAssumption
   DEF Init, IInv, TrackerFits, URLsAreOwn, SoleDeletedIsGone, Nothing, Claims

(* Who has its agent for itself had it before: addresses are not forgotten.*)
LEMMA SoleBefore ==
    ASSUME NEW t, Sole(t)', hosts \subseteq hosts'
    PROVE  Sole(t)
BY DEF Sole

(* Steps that leave the claims and the store alone.                        *)
LEMMA TrackerSteps ==
    ASSUME IInv, TrackerStep \/ ClusterEvent
    PROVE  IInv'
<1>0. UNCHANGED <<store, claim>>
    BY DEF TrackerStep, ListClasses, DiscoverFromStorageClasses, RoundEnds, CheckAgent,
       ClusterEvent, ClassChanges, AgentMoves, TokenRotated, ControllerRestart
<1>1. SoleDeletedIsGone'
  <2>1. hosts \subseteq hosts'
      BY DEF TrackerStep, ListClasses, DiscoverFromStorageClasses, RoundEnds, CheckAgent,
         ClusterEvent, ClassChanges, AgentMoves, TokenRotated, ControllerRestart, cluster
  <2> QED BY <1>0, <2>1, SoleBefore DEF IInv, SoleDeletedIsGone
<1>2. CASE ListClasses
  <2>1. UNCHANGED <<classes, addr, hosts, claim, scToURL, agents>>
      BY <1>2 DEF ListClasses, cluster
  <2>2. \/ found' = found
        \/ /\ DOMAIN found' = classes
           /\ \A c \in classes :
                  /\ found'[c].url = addr[AgentOf[TenantOf[c]]]
                  /\ found'[c].token = None \/ found'[c].token.tenant = TenantOf[c]
      BY <1>2 DEF ListClasses, DiscoverAgents, URLOf, Current
  <2>3. \A c \in Classes : AgentOf[TenantOf[c]] \in Agents /\ TenantOf[c] \in TenantsInUse
      BY TrackerAssumption DEF TenantsInUse
  <2>4. TrackerFits'
      BY <2>1, <2>2, <2>3 DEF IInv, TrackerFits
  <2>5. URLsAreOwn'
      BY <2>1, <2>2, <2>3 DEF IInv, TrackerFits, URLsAreOwn
  <2> QED BY <1>1, <2>4, <2>5 DEF IInv
<1>3. CASE DiscoverFromStorageClasses
  <2>1. /\ UNCHANGED <<classes, addr, hosts, claim>> /\ found' = Nothing
        /\ scToURL' = [c \in DOMAIN found |-> found[c].url] /\ agents' = ClientsAfter
      BY <1>3 DEF DiscoverFromStorageClasses, cluster
  <2>2. TrackerFits'
      BY <2>1, ClientsOfTenants DEF IInv, TrackerFits, Nothing
  <2>3. URLsAreOwn'
      BY <2>1 DEF IInv, URLsAreOwn, Nothing
  <2> QED BY <1>1, <2>2, <2>3 DEF IInv
<1>4. CASE RoundEnds \/ \E c \in Classes : CheckAgent(c)
    BY <1>1, <1>4 DEF RoundEnds, CheckAgent, cluster, IInv, TrackerFits, URLsAreOwn
<1>5. CASE \E c \in Classes : ClassChanges(c)
    BY <1>1, <1>5 DEF ClassChanges, tracker, IInv, TrackerFits, URLsAreOwn
<1>6. CASE \E a \in Agents, u \in URLs : AgentMoves(a, u)
  <2>1. PICK a \in Agents, u \in URLs : AgentMoves(a, u)
      BY <1>6
  <2>2. /\ UNCHANGED <<classes, scToURL, agents, found>>
        /\ addr' = [addr EXCEPT ![a] = u] /\ hosts' = hosts \cup {<<u, a>>}
      BY <2>1 DEF AgentMoves, tracker
  <2>4. TrackerFits'
      BY <1>0, <2>2 DEF IInv, TrackerFits
  <2>5. URLsAreOwn'
      BY <2>2 DEF IInv, TrackerFits, URLsAreOwn
  <2> QED BY <1>1, <2>4, <2>5 DEF IInv
<1>7. CASE \E t \in Tenants : TokenRotated(t)
    BY <1>1, <1>7 DEF TokenRotated, tracker, IInv, TrackerFits, URLsAreOwn
<1>8. CASE ControllerRestart
    BY <1>1, <1>8 DEF ControllerRestart, cluster, Nothing, IInv, TrackerFits, URLsAreOwn
<1> QED BY <1>2, <1>3, <1>4, <1>5, <1>6, <1>7, <1>8 DEF TrackerStep, ClusterEvent

(* The tenant of the client of a class, if its agent accepts it, is the    *)
(* tenant of the class, if that has its agent for itself.                  *)
LEMMA RightTenant ==
    ASSUME IInv, NEW cl \in Claims, ClassOf[cl] \in DOMAIN scToURL, Serves(cl),
           Sole(TenantOf[ClassOf[cl]])
    PROVE  ClientFor(ClassOf[cl]).tenant = TenantOf[ClassOf[cl]]
<1> DEFINE c == ClassOf[cl]
           token == ClientFor(c)
<1>1. c \in Classes /\ TenantOf[c] \in TenantsInUse
    BY TrackerAssumption DEF Claims, TenantsInUse
<1>2. token.tenant \in TenantsInUse
    BY <1>1 DEF ClientFor, Current, IInv, TrackerFits
<1>3. addr[AgentOf[token.tenant]] = scToURL[c]
    BY DEF Serves, Accepted
<1>4. AgentOf[token.tenant] \in Agents
    BY <1>2, TrackerAssumption DEF TenantsInUse
<1>5. /\ <<scToURL[c], AgentOf[token.tenant]>> \in hosts
      /\ <<scToURL[c], AgentOf[TenantOf[c]]>> \in hosts
    BY <1>3, <1>4 DEF IInv, URLsAreOwn
<1>6. AgentOf[token.tenant] = AgentOf[TenantOf[c]]
    BY <1>5 DEF Sole
<1> QED BY <1>2, <1>6 DEF Sole, TenantsInUse

(* The calls and the deletion of a claim.                                  *)
LEMMA ClaimSteps ==
    ASSUME IInv, NEW cl \in Claims, Call(cl) \/ ClaimDeleted(cl)
    PROVE  IInv'
<1>1. CASE ClaimDeleted(cl)
    BY <1>1 DEF ClaimDeleted, cluster, tracker, IInv, TrackerFits, URLsAreOwn,
                SoleDeletedIsGone, Sole
<1>2. CASE CreateVolume(cl)
  <2> DEFINE c == ClassOf[cl]
             t == TenantOf[c]
  <2>1. t \in TenantsInUse
      BY TrackerAssumption DEF Claims, TenantsInUse
  <2>2. /\ claim[cl] = "new" /\ UNCHANGED <<classes, addr, hosts, scToURL, found>>
        /\ agents' = [w \in DOMAIN agents \cup {URLOf(c)} |->
                         IF w = URLOf(c) THEN Current(t) ELSE agents[w]]
        /\ store' \subseteq store \cup {<<t, cl>>}
        /\ claim' = claim \/ claim' = [claim EXCEPT ![cl] = "bound"]
      BY <1>2 DEF CreateVolume, Request, cluster, Current
  <2>3. \A u \in DOMAIN agents' : agents'[u].tenant \in TenantsInUse
      BY <2>1, <2>2 DEF Current, IInv, TrackerFits
  <2>4. TrackerFits'
      BY <2>2, <2>3 DEF IInv, TrackerFits
  <2>5. URLsAreOwn'
      BY <2>2 DEF IInv, URLsAreOwn
  <2>6. SoleDeletedIsGone'
      BY <2>2 DEF IInv, TrackerFits, SoleDeletedIsGone, Sole
  <2> QED BY <2>4, <2>5, <2>6 DEF IInv
<1>3. ASSUME ByClass(cl),
             \/ /\ claim[cl] = "new" /\ store' \subseteq store \cup {Copy(cl, cl)}
                /\ claim' = claim \/ claim' = [claim EXCEPT ![cl] = "bound"]
             \/ claim' = claim /\ store' \subseteq store
             \/ /\ Serves(cl) /\ store' \subseteq store \ {Copy(cl, cl)}
                /\ claim' = [claim EXCEPT ![cl] = "gone"]
      PROVE  IInv'
  <2> DEFINE c == ClassOf[cl]
             u == scToURL[c]
             token == ClientFor(c)
  <2>1. /\ c \in DOMAIN scToURL /\ UNCHANGED <<classes, addr, hosts, scToURL, found>>
        /\ agents' = [w \in DOMAIN agents \cup {u} |-> IF w = u THEN token ELSE agents[w]]
      BY <1>3 DEF ByClass, cluster
  <2>2. token.tenant \in TenantsInUse
    <3>1. TenantOf[c] \in TenantsInUse
        BY TrackerAssumption DEF Claims, TenantsInUse
    <3> QED BY <3>1 DEF ClientFor, Current, IInv, TrackerFits
  <2>3. Serves(cl) /\ Sole(TenantOf[c]) => Copy(cl, cl) = <<TenantOf[c], cl>>
      BY <2>1, RightTenant DEF Copy
  <2>4. \A q \in Claims \ {cl} : <<TenantOf[ClassOf[q]], q>> # Copy(cl, cl)
      BY DEF Copy
  <2>5. TrackerFits'
    <3>1. \A w \in DOMAIN agents' : agents'[w].tenant \in TenantsInUse
        BY <2>1, <2>2 DEF IInv, TrackerFits
    <3> QED BY <1>3, <2>1, <3>1 DEF IInv, TrackerFits
  <2>6. URLsAreOwn'
      BY <2>1 DEF IInv, URLsAreOwn
  <2>7. SoleDeletedIsGone'
    <3>1. ASSUME NEW t, Sole(t)' PROVE Sole(t)
        BY <2>1, <3>1, SoleBefore
    <3> QED BY <1>3, <2>3, <2>4, <3>1 DEF IInv, TrackerFits, SoleDeletedIsGone
  <2> QED BY <2>5, <2>6, <2>7 DEF IInv
<1>4. CASE DeleteVolume(cl) \/ DeleteSnapshot(cl)
    BY <1>3, <1>4 DEF DeleteVolume, DeleteSnapshot, Request
<1>5. CASE CreateSnapshot(cl)
    BY <1>3, <1>5 DEF CreateSnapshot, Request
<1> QED BY <1>1, <1>2, <1>4, <1>5 DEF Call

LEMMA NextIInv == IInv /\ [Next]_vars => IInv'
<1> SUFFICES ASSUME IInv, [Next]_vars PROVE IInv'
    OBVIOUS
<1>1. CASE Poll(PollerStep) \/ Poll(DeviceEvent) \/ UNCHANGED vars
    BY <1>1 DEF Poll, vars, cluster, tracker, IInv, TrackerFits, URLsAreOwn, SoleDeletedIsGone,
                Sole
<1> QED BY <1>1, TrackerSteps, ClaimSteps DEF Next

(* A claim whose deletion Kubernetes was told of has no copy left in the   *)
(* tenant of its class, if no other tenant is served by that agent and no  *)
(* other agent ever had one of its addresses: with any number of moved     *)
(* agents, changed tokens, restarts and lost answers, however the other    *)
(* tenants share theirs.                                                   *)
THEOREM DeletedAreGone == Spec => []SoleDeletedIsGone
<1>1. IInv => SoleDeletedIsGone
    BY DEF IInv
<1> QED BY <1>1, InitIInv, NextIInv, PTL DEF Spec
=============================================================================

---------------------------- MODULE AgentTracker ----------------------------
(***************************************************************************)
(* The CSI controller and its agents (controller/agenttracker.go, utils.go,*)
(* volumes.go, snapshots.go): the tracker, a cache of one client per agent *)
(* URL and of the URL of every StorageClass, refreshed once a minute from  *)
(* Kubernetes; the calls that take their client from it; and the health    *)
(* check of every class, answered from an agent's device statistics.       *)
(*                                                                         *)
(* A claim stands for a volume or a snapshot that Kubernetes wants and     *)
(* later deletes, calling again after every failure.  A call is one step:  *)
(* the client is found, the agent answers.  An agent accepts a token of    *)
(* one of its tenants and works in that tenant's directory.                *)
(***************************************************************************)
EXTENDS DeviceStats, FiniteSetsExt

CONSTANTS Classes,     \* StorageClasses, numbered in the order of their names
          Tenants, Agents, URLs,
          TenantOf,    \* class -> the tenant whose token its secret holds
          AgentOf,     \* tenant -> its agent
          Address,     \* agent -> its first URL
          Monitored,   \* the agent whose devices DeviceStats shows
          Outdated,    \* agents of another version than the driver
          Volumes, Snapshots,   \* claims
          ClassOf,     \* claim -> class
          SourceOf,    \* snapshot -> volume
          None

ASSUME TrackerAssumption ==
    /\ Classes \subseteq Nat /\ TenantOf \in [Classes -> Tenants]
    /\ AgentOf \in [Tenants -> Agents] /\ Address \in [Agents -> URLs]
    /\ ClassOf \in [Volumes \cup Snapshots -> Classes]
    /\ SourceOf \in [Snapshots -> Volumes]

VARIABLES classes,     \* the classes that exist
          addr,        \* agent -> URL, also the agentURL of its classes
          hosts,       \* history: pairs <<URL, agent>>, who was where
          gen,         \* tenant -> generation of its token and secret
          store,       \* what the agents hold: pairs <<tenant, claim>>
          claim,       \* claim -> "new", "bound", "released", "gone"
          scToURL,     \* the tracker's URL of a class
          agents,      \* the tracker's client at a URL, by its token
          found,       \* what discoverAgents has listed
          left,        \* classes checkAll has still to ask, with their URLs
          round,       \* where Run is: "idle", "listed", "checking"
          report,      \* class -> outcome of its last health check
          polling      \* bound: a behaviour has either claims or pollers and
                       \* device faults, which only meet in the tracker

cluster == <<classes, addr, hosts, gen>>
tracker == <<scToURL, agents, found, left, round, report>>
agentDevices == <<devices, polling>>
vars == <<agentDevices, events, cluster, store, claim, tracker>>

Claims == Volumes \cup Snapshots
Token == [tenant : Tenants, gen : 0..MaxEvents]

TypeOK ==
    /\ DeviceTypeOK
    /\ classes \subseteq Classes /\ addr \in [Agents -> URLs]
    /\ hosts \subseteq URLs \X Agents
    /\ gen \in [Tenants -> 0..MaxEvents]
    /\ store \subseteq Tenants \X Claims
    /\ claim \in [Claims -> {"new", "bound", "released", "gone"}]
    /\ scToURL \in Partial(Classes, URLs)
    /\ agents \in Partial(URLs, Token)
    /\ found \in Partial(Classes, [url : URLs, token : Token \cup {None}])
    /\ left \in Partial(Classes, URLs)
    /\ round \in {"idle", "listed", "checking"}
    /\ polling \in BOOLEAN
    /\ report \in [Classes -> {"none", "healthy", "degraded", "version_mismatch", "error"}]

URLOf(c) == addr[AgentOf[TenantOf[c]]]
Current(t) == [tenant |-> t, gen |-> gen[t]]

Init ==
    /\ DeviceInit
    /\ classes = Classes /\ addr = Address
    /\ hosts = {<<Address[a], a>> : a \in Agents}
    /\ gen = [t \in Tenants |-> 0]
    /\ store = {} /\ claim = [cl \in Claims |-> "new"]
    /\ scToURL = Nothing /\ agents = Nothing
    /\ found = Nothing /\ left = Nothing /\ round = "idle"
    /\ report = [c \in Classes |-> "none"]
    /\ polling \in BOOLEAN
-----------------------------------------------------------------------------
(* Operators change the cluster: a class is deleted or created, an agent   *)
(* moves, perhaps to an address that another one had, a tenant gets a new  *)
(* token, in the agent and in its secret.                                  *)
ClassChanges(c) ==
    /\ Event /\ classes' = IF c \in classes THEN classes \ {c} ELSE classes \cup {c}
    /\ UNCHANGED <<agentDevices, addr, hosts, gen, store, claim, tracker>>

AgentMoves(a, u) ==
    /\ \A b \in Agents : addr[b] # u
    /\ Event /\ addr' = [addr EXCEPT ![a] = u] /\ hosts' = hosts \cup {<<u, a>>}
    /\ UNCHANGED <<agentDevices, classes, gen, store, claim, tracker>>

TokenRotated(t) ==
    /\ Event /\ gen' = [gen EXCEPT ![t] = @ + 1]
    /\ UNCHANGED <<agentDevices, classes, addr, hosts, store, claim, tracker>>

(* NewAgentTracker: the controller starts again and knows nothing.         *)
ControllerRestart ==
    /\ Event
    /\ scToURL' = Nothing /\ agents' = Nothing
    /\ found' = Nothing /\ left' = Nothing /\ round' = "idle"
    /\ report' = [c \in Classes |-> "none"]
    /\ UNCHANGED <<agentDevices, cluster, store, claim>>
-----------------------------------------------------------------------------
(* discoverAgents: the classes with their URLs and tokens; a secret that   *)
(* cannot be read gives no token.                                          *)
DiscoverAgents(unread) ==
    [c \in classes |->
        [url |-> URLOf(c), token |-> IF c \in unread THEN None ELSE Current(TenantOf[c])]]

(* Agents, and the snapshot of checkAll: the classes with a client.        *)
WithClient(urls, clients) ==
    [c \in {d \in DOMAIN urls : urls[d] \in DOMAIN clients} |-> urls[c]]

(* A listing that fails leaves the tracker as it is.                       *)
ListClasses ==
    /\ round = "idle"
    /\ \/ /\ Quiet /\ found' = DiscoverAgents({})
          /\ round' = "listed" /\ UNCHANGED left
       \/ /\ Event /\ \E c \in classes : found' = DiscoverAgents({c})
          /\ round' = "listed" /\ UNCHANGED left
       \/ /\ Event /\ UNCHANGED found
          /\ round' = "checking" /\ left' = WithClient(scToURL, agents)
    /\ UNCHANGED <<agentDevices, cluster, store, claim, scToURL, agents, report>>

(* Mutant: a client whose URL no class names any more is kept.             *)
ClientsKept ==
    LET known == {found[c].url : c \in DOMAIN found}
        Offers(u) == {c \in DOMAIN found : found[c].url = u /\ found[c].token # None}
    IN  [u \in DOMAIN agents \cup {w \in known : Offers(w) # {}} |->
            IF u \in DOMAIN agents THEN agents[u] ELSE found[Min(Offers(u))].token]

(* A URL that has a client keeps it; another gets one from the first class *)
(* that has a token for it; clients of URLs no class names are dropped.    *)
ClientsAfter ==
    LET known == {found[c].url : c \in DOMAIN found}
        Offers(u) == {c \in DOMAIN found : found[c].url = u /\ found[c].token # None}
    IN  [u \in {w \in known : w \in DOMAIN agents \/ Offers(w) # {}} |->
            IF u \in DOMAIN agents THEN agents[u] ELSE found[Min(Offers(u))].token]

(* Mutant: a class that is known keeps its URL.                            *)
DiscoverOnlyNew ==
    /\ round = "listed" /\ Quiet
    /\ scToURL' = [c \in DOMAIN found |->
                      IF c \in DOMAIN scToURL THEN scToURL[c] ELSE found[c].url]
    /\ agents' = ClientsAfter
    /\ found' = Nothing
    /\ left' = WithClient(scToURL', agents') /\ round' = "checking"
    /\ UNCHANGED <<agentDevices, cluster, store, claim, report>>

(* discoverFromStorageClasses under the lock, and the start of checkAll:   *)
(* health checks carry no token, so the URLs are all that matters.         *)
DiscoverFromStorageClasses ==
    /\ round = "listed" /\ Quiet
    /\ scToURL' = [c \in DOMAIN found |-> found[c].url]
    /\ agents' = ClientsAfter
    /\ found' = Nothing
    /\ left' = WithClient(scToURL', agents') /\ round' = "checking"
    /\ UNCHANGED <<agentDevices, cluster, store, claim, report>>

(* Healthz of the agent at a URL.                                          *)
Healthz(u) ==
    IF \A a \in Agents : addr[a] # u THEN "error"
    ELSE LET a == CHOOSE b \in Agents : addr[b] = u
         IN  IF a = Monitored /\ IsDegraded THEN "degraded"
             ELSE IF a \in Outdated THEN "version_mismatch" ELSE "healthy"

CheckAgent(c) ==
    /\ round = "checking" /\ c \in DOMAIN left
    /\ \/ Quiet /\ report' = [report EXCEPT ![c] = Healthz(left[c])]
       \/ Event /\ report' = [report EXCEPT ![c] = "error"]
    /\ left' = [d \in DOMAIN left \ {c} |-> left[d]]
    /\ UNCHANGED <<agentDevices, cluster, store, claim, scToURL, agents, found, round>>

RoundEnds ==
    /\ round = "checking" /\ left = Nothing /\ Quiet
    /\ round' = "idle"
    /\ UNCHANGED <<agentDevices, cluster, store, claim, scToURL, agents, found, left, report>>
-----------------------------------------------------------------------------
(* AuthMiddleware: the tenant of a token the agent at u knows.             *)
Accepted(u, token) == /\ addr[AgentOf[token.tenant]] = u
                      /\ token = Current(token.tenant)

(* Mutant: a client that is refused has nothing to delete.                 *)
RequestTrusting(cl, served, held, next) ==
    /\ Quiet /\ claim' = [claim EXCEPT ![cl] = next]
    /\ store' = IF served THEN held ELSE store

(* The agent's answer to a call that a tenant's agent can serve or not:    *)
(* the claim goes on to its next state, or the answer is lost, or the call *)
(* fails before it has any effect.                                         *)
Request(cl, served, held, next) ==
    \/ /\ served /\ store' = held
       /\ \/ Quiet /\ claim' = [claim EXCEPT ![cl] = next]
          \/ Event /\ UNCHANGED claim
    \/ /\ IF served THEN Event ELSE Quiet
       /\ UNCHANGED <<store, claim>>

(* CreateVolume: a client from the secrets and parameters of the request,  *)
(* which becomes the client of the URL, whatever comes of the call.  A PVC *)
(* that cannot be read leaves the class unknown and ends the call.  A      *)
(* volume that is there already is a success.                              *)
CreateVolume(v) ==
    LET c == ClassOf[v]
        u == URLOf(c)
        token == Current(TenantOf[c])
    IN
    /\ ~polling /\ claim[v] = "new" /\ c \in classes
    /\ agents' = [w \in DOMAIN agents \cup {u} |-> IF w = u THEN token ELSE agents[w]]
    /\ Request(v, Accepted(u, token), store \cup {<<token.tenant, v>>}, "bound")
    /\ UNCHANGED <<agentDevices, cluster, scToURL, found, left, round, report>>

(* agentClientFromStorageClass: the tracked client; for a class that has a *)
(* URL but no client, one from the secrets, which is tracked.              *)
ClientFor(c) ==
    LET u == scToURL[c]
    IN  IF u \in DOMAIN agents THEN agents[u] ELSE Current(TenantOf[c])

(* A call for a claim by its class.                                        *)
ByClass(cl) ==
    LET c == ClassOf[cl]
    IN  /\ c \in DOMAIN scToURL
        /\ agents' = [u \in DOMAIN agents \cup {scToURL[c]} |->
                         IF u = scToURL[c] THEN ClientFor(c) ELSE agents[u]]
        /\ UNCHANGED <<agentDevices, cluster, scToURL, found, left, round, report>>

Serves(cl) == Accepted(scToURL[ClassOf[cl]], ClientFor(ClassOf[cl]))
Copy(cl, name) == <<ClientFor(ClassOf[cl]).tenant, name>>

(* DeleteVolume and DeleteSnapshot: what is not found is deleted.          *)
DeleteVolume(v) ==
    /\ claim[v] = "released" /\ ByClass(v)
    /\ Request(v, Serves(v), store \ {Copy(v, v)}, "gone")

DeleteSnapshot(s) ==
    /\ claim[s] = "released" /\ ByClass(s)
    /\ Request(s, Serves(s), store \ {Copy(s, s)}, "gone")

(* CreateSnapshot of a volume the tenant has; a snapshot of that name      *)
(* already there is a success.                                             *)
CreateSnapshot(s) ==
    /\ claim[s] = "new" /\ claim[SourceOf[s]] = "bound" /\ ByClass(s)
    /\ Request(s, Serves(s) /\ (Copy(s, SourceOf[s]) \in store \/ Copy(s, s) \in store),
               store \cup {Copy(s, s)}, "bound")

(* The owner of a claim deletes it.                                        *)
ClaimDeleted(cl) ==
    /\ claim[cl] = "bound" /\ Quiet
    /\ claim' = [claim EXCEPT ![cl] = "released"]
    /\ UNCHANGED <<agentDevices, cluster, store, tracker>>

Call(cl) == \/ cl \in Volumes /\ (CreateVolume(cl) \/ DeleteVolume(cl))
            \/ cl \in Snapshots /\ (CreateSnapshot(cl) \/ DeleteSnapshot(cl))
-----------------------------------------------------------------------------
(* What a client lists: all pages of all that its tenant has, if the agent *)
(* accepts it.                                                             *)
Listed(c, kind) ==
    IF Accepted(scToURL[c], agents[scToURL[c]])
      THEN {cl \in kind : <<agents[scToURL[c]].tenant, cl>> \in store} ELSE {}

(* Mutant: no limit is a limit of none.                                    *)
ListAllLimited(kind, limit) ==
    LET asked == DOMAIN WithClient(scToURL, agents)
        Before(c) == UNION {{b} \X Listed(b, kind) : b \in {b \in asked : b < c}}
    IN  UNION {{c} \X Listed(c, kind) : c \in {d \in asked : Cardinality(Before(d)) < limit}}

(* ListVolumes and ListSnapshots over all agents, which are asked in the   *)
(* order of their classes until limit entries are there; an agent that     *)
(* fails is left out.  IDs are pairs of a class and a name.                *)
ListAll(kind, limit) ==
    LET asked == DOMAIN WithClient(scToURL, agents)
        Before(c) == UNION {{b} \X Listed(b, kind) : b \in {b \in asked : b < c}}
    IN  UNION {{c} \X Listed(c, kind) :
                  c \in {d \in asked : limit = 0 \/ Cardinality(Before(d)) < limit}}

ListVolumes(limit) == ListAll(Volumes, limit)
ListSnapshots(limit) == ListAll(Snapshots, limit)

(* ListSnapshots by the ID of a snapshot, and by that of its volume.       *)
SnapshotByID(c, s) ==
    IF c \in DOMAIN WithClient(scToURL, agents) THEN Listed(c, Snapshots) \cap {s} ELSE {}

SnapshotsOf(c, v) ==
    IF c \in DOMAIN WithClient(scToURL, agents)
      THEN {s \in Listed(c, Snapshots) : SourceOf[s] = v} ELSE {}
-----------------------------------------------------------------------------
TrackerStep == \/ ListClasses \/ DiscoverFromStorageClasses \/ RoundEnds
               \/ \E c \in Classes : CheckAgent(c)

ClusterEvent == \/ \E c \in Classes : ClassChanges(c)
                \/ \E a \in Agents, u \in URLs : AgentMoves(a, u)
                \/ \E t \in Tenants : TokenRotated(t)
                \/ ControllerRestart

(* A step of the devices and their pollers.                                *)
Poll(A) == polling /\ A /\ UNCHANGED <<polling, cluster, store, claim, tracker>>

Next == \/ Poll(PollerStep) \/ Poll(DeviceEvent)
        \/ TrackerStep \/ ClusterEvent
        \/ \E cl \in Claims : Call(cl) \/ ClaimDeleted(cl)

Spec == Init /\ [][Next]_vars

(* Tickers and handlers keep going, and Kubernetes calls again.  Strong    *)
(* fairness of the loads: no poller is caught between the load and the     *)
(* store of the other one, microseconds apart, every time it wakes up.     *)
FairSpec ==
    /\ Spec
    /\ WF_vars(Poll(IOFetch)) /\ WF_vars(Poll(StatsFetch))
    /\ SF_vars(Poll(IOLoad)) /\ SF_vars(Poll(StatsLoad))
    /\ WF_vars(Poll(IOStore)) /\ WF_vars(Poll(StatsStore))
    /\ WF_vars(ListClasses) /\ WF_vars(RoundEnds)
    /\ WF_vars(DiscoverFromStorageClasses)
    /\ \A c \in Classes : WF_vars(CheckAgent(c))
    /\ \A cl \in Claims : WF_vars(Call(cl))
-----------------------------------------------------------------------------
(* What Kubernetes was told is deleted is gone: a claim whose deletion was *)
(* answered with success has no copy left in the tenant of its class.      *)
(* "Each StorageClass binds one agent and one tenant."                     *)
DeletedIsGone ==
    \A cl \in Claims : claim[cl] = "gone" => <<TenantOf[ClassOf[cl]], cl>> \notin store

(* A tenant has its agent for itself, and the agent its addresses: what    *)
(* the tracker's one client per URL takes for granted.                     *)
Sole(t) ==
    /\ \A c \in Classes : AgentOf[TenantOf[c]] = AgentOf[t] => TenantOf[c] = t
    /\ \A h, k \in hosts : h[1] = k[1] /\ h[2] = AgentOf[t] => k[2] = AgentOf[t]

(* It holds for such tenants, whatever becomes of the others: no move,     *)
(* restart, changed token or lost answer makes a deletion that was refused *)
(* or done elsewhere look like a success.                                  *)
SoleDeletedIsGone ==
    \A cl \in Claims :
        claim[cl] = "gone" /\ Sole(TenantOf[ClassOf[cl]]) =>
            <<TenantOf[ClassOf[cl]], cl>> \notin store

(* The client the tracker keeps for a class is not the one of its secret:  *)
(* the token was changed, or the client is that of another class.          *)
TokenStale(c) ==
    /\ c \in DOMAIN scToURL /\ scToURL[c] \in DOMAIN agents
    /\ agents[scToURL[c]] # Current(TenantOf[c])

(* "agent URLs can change without breaking existing volumes": a deletion   *)
(* is not stuck, whatever moved or restarted, unless the class is gone or  *)
(* the tracker keeps another client for it.                                *)
ReclaimReached ==
    \A cl \in Claims :
        []<>(\/ claim[cl] # "released"
             \/ ClassOf[cl] \notin classes \/ TokenStale(ClassOf[cl]))

(* Once nothing changes any more, every class is mapped to its URL and no  *)
(* client is left of URLs and classes that were given up.                  *)
TrackerConverges ==
    <>[](/\ DOMAIN scToURL = classes
         /\ \A c \in classes : scToURL[c] = URLOf(c)
         /\ DOMAIN agents = {URLOf(c) : c \in classes})

(* "Concurrent load+store from two pollers may cause one update to be      *)
(* lost, but the next poll cycle self-corrects": the cached devices come   *)
(* to be those of the file system, and with them the health check of a     *)
(* class comes to say degraded exactly when a device of its agent is       *)
(* missing or has errors.                                                  *)
HealthConverges ==
    polling => <>[](/\ StatsCurrent
                    /\ \A c \in classes : AgentOf[TenantOf[c]] = Monitored =>
                          (report[c] = "degraded" <=> Unhealthy))

(* The listings come to agree with what Kubernetes was told: every claim   *)
(* it knows to be bound is shown under its own class, a snapshot also by   *)
(* its ID and by its volume, and no claim it knows to be deleted is.       *)
ListingConverges ==
    <>[](\A cl \in Claims :
            LET c == ClassOf[cl]
                listing == IF cl \in Volumes THEN ListVolumes(0) ELSE ListSnapshots(0)
            IN  c \in classes /\ ~TokenStale(c) =>
                    /\ claim[cl] = "bound" =>
                           /\ <<c, cl>> \in listing
                           /\ cl \in Snapshots => /\ SnapshotByID(c, cl) = {cl}
                                                  /\ cl \in SnapshotsOf(c, SourceOf[cl])
                    /\ claim[cl] = "gone" /\ Sole(TenantOf[c]) => <<c, cl>> \notin listing)

-----------------------------------------------------------------------------
(* The invariant behind SoleDeletedIsGone.  What the tracker holds is      *)
(* about classes and their tenants.                                        *)
TenantsInUse == {TenantOf[c] : c \in Classes}

TrackerFits ==
    /\ classes \subseteq Classes /\ addr \in [Agents -> URLs]
    /\ claim \in [Claims -> {"new", "bound", "released", "gone"}]
    /\ DOMAIN scToURL \subseteq Classes /\ DOMAIN found \subseteq Classes
    /\ \A u \in DOMAIN agents : agents[u].tenant \in TenantsInUse
    /\ \A c \in DOMAIN found :
           found[c].token # None => found[c].token.tenant \in TenantsInUse

(* A URL that the tracker has, or is about to have, for a class was one of *)
(* its agent.                                                              *)
URLsAreOwn ==
    /\ \A a \in Agents : <<addr[a], a>> \in hosts
    /\ \A c \in DOMAIN scToURL : <<scToURL[c], AgentOf[TenantOf[c]]>> \in hosts
    /\ \A c \in DOMAIN found : <<found[c].url, AgentOf[TenantOf[c]]>> \in hosts

IInv == TrackerFits /\ URLsAreOwn /\ SoleDeletedIsGone
=============================================================================

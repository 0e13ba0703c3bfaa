CONSTANTS
    p1 = p1
    p2 = p2
    t1 = t1
    t2 = t2
    a1 = a1
    a2 = a2
    u1 = u1
    u2 = u2
    v1 = v1
    v2 = v2
    s1 = s1
    DevIDs = {1, 2}
    Paths = {p1, p2, p3}
    FirstPath <- Nodes
    MaxEvents = 2
    Classes = {1, 2}
    Tenants = {t1, t2}
    Agents = {a1, a2}
    URLs = {u1, u2, u3}
    TenantOf <- ClassTenant
    AgentOf <- OwnAgents
    Address <- FirstURLs
    Monitored = a1
    Outdated = {a2}
    Volumes = {v1, v2}
    Snapshots = {s1}
    ClassOf <- Claimed
    SourceOf <- OfFirst
    None = None
SPECIFICATION FairSpec
INVARIANT SoleDeletedIsGone
PROPERTIES ReclaimReached TrackerConverges HealthConverges ListingConverges

CONSTANTS
    p1 = p1
    p2 = p2
    t1 = t1
    t2 = t2
    a1 = a1
    a2 = a2
    u1 = u1
    u2 = u2
    v1 = v1
    v2 = v2
    s1 = s1
    DevIDs = {1, 2}
    Paths = {p1, p2}
    FirstPath <- Nodes
    MaxEvents = 0
    Classes = {1, 2}
    Tenants = {t1, t2}
    Agents = {a1}
    URLs = {u1}
    TenantOf <- ClassTenant
    AgentOf <- OneAgent
    Address <- FirstURL
    Monitored = a1
    Outdated = {}
    Volumes = {v1, v2}
    Snapshots = {}
    ClassOf <- ClaimedBoth
    SourceOf <- OfNone
    None = None
SPECIFICATION Spec
INVARIANT DeletedIsGone

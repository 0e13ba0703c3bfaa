CONSTANTS
    Updaters = {u1, u2}
    Sizers = {u1}
    Owners = {o1, o2}
    MaxSize = 2
    MaxUsed = 2
    MaxRequests = 2
    MaxDrift = 1
    MaxFaults = 2
    None = None
SPECIFICATION FairSpec
INVARIANTS QuotaCoversSize
PROPERTIES NoLostUpdate DriftRepaired

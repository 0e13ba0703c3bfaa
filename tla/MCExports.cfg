CONSTANTS
    i1 = i1
    i2 = i2
    Volumes = {v1}
    IPs = {i1, i2}
    LabelsOf <- TwoAndOne
    Clients = {c1, c2}
    LongPaths = {v1}
    V6 = {i2}
    Failures = {"write", "export", "unexport"}
    MaxRestarts = 1
SPECIFICATION FairSpec
INVARIANTS QuietInSync
PROPERTIES MissingExportRestored OrphanRemoved

CONSTANTS
    Volumes = {v1}
    Snapshots = {s1}
    Creators = {c1, c2}
    Deleters = {d1}
    Updaters = {u1}
    Readers = {r1}
    CreateOps = {"CreateVolume", "CloneVolume", "CreateSnapshot", "CreateClone"}
    MaxCreates = 2
    MaxCrashes = 1
    None = None
SPECIFICATION Spec
SYMMETRY Symmetry
INVARIANTS CommittedSurvives ServedIsReal LockedByWorker

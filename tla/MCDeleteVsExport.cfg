CONSTANTS
    Volumes = {v1}
    Snapshots = {}
    Creators = {c1}
    Deleters = {d1}
    Updaters = {u1}
    Readers = {}
    CreateOps = {"CreateVolume"}
    MaxCreates = 1
    MaxCrashes = 0
    None = None
SPECIFICATION Spec
PROPERTY ExportedNotDeleted

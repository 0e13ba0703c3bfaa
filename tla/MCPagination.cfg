CONSTANTS
    Collectors = {c1}
    Streamers = {c2}
    MaxVolumes = 2
    SnapIds = {s1, s2, s3, s4}
    Limit = 1
    MaxSnapshots = 1
    Prefetch = 1
    MaxBytes = 1
    MaxWalks = 3
    MaxChanges = 1
    MaxEarly = 1
SPECIFICATION FairSpec
INVARIANTS CountExact MemoryBounded WalkIsListing
PROPERTIES WalkEnds SnapshotsExpire
CHECK_DEADLOCK FALSE

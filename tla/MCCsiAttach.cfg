CONSTANTS
    Nodes = {n1, n2}
    ReadOnly = {n1}
    MaxFaults = 2
    MaxMoves = 4
SPECIFICATION FairSpec
INVARIANTS PodSeesVolume InUseIsReferenced CapacityTold
PROPERTIES PodGetsVolume ReclaimCompletes ExpansionCompletes

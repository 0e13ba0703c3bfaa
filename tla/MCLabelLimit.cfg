CONSTANTS
    Volumes = {v}
    Snapshots = {s}
    Publishers = {p1, p2}
    Commands = {c1}
    KeyOrder <- Sorted
    ValidKeys = {"a", "b", "c", "e"}
    ValidValues = {"", "x", "y", "name", "k8s", "cli"}
    Annotations <- Written
    Arguments <- Given
    DefaultLabels <- Defaults
    Immutables = {{}, {"a"}}
    Compressions = {"none", "zstd"}
    ClassParams <- Classes
    Settings <- Set
    BadParam = BadParam
    LongName = "long"
    MaxLabels = 6
    MaxUserLabels = 1
    MaxEdits = 3
    None = None
SPECIFICATION Spec
INVARIANTS LabelLimit
CHECK_DEADLOCK FALSE

SPECIFICATION Spec
CONSTANTS
    instrs <- MCInstrs
    Sheet <- MCSheet
    MaxDots = 4
    new_coords_len = 3
    NumBuckets = 2
    BucketSize = 3
    Hash <- MCHash
    Absent = Absent
    NoValue = NoValue
CHECK_DEADLOCK FALSE
INVARIANTS TypeOK NoDotLost CountIsDots
PROPERTIES FoldsPaper

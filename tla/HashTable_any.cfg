SPECIFICATION Spec
CONSTANTS
    Key = {1, 2, 3, 4}
    Value = {10}
    NumBuckets = 2
    BucketSize = 2
    Hash <- MCHash
    Client = {"overwrite", "rekey", "insert"}
    MaxTotal = 5
    Absent = Absent
    NoValue = NoValue
CHECK_DEADLOCK FALSE
INVARIANTS TypeOK BufferFits TraverseComplete

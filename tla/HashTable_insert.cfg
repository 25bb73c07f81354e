SPECIFICATION FairSpec
CONSTANTS
    Key = {1, 2, 3, 4}
    Value = {10, 20}
    NumBuckets = 2
    BucketSize = 2
    Hash <- MCHash
    Client = {"insert"}
    MaxTotal = 5
    Absent = Absent
    NoValue = NoValue
CHECK_DEADLOCK FALSE
INVARIANTS EveryEntryFindable UniqueKeys
PROPERTIES IsAMap TraverseEnds

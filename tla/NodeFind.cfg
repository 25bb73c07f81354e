SPECIFICATION FairSearch
CONSTANTS
    MaxLen = 5
    Keys = {1, 2, 3, 4, 5, 6, 7}
    HintValues = 4
    NoHint = NoHint
CHECK_DEADLOCK FALSE
INVARIANTS SearchTypeOK Correct InNode
PROPERTIES Terminates

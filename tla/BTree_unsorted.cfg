SPECIFICATION Spec
CONSTANTS
    Key = {1,2,3}
    Val = {1}
    MaxItems = 6
    MAXLEN = 32
    MaxMallocs = 3
    Client = {"load_unsorted"}
    NoItem = NoItem
CHECK_DEADLOCK FALSE
INVARIANTS SaneOrder

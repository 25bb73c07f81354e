SPECIFICATION Spec
CONSTANTS
    Key = {1,2,3,4,5}
    Val = {1,2}
    MaxItems = 6
    MAXLEN = 2
    MaxMallocs = 1
    Client = {}
    NoItem = NoItem
CHECK_DEADLOCK FALSE
PROPERTIES IsOrderedSet

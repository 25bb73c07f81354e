SPECIFICATION Spec
CONSTANTS
    Key = {1,2,3,4,5,6,7}
    Val = {1}
    MaxItems = 4
    MAXLEN = 1
    MaxMallocs = 2
    Client = {"load_first_oom"}
    NoItem = NoItem
CHECK_DEADLOCK FALSE
INVARIANTS btree_sane NeverOutOfNodes NoNodeLeaks QueriesAgree

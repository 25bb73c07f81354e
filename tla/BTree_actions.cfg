SPECIFICATION MCSpec
CONSTANTS
    Key = {1,2,3,4,5,6,7}
    Val = {1,2}
    MaxItems = 4
    MAXLEN = 0
    MaxMallocs = 2
    Client = {}
    NoItem = NoItem
    Pivot = {NoItem, 2, 4, 6}
    Changing = {3, 4}
CHECK_DEADLOCK FALSE
INVARIANTS ActionTypeOK ShowsEveryItem SaneProps
PROPERTIES AnswersApply

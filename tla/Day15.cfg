SPECIFICATION FairSpec
CONSTANTS
    Width = 3
    Height = 2
    Tiles = 2
    Risks = {1, 9}
    Wrap = 65536
    MaxLost = 1
    NoItem = NoItem
CHECK_DEADLOCK FALSE
INVARIANTS FindsShortest FrontierWaits
PROPERTIES Terminates

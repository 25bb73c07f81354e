SPECIFICATION AocSpec
CONSTANTS
    Line <- MCLine
    Inputs <- MCInputs
    Open = Open
    Close = Close
    Comma = Comma
    Nested = 4
    Ten = 10
    MAX_DIGITS = 16
    Examples <- MCExamples
    Example <- MCExample
    Arguments <- MCArguments
    Written <- MCWritten
    Expected <- MCExpected
    Misprints <- MCMisprints
    Misprint <- MCMisprint
    BenchmarkFlag = BenchmarkFlag
    NoNumber = NoNumber
    maxreps = 2
    Newline = Newline
    ARRAY_MIN_CAPACITY = 2
    Side = 2
    Width = 4
    CHAR_VALUES = 256
    FirstDays = 8
    AllDays = 20
    Steps = 9
    LETTERS = {1, 2}
    FirstGenerations = 2
    generations = 4
    INT_MAX = 20
    LENGTH_BITS = 15
    COUNT_BITS = 11
    MAX_SUBPACKETS = 60
CHECK_DEADLOCK FALSE
INVARIANTS TypeOK DecodesDisplays ParsesPackets StepsAtOnce Explores Selects
PROPERTIES FollowsRules MainReturns

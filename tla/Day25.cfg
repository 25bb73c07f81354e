SPECIFICATION Spec
CONSTANTS
    Width = 4
    Height = 2
    MaxSteps = 4
CHECK_DEADLOCK FALSE
INVARIANTS TypeOK MapAgrees MovesStayPossible EndsAtRest
PROPERTIES HerdMovesAtOnce

SPECIFICATION Spec
CONSTANTS
    MaxDice = 3
    MaxFaces = 2
    Grid <- MCGrid
    Spot <- MCSpot
    Barrier <- MCBarrier
    Path <- MCPath
    Piece <- MCPiece
    MaxTokens = 4
INVARIANTS
    CrossesFindsCommonPoint
    HiddenIsAbsent
    PathsAgree
    RollAddsUp
    CodecsAgree
CHECK_DEADLOCK FALSE

SPECIFICATION Spec
CONSTANTS
    Key = {k1, k2, k3}
    DocumentCap = 1
    EphemeralCap = 2
    MaxSeq = 1
    MaxRequest = 0
    MaxControl = 0
    MaxVersion = 2
CHECK_DEADLOCK FALSE
SYMMETRY KeySymmetry
INVARIANTS
    NewestWins

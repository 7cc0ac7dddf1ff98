SPECIFICATION Spec
CONSTANTS
    Key = {}
    DocumentCap = 2
    EphemeralCap = 1
    User = {u1}
    Author = {a1, a2}
    CatchUpLimit = 4
    PublishCap = 2
    MaxSeq = 2
SYMMETRY Symmetric
CHECK_DEADLOCK FALSE
INVARIANTS
    DropsOnlySent

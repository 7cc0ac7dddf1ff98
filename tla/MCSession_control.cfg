SPECIFICATION Spec
CONSTANTS
    Key = {k1}
    DocumentCap = 1
    EphemeralCap = 1
    MaxSeq = 1
    MaxRequest = 0
    MaxControl = 0
    MaxVersion = 0
CHECK_DEADLOCK FALSE
INVARIANT
    ControlNeverDropped

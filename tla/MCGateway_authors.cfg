SPECIFICATION FairSpec
CONSTANTS
    Key = {}
    DocumentCap = 1
    EphemeralCap = 1
    User = {u1}
    Author = {a1, a2}
    CatchUpLimit = 1
    PublishCap = 1
    MaxSeq = 3
CHECK_DEADLOCK FALSE
INVARIANTS
    TypeOK
    

    
    

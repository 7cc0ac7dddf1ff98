SPECIFICATION FairSpec
CONSTANTS
    Key = {k1}
    DocumentCap = 1
    EphemeralCap = 1
    MaxSeq = 2
    MaxRequest = 1
    MaxControl = 1
    MaxVersion = 0
CHECK_DEADLOCK FALSE
INVARIANTS
    EventsIncrease
    NoLostWakeup
    ResyncFromIsSent
    RepliesKept
PROPERTIES
    ReplyIsWritten
    SessionEnds

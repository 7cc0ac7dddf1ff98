SPECIFICATION Spec
CONSTANTS
    Handler = {h1, h2}
    Stores = {"sqlite", "postgres"}
    HTTPStores = {"sqlite"}
    MaxTokens = 2
    MaxSeq = 3
    Scene = {s1}
    Value = {1}
SYMMETRY Symmetric
INVARIANTS
    TypeOK
    LogGapless
    AnnouncedWasCommitted
    DocumentsMatchLog
    TurnsCounted
    SerialNeverOverwrites
PROPERTIES
    ImplementsTable

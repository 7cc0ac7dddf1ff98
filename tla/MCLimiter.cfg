SPECIFICATION LimiterFairSpec
CONSTANTS
    Caller = {c1, c2, c3}
    Username = {"ann", "bob"}
    Address = {"home", ""}
    Burst = 2
    Window = 1
    Lockout = 2
    MaxTracked = 2
INVARIANTS
    FailuresBounded
PROPERTIES
    LockoutHolds
    LockoutEnds

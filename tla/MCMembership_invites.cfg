SPECIFICATION Spec
CONSTANTS
    User = {u1, u2, u3}
    Founder = u1
    Request = {r1, r2}
    Invite = {i1}
    MaxUses = 1
    MaxJoins = 2
    MaxWorlds = 3
SYMMETRY Symmetric
INVARIANTS
    UsesBounded
PROPERTIES
    RevokedIsFinal
    
    DerivedRefusedByRace
    GMLostByOverlap
CHECK_DEADLOCK FALSE

SPECIFICATION Spec
CONSTANTS
    Name = {n1, n2}
    Client = {c1, c2}
    SessionTTL = 1
    TicketTTL = 1
    MaxClock = 2
    MaxTokens = 2
    MaxTickets = 1
SYMMETRY Symmetric
INVARIANTS
    EndedStaysEnded
    TicketSpentOnce
PROPERTIES
    
    SetupCloses

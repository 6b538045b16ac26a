SPECIFICATION Spec
CONSTANTS
    Users = {u1}
    Requests = {q1, q2}
    Nobody = Nobody
    AccessLife = 1
    TempLife = 2
    RememberLife = 2
    LibraryLife = 3
    MaxTime = 2
    MaxTokens = 3
    MaxSessions = 1
    MaxChanges = 1
SYMMETRY Symmetry
INVARIANTS TypeOK RevokedStaysOut  OneLine
CHECK_DEADLOCK FALSE

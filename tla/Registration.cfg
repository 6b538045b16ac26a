SPECIFICATION Spec
CONSTANTS
    Emails = {e1, e2}
    Uids = {f1}
    Names = {n1}
    Requests = {q1}
    None = None
    Idle = Idle
    MaxAttempts = 2
    Durations <- TwoDurations
    CodeLife = 2
    Retention = 2
INVARIANTS TypeOK VerifiedAddress  GuessesBounded
PROPERTIES  AbandonedIsRemoved

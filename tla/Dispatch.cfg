SPECIFICATION Spec
CONSTANTS
    c1 = c1  c2 = c2
    d1 = d1  d2 = d2
    p1 = p1  p2 = p2
    m1 = m1
    Clients = {c1, c2}
    Devices = {d1, d2}
    Owner <- MCOwner
    Requests = {r1}
    Offers = {o1}
    Products = {p1, p2}
    Areas = {a1}
    Markets = {m1}
    Home <- MCHome
    Handlers = {h1, h2}
    Workers = {w1, w2}
    None = None
    BatchSize = 2
    MaxRetries = 1
    MaxRequests = 2
    MaxChanges = 1
    MaxFaults = 2
SYMMETRY MCSymmetry
INVARIANTS TypeOK  PushAccounted
CHECK_DEADLOCK FALSE

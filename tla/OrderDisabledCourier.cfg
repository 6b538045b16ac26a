SPECIFICATION Spec
CONSTANTS
    Orders = {o1}
    Couriers = {c1, c2}
    Markets = {m1, m2}
    Prices = {0, 10}
    Editors = {e1}
    NoCourier = NoCourier
    NoPrice = NoPrice
    Unread = Unread
    Answered = Answered
    MaxEvents = 5
SYMMETRY MCSymmetry
INVARIANT DisabledCourierIdle

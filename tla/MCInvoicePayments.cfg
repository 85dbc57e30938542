CONSTANTS
    i1 = i1
    i2 = i2
    c1 = c1
    k1 = k1
    k2 = k2
    Intent = {i1, i2}
    Cash = {c1}
    StaffKey = {}
    Total = 2
    Handlers = 2
SPECIFICATION Spec
SYMMETRY Intents
CONSTRAINT FewEvents
INVARIANTS CanceledIsClosed NeverOverkept TakenCanBeBooked RefundsAreBehind
CHECK_DEADLOCK FALSE

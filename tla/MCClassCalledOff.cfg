CONSTANTS
    b1 = b1
    b2 = b2
    b3 = b3
    b4 = b4
    m1 = m1
    m2 = m2
    c1 = c1
    c2 = c2
    Booking <- SomeBookings
    Member <- Members
    Command <- Commands
    Capacity = 2
    None = None
SPECIFICATION Spec
INVARIANTS LiveOnOpen
CHECK_DEADLOCK FALSE

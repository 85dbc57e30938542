CONSTANTS
    i1 = i1
    i2 = i2
    c1 = c1
    k1 = k1
    k2 = k2
    Intent = {i1}
    Cash = {c1}
    StaffKey = {k1}
    Total = 1
    Handlers = 2
SPECIFICATION FairSpec
PROPERTIES TakenIsBooked RefundsAgree
CHECK_DEADLOCK FALSE

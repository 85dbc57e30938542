CONSTANTS
    phone = phone
    desk = desk
    t1 = t1
    t2 = t2
    o1 = o1
    o2 = o2
    o3 = o3
    mon = mon
    tue = tue
    Device = {desk}
    Tab = {t1, t2}
    Home <- Together
    Op = {o1, o2}
    Day = {mon}
SPECIFICATION FairSpec
INVARIANTS NeverStranded
PROPERTIES Drains
CHECK_DEADLOCK FALSE

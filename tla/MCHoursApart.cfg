CONSTANTS
    phone = phone
    desk = desk
    t1 = t1
    t2 = t2
    o1 = o1
    o2 = o2
    o3 = o3
    mon = mon
    tue = tue
    Device = {phone, desk}
    Tab = {t1, t2}
    Home <- Apart
    Op = {o1, o2, o3}
    Day = {mon, tue}
SPECIFICATION Spec
SYMMETRY Same
INVARIANTS HonestOutcome OncePerWeek
PROPERTIES OnlyOwnDays ShownUntilSynced
CHECK_DEADLOCK FALSE

CONSTANTS
    d1 = d1
    p1 = p1
    p2 = p2
    Dispute = {d1}
    Payout = {p1, p2}
    Amount = 2
    MaxFee = 2
SPECIFICATION FairSpec
ACTION_CONSTRAINT OneKind
INVARIANTS NothingInvented LastNewsSuffices MissingIsListed
PROPERTIES RefundsWait BooksCatchUp
CHECK_DEADLOCK FALSE

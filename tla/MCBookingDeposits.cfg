CONSTANTS
    MaxClosed = 1
    Attempts = 3
    Form = Form
    Chosen = Chosen
    Card = Card
    None = None
SPECIFICATION FairSpec
INVARIANTS
    LinkPaysOnce
    CanceledIsClosed
    MoneyIsSeen
PROPERTIES
    ReleasedUnpaid
    LateIsReturned
    TakenIsSettled
CHECK_DEADLOCK FALSE

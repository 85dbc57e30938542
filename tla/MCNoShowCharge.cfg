CONSTANTS
    MaxClosed = 1
    Attempts = 3
    Form = Form
    Chosen = Chosen
    Card = Card
    None = None
SPECIFICATION Spec
PROPERTIES NeverChargesTwice
CHECK_DEADLOCK FALSE

SPECIFICATION FairSpec
CONSTANTS
    a = a
    b = b
    k1 = k1
    k2 = k2
    k3 = k3
    c1 = c1
    c2 = c2
    c3 = c3
    None = None
    Releases = 1
    Request <- MCRequest
    Key <- MCKey
    Copy <- MCCopy
ACTION_CONSTRAINT InOrder
INVARIANTS
    OncePerSubmission
PROPERTIES
    ImplementsAttempts
    NeverRefusedAfterEffect
    ServedToTheEnd
CHECK_DEADLOCK FALSE

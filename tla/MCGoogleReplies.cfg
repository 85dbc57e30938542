CONSTANTS
    o1 = o1
    j1 = j1
    j2 = j2
    j3 = j3
    hello = hello
    Operation = {o1}
    Job = {j1, j2, j3}
    Text = {hello}
    MaxGen = 4
    MaxEdits = 2
    None = None
SPECIFICATION Spec
INVARIANTS
    HonestReply
PROPERTIES
    OnlySafeWrites
    Ends
CHECK_DEADLOCK FALSE

CONSTANTS
    e = e
    t = t
    r = r
    w1 = w1
    w2 = w2
    Delivery = {e, t, r}
    Worker = {w1, w2}
    Email = {e}
    Text = {t, r}
    Inbox = {t, r}
    Reserved = {r}
    Prod = FALSE
    LocalSink = FALSE
    Lease = 2
    Retry = 1
    Window = 3
SPECIFICATION FairSpec
ACTION_CONSTRAINT OneText
INVARIANTS AtMostOnce Honest InboxAgrees
PROPERTIES ImplementsSender Settles

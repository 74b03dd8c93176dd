SPECIFICATION FairSpec
CONSTANTS
    w1 = w1
    w2 = w2
    g1 = g1
    g2 = g2
    none = none
    NoClient = none
    Clients <- TwoClients
    Publishers <- TwoPublishers
    SendCap = 1
    MaxEvents <- ThreeAndOne
CHECK_DEADLOCK FALSE
INVARIANTS RemovedByOne GaugeLags StreamHasNoGap
PROPERTIES BroadcastEnds RemovedIsReleased

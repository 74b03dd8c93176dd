SPECIFICATION FairSpec
CONSTANTS
    a1 = a1
    a2 = a2
    Calls <- TwoCalls
    MaxConns = 1
    MaxEvents = 1
PROPERTY DownIsShown


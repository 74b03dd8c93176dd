SPECIFICATION FairSpec
CONSTANTS
    a1 = a1
    a2 = a2
    Calls <- TwoCalls
    MaxConns = 2
    MaxEvents = 1
INVARIANTS UpIsShown OwnDisconnectIsShown EachChangeToldOnce
PROPERTY UpComesToBeShown

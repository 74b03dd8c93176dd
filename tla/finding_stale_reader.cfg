SPECIFICATION Spec
CONSTANTS
    c1 = c1
    c2 = c2
    u1 = u1
    u2 = u2
    none = none
    NoConn = none
    Conns <- TwoConns
    Callers <- OneCaller
    MaxDepth = 1
    MaxCmds = 1
INVARIANT ReaderClosesItsOwn

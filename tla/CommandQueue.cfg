SPECIFICATION Spec
CONSTANTS
    g1 = g1
    g2 = g2
    g3 = g3
    none = none
    p1 = p1
    p2 = p2
    Gens <- ThreeGens
    Stoppers <- MCStoppers
    NoGen = none
    MaxDepth = 2
    MaxCmds = 3
INVARIANTS TypeOK OneSenderToStop WaitsForStopped EachCommandOneFate
PROPERTY ImplementsLedger

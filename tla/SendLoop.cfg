SPECIFICATION Spec
CONSTANTS
    Bounds <- TwoBounds
    Interval = 1
    MaxDepth = 2
    MaxGens = 2
    MaxCommands = 4
    MaxScrapeTime = 2
    MaxTime = 4
    SlowScrapes = FALSE
INVARIANTS Paced TotalsAddUp HistogramIsExact PageIsConsistent
CHECK_DEADLOCK FALSE

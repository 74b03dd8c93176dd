SPECIFICATION FairSpec
CONSTANTS
    r1 = r1
    r2 = r2
    h1 = h1
    Feeders <- TwoFeeders
    Cancellers <- OneCanceller
    RecentMax = 1
    MaxChunks = 2
CHECK_DEADLOCK FALSE
INVARIANTS OneJobPerNumber PromptStateCoversLog
PROPERTIES AdoptsAnswerToNewestLog NewestHasOutcome JobsAreReleased

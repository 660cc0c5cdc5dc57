CONSTANTS
    r1 = r1
    r2 = r2
    a1 = a1
    b1 = b1
    Requests = {r1, r2}
    NLinters = 1
    Instances = {b1}
    External = {1}
    MaxQueueSize = 1
    MaxResults = 1
    Timed = {r1, r2}
    MayStop = TRUE
    LinterOf <- MCLinterOf1
    Applicable <- MCApplicable
SPECIFICATION FairSpec
CHECK_DEADLOCK FALSE
PROPERTIES HandlerReturns GoroutineEnds LoopFreed LoopsSpec

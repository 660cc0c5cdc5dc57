CONSTANTS
    r1 = r1
    r2 = r2
    a1 = a1
    b1 = b1
    Requests = {r1, r2}
    NLinters = 2
    Instances = {a1, b1}
    External = {2}
    MaxQueueSize = 1
    MaxResults = 1
    Timed = {}
    MayStop = FALSE
    LinterOf <- MCLinterOf2
    Applicable <- MCApplicable
SPECIFICATION FairSpec
CHECK_DEADLOCK FALSE
PROPERTY AnsweredInTime

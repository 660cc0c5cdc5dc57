CONSTANTS
    r1 = r1
    r2 = r2
    a1 = a1
    b1 = b1
    Requests = {r1, r2}
    NLinters = 3
    Instances = {a1, b1}
    External = {3}
    MaxQueueSize = 1
    MaxResults = 1
    Timed = {r1, r2}
    MayStop = FALSE
    LinterOf <- MCLinterOf
    Applicable <- MCApplicable
SYMMETRY Symmetry
SPECIFICATION Spec
CHECK_DEADLOCK FALSE
INVARIANTS TypeOK CountMatches AnswersComplete BlockedOnLiveRequest NoCyclicWait
PROPERTIES NothingAfterDone ServiceSpec

CONSTANTS
    i1 = i1
    i2 = i2
    r1 = r1
    r2 = r2
    r3 = r3
    r4 = r4
    Instances = {i1, i2}
    Requests = {r1, r2, r3, r4}
    Texts = {"ascii", "newline", "separator", "raising", "long"}
    Timed = {r1, r2}
    StopsWith = {"ftfy", "dwklint"}
    HalfRange = 4
    MaxTime = 2
    Loads <- MCLoads
    Headers <- MCHeaders
SPECIFICATION FairSpec
CHECK_DEADLOCK FALSE
INVARIANTS LifecycleTypeOK LinesStayInStep OverrunBounded AnswersPredateCleanup ExitIsClean
PROPERTIES SetsOutAfterLimits Exits

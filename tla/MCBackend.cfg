CONSTANTS
    py = py
    rb = rb
    q1 = q1
    q2 = q2
    q3 = q3
    Instances = {py, rb}
    HasReady = {py}
    Requests = {q1, q2, q3}
    PipeBound = 2
    Loads <- MCLoads
SPECIFICATION FairSpec
CHECK_DEADLOCK FALSE
INVARIANTS TypeOK InStep
PROPERTIES LoopsSpec KilledOnlyAfterFailure ServesAgain LoopsEnd

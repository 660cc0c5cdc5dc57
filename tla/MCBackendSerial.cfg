CONSTANTS
    py = py
    rb = rb
    q1 = q1
    q2 = q2
    q3 = q3
    Instances = {py, rb}
    HasReady = {py, rb}
    Requests = {q1}
    PipeBound = 1
    Loads <- Pair
SPECIFICATION Spec
CHECK_DEADLOCK FALSE
INVARIANT OneWarmUpAtATime

CONSTANTS
    i1 = i1
    i2 = i2
    r1 = r1
    r2 = r2
    r3 = r3
    r4 = r4
    Instances = {i1}
    Requests = {r1, r2}
    Texts = {"ascii", "newline", "separator"}
    Timed = {}
    StopsWith = {}
    HalfRange = 4
    MaxTime = 0
    Loads <- FtfyAlone
    Headers <- MCHeaders
SPECIFICATION LifecycleSpec
CHECK_DEADLOCK FALSE
INVARIANT OneLineString

CONSTANTS
    Web = {w1}
    Formatted = {w1}
    Probes = {}
    Loads <- AllAtOnce
SPECIFICATION Spec
CHECK_DEADLOCK FALSE
INVARIANT TimedOutGets503

CONSTANTS
    w1 = w1
    w2 = w2
    wx = wx
    rz = rz
    lz = lz
    Web = {w1, w2, wx}
    Formatted = {w1, w2}
    Probes = {rz, lz}
    Livez = {lz}
    RememberBusy = 1
    MaxTime = 2
    Loads <- MCLoads
SYMMETRY Symmetry
SPECIFICATION MonitoringSpec
CHECK_DEADLOCK FALSE
INVARIANTS MonitoringTypeOK AnswerIsWhole ProbeIsConsistent BusyIsLatest NotReadyWhileBusy NotReadyAfterTimeout

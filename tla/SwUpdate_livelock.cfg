SPECIFICATION BoardSpec
CONSTANTS
    p1 = p1
    cfgA = cfgA
    cfgB = cfgB
    cfgRemote = cfgRemote
    NoConfig = NoConfig
    Torn = Torn
    Zeros = Zeros
    Absent = Absent
    Empty = Empty
    Procs <- OneProc
    Cfgs <- AllCfgs
    Requests <- AllCfgs
    Faults <- NoFaults
CHECK_DEADLOCK FALSE
INVARIANTS
    NormalModeAfterUpdate

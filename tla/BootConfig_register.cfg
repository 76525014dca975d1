SPECIFICATION Spec
CONSTANTS
    p1 = p1
    p2 = p2
    cfgA = cfgA
    cfgB = cfgB
    cfgRemote = cfgRemote
    NoConfig = NoConfig
    Torn = Torn
    Zeros = Zeros
    Absent = Absent
    Empty = Empty
    Procs <- OneProc
    Cfgs <- ThreeCfgs
    Requests <- ThreeCfgs
    Faults <- NoFaults
INVARIANTS
    FailsOnlyIfUnbootable
PROPERTIES
    ImplementsBootSelect

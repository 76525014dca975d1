SPECIFICATION BoardSpec
CONSTANTS
    p1 = p1
    cfgA = cfgA
    cfgB = cfgB
    cfgRemote = cfgRemote
    NoConfig = NoConfig
    Torn = Torn
    Zeros = Zeros
    Absent = Absent
    Empty = Empty
    Procs <- OneProc
    Cfgs <- AllCfgs
    Requests <- AllCfgs
    Faults <- WriteFaults
CHECK_DEADLOCK FALSE
INVARIANTS
    BoardTypeOK
    PostLeavesRemoteMode
PROPERTIES
    SelectedStaysWhole
    RemoteOnlyOnRequest

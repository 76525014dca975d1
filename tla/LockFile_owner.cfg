SPECIFICATION Spec
CONSTANTS
    p1 = p1
    p2 = p2
    p3 = p3
    i1 = i1
    i2 = i2
    i3 = i3
    i4 = i4
    i5 = i5
    i6 = i6
    NoFile = NoFile
    NoProc = NoProc
    Procs <- ThreeProcs
    Inodes <- SixInodes
SYMMETRY Interchangeable
INVARIANTS
    LockDiesWithOwner
PROPERTIES
    RefusedOnlyIfBusy

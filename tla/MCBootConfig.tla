----------------------------- MODULE MCBootConfig -----------------------------
(* Instances of BootConfig for TLC.                                            *)
EXTENDS BootConfig

CONSTANTS p1, p2, cfgA, cfgB, cfgRemote

OneProc == {p1}
TwoProcs == {p1, p2}
ThreeCfgs == {cfgA, cfgB, cfgRemote}
TwoCfgs == {cfgA, cfgB}
NoFaults == {}
IoFaults == {"open", "read", "write"}
StaleFaults == {"open", "write"}
===============================================================================

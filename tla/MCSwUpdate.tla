------------------------------ MODULE MCSwUpdate ------------------------------
(* Instances of SwUpdate for TLC: one invocation of set_sw_image.sh at a time. *)
EXTENDS SwUpdate

CONSTANT p1

OneProc == {p1}
AllCfgs == {cfgA, cfgB, cfgRemote}
NoFaults == {}
WriteFaults == {"write"}
===============================================================================

----------------------------- MODULE SwUpdateProofs -----------------------------
(* Proofs about SwUpdate: the life of a board with one invocation of           *)
(* set_sw_image.sh at a time, a cp that works and flash that can be read;      *)
(* writes may fail, and power may be cut, anywhere.                            *)
EXTENDS SwUpdate, BootConfigProofs

\* No set_sw_image.sh without the run_swupdate.sh that has called it.
Quiet ==
    \A p \in Procs :
        /\ mode # "linux" => pc[p] = "idle"
        /\ up \notin {"switch", "single"} => pc[p] \in Stopped

\* Dual mode writes the copy that does not run, and then switches to it.
DualInv ==
    /\ up = "swupdate" => updating = {Other(booted)}
    /\ up = "switch" =>
          \A p \in Procs : arg[p] \in {cfgA, cfgB} /\ copies[Image(arg[p])] = "whole"

\* What rcS.swupdate has made of the two copies so far.
RcsInv ==
    /\ rcs \in {"swupdate", "installing", "post", "dd5"} => Effective = cfgRemote
    /\ rcs = "program5" => slots[1] = Torn
    /\ rcs \in {"dd6", "program6"} => slots[1] \in {cfgA, Torn}
    /\ rcs = "program6" => slots[2] = Torn
    /\ PostLeavesRemoteMode

BoardInv == BoardTypeOK /\ ArgOK /\ IInv /\ Quiet /\ DualInv /\ RcsInv
-------------------------------------------------------------------------------
\* Of the steps of the board, only rcS.swupdate writes the flash without set_sw_image.sh.
LEMMA ScriptOrPost ==
  ASSUME BoardNext
  PROVE  [Next]_vars \/ PostWrite1 \/ PostWrite2
<1>1. Down => Next
  BY DEF Down, Next
<1>2. ASSUME NEW p \in Procs, RunSwupdate(p) PROVE [Next]_vars
  <2>1. CASE SwupdateDone(p)
    BY <2>1, SwUpdateAssumption DEF SwupdateDone, Next, CfgOf
  <2>2. CASE RunSingle(p)
    BY <2>2, SwUpdateAssumption DEF RunSingle, Next
  <2>3. CASE SetSwImage(p) \/ Interrupt(p)
    BY <2>3 DEF SetSwImage, Interrupt, Next
  <2>4. CASE SetSwImageReturns(p)
    BY <2>4, <1>1 DEF SetSwImageReturns
  <2> QED
    BY <1>2, <2>1, <2>2, <2>3, <2>4 DEF RunSwupdate
<1>3. Boot \/ RunDual \/ SwupdateWrites \/ SwupdateFails => UNCHANGED vars
  BY DEF Boot, RunDual, SwupdateWrites, SwupdateFails
<1>4. LosePower \/ Reboot => Next
  BY <1>1 DEF LosePower, Reboot
<1>5. Rcs => [Next]_vars \/ PostWrite1 \/ PostWrite2
  BY <1>1 DEF Rcs, RcsSwupdate, RcsSwupdateDone, RcsFails, PostCheck, RcsReboot
<1> QED
  BY <1>2, <1>3, <1>4, <1>5 DEF BoardNext

\* What holds of set_sw_image.sh on its own holds on the board.
LEMMA ScriptInvStep ==
  ASSUME NEW me, Procs = {me}, "cp" \notin Faults, BoardInv, [BoardNext]_allVars
  PROVE  (TypeOK /\ ArgOK /\ IInv)'
<1>1. TypeOK /\ ArgOK /\ IInv
  BY DEF BoardInv, BoardTypeOK
<1>2. CASE [Next]_vars
  BY <1>1, <1>2, TypeStep, ArgStep, InvStep
<1>3. CASE PostWrite1 \/ PostWrite2
  <2>1. pc[me] = "idle" /\ UNCHANGED <<tmp, pc, procVars>>
    BY <1>3 DEF PostWrite1, PostWrite2, PostErase, PostProgram, BoardInv, BoardTypeOK, Quiet
  <2>2. slots' \in [Slots -> Blocks]
    BY <1>1, <1>3, SwUpdateAssumption
       DEF PostWrite1, PostWrite2, PostErase, PostProgram, TypeOK, Blocks, Slots
  <2>3. TypeOK' /\ ArgOK'
    BY <1>1, <2>1, <2>2 DEF TypeOK, ArgOK, procVars
  <2>4. IInv'
    BY <2>1 DEF IInv, Knows, FileInv, ReadInv, JobInv, CopyInv, ReturnInv, WriteLabels
  <2> QED
    BY <2>3, <2>4
<1>4. CASE UNCHANGED allVars
  BY <1>1, <1>4, TypeStep, ArgStep, InvStep DEF allVars
<1> QED
  BY <1>2, <1>3, <1>4, ScriptOrPost
-------------------------------------------------------------------------------
\* Where the scripts are, and what dual mode does.
LEMMA BoardStep ==
  ASSUME NEW me, Procs = {me}, Faults \cap {"cp", "open", "read"} = {}, BoardInv, [BoardNext]_allVars
  PROVE  BoardInv'
<1>1. (TypeOK /\ ArgOK /\ IInv)'
  BY ScriptInvStep
<1> USE SwUpdateAssumption, ConstantsAssumption
<1> USE DEF BoardInv, BoardTypeOK, Quiet, DualInv, RcsInv, PostLeavesRemoteMode, Copies, Stopped
<1>2. CASE UNCHANGED allVars
  BY <1>1, <1>2 DEF allVars, boardVars, vars, Effective
<1>3. CASE Boot
  BY <1>1, <1>3 DEF Boot, vars, procVars, Effective, Image, TypeOK
<1>4. CASE Down
  BY <1>1, <1>4 DEF Down, PowerCut, procVars, Effective
<1>5. CASE RunDual
  BY <1>1, <1>5 DEF RunDual, vars, procVars, Effective, Other
<1>6. CASE SwupdateWrites
  BY <1>1, <1>6 DEF SwupdateWrites, vars, procVars, Effective
<1>7. CASE SwupdateFails
  BY <1>1, <1>7 DEF SwupdateFails, vars, procVars, Effective
<1>8. CASE SwupdateDone(me)
  BY <1>1, <1>8 DEF SwupdateDone, Install, Start, Goto, vars, procVars, Effective, CfgOf, Image,
     TypeOK, Other
<1>9. CASE RunSingle(me)
  BY <1>1, <1>9 DEF RunSingle, Start, Effective
<1>10. CASE SetSwImage(me)
  <2>1. Step(me) /\ UNCHANGED boardVars /\ mode = "linux" /\ rcs = "none"
    BY <1>10 DEF SetSwImage
  <2>2. UNCHANGED arg
    BY <2>1 DEF Step, Verify, Write, ReadCfg1, ReadCfg2, VerifyCfg1, CompareCfgs, VerifyCfg2,
       Cleanup, Written1, Written2, CopyInput, Truncate, BeginWrite, EndWrite, ReadBack, Confirm,
       RemoveTmp, procVars
  <2> QED
    BY <1>1, <1>10, <2>1, <2>2 DEF SetSwImage, boardVars, Image
<1>11. CASE SetSwImageReturns(me)
  BY <1>1, <1>4, <1>11 DEF SetSwImageReturns, vars, procVars, Effective
<1>12. CASE Interrupt(me)
  BY <1>1, <1>12 DEF Interrupt, Kill, Goto, TypeOK, Effective
<1>13. ASSUME NEW c \in Copies, RcsSwupdate(c) PROVE BoardInv'
  BY <1>1, <1>13 DEF RcsSwupdate, vars, procVars, Effective
<1>14. CASE RcsSwupdateDone
  BY <1>1, <1>14 DEF RcsSwupdateDone, Install, vars, procVars, Effective
<1>15. CASE RcsFails \/ RcsReboot
  BY <1>4, <1>15 DEF RcsFails, RcsReboot
<1>16. CASE PostCheck
  BY <1>1, <1>16 DEF PostCheck, NextOutputs, vars, procVars, Effective, Image
<1>17. CASE PostWrite1
  <2>1. CASE PostErase(1, "dd5", "program5")
    BY <1>1, <2>1 DEF PostErase, procVars, Effective, TypeOK, Slots
  <2>2. CASE PostProgram(1, "program5", "dd6")
    BY <1>1, <2>2 DEF PostProgram, procVars, Effective, TypeOK, Slots
  <2> QED
    BY <1>17, <2>1, <2>2 DEF PostWrite1
<1>18. CASE PostWrite2
  <2>1. CASE PostErase(2, "dd6", "program6")
    BY <1>1, <2>1 DEF PostErase, procVars, Effective, TypeOK, Slots
  <2>2. CASE PostProgram(2, "program6", "reboot")
    BY <1>1, <2>2 DEF PostProgram, procVars, Effective, TypeOK, Slots
  <2> QED
    BY <1>18, <2>1, <2>2 DEF PostWrite2
<1> QED
  BY <1>2, <1>3, <1>4, <1>5, <1>6, <1>7, <1>8, <1>9, <1>10, <1>11, <1>12, <1>13,
     <1>14, <1>15, <1>16, <1>17, <1>18 DEF BoardNext, RunSwupdate, LosePower, Reboot, Rcs

LEMMA BoardInvariant ==
  ASSUME NEW me, Procs = {me}, Faults \cap {"cp", "open", "read"} = {}
  PROVE  BoardSpec => []BoardInv
<1>1. BoardInit => BoardInv
  <2> SUFFICES ASSUME BoardInit PROVE BoardInv
    OBVIOUS
  <2>1. TypeOK /\ ArgOK /\ IInv
    BY ConstantsAssumption, SwUpdateAssumption
       DEF BoardInit, Init, TypeOK, ArgOK, Slots, Blocks, Files, Labels, Stopped, Jobs,
           IInv, Knows, FileInv, ReadInv, JobInv, CopyInv, ReturnInv, WriteLabels
  <2> QED
    BY <2>1 DEF BoardInit, Init, BoardInv, BoardTypeOK, Quiet, DualInv, RcsInv,
       PostLeavesRemoteMode, Copies, Stopped
<1>2. BoardInv /\ [BoardNext]_allVars => BoardInv'
  BY BoardStep
<1> QED
  BY <1>1, <1>2, PTL DEF BoardSpec

\* The variables of board and scripts keep their types, and each script runs in the mode
\* it belongs to.
THEOREM BoardTypeCorrect ==
  ASSUME NEW me, Procs = {me}, Faults \cap {"cp", "open", "read"} = {}
  PROVE  BoardSpec => []BoardTypeOK
<1>1. BoardInv => BoardTypeOK
  BY DEF BoardInv
<1> QED
  BY <1>1, BoardInvariant, PTL

\* A remote update that ends with a valid copy 1 has taken both copies out of remote update
\* mode (post_swupdate_modify_scu_bl_cfg_bin), however often it was cut before.
THEOREM RemoteModeIsLeft ==
  ASSUME NEW me, Procs = {me}, Faults \cap {"cp", "open", "read"} = {}
  PROVE  BoardSpec => []PostLeavesRemoteMode
<1>1. BoardInv => PostLeavesRemoteMode
  BY DEF BoardInv, RcsInv
<1> QED
  BY <1>1, BoardInvariant, PTL
-------------------------------------------------------------------------------
\* The configuration in the flash is written by set_sw_image.sh and rcS.swupdate.
LEMMA WhoWrites ==
  ASSUME NEW me, Procs = {me}, [BoardNext]_allVars
  PROVE  SetSwImage(me) \/ PostWrite1 \/ PostWrite2 \/ UNCHANGED slots
<1>1. Down => UNCHANGED slots
  BY DEF Down, PowerCut
<1>2. RunSwupdate(me) => SetSwImage(me) \/ UNCHANGED slots
  BY <1>1 DEF RunSwupdate, SwupdateDone, RunSingle, SetSwImageReturns, Interrupt, Start, Kill,
     vars
<1>3. Rcs => PostWrite1 \/ PostWrite2 \/ UNCHANGED slots
  BY <1>1 DEF Rcs, RcsSwupdate, RcsSwupdateDone, RcsFails, PostCheck, RcsReboot, vars
<1> QED
  BY <1>1, <1>2, <1>3 DEF BoardNext, Boot, LosePower, Reboot, RunDual, SwupdateWrites,
     SwupdateFails, allVars, vars

\* Under Linux only set_sw_image.sh changes what the boot loader uses, and in dual mode it
\* changes it to what it was called with.
LEMMA SwitchStep ==
  ASSUME NEW me, Procs = {me}, Faults \cap {"open", "read"} = {}, BoardInv, [BoardNext]_allVars,
         up # "single", mode # "update"
  PROVE  \/ Effective' = Effective
         \/ Effective' = arg[me] /\ Effective # NoConfig /\ up = "switch" /\ UNCHANGED copies
<1> USE DEF BoardInv, BoardTypeOK
<1>1. CASE UNCHANGED slots
  BY <1>1 DEF Effective
<1>2. SetSwImage(me) \/ UNCHANGED slots
  BY WhoWrites DEF PostWrite1, PostWrite2, PostErase, PostProgram
<1>3. CASE SetSwImage(me)
  <2>1. up = "switch" /\ UNCHANGED copies /\ Step(me)
    BY <1>3 DEF SetSwImage, boardVars
  <2>2. CASE BeginWrite(me) \/ EndWrite(me)
    BY <2>1, <2>2, EffectiveStep DEF IInv, Fresh
  <2>3. CASE ~(BeginWrite(me) \/ EndWrite(me))
    BY <1>1, <2>1, <2>3 DEF Step, Verify, Write, ReadCfg1, ReadCfg2, VerifyCfg1, CompareCfgs,
       VerifyCfg2, Cleanup, Written1, Written2, CopyInput, Truncate, ReadBack, Confirm, RemoveTmp
  <2> QED
    BY <2>2, <2>3
<1> QED
  BY <1>1, <1>2, <1>3

\* Dual mode installs into the copy that is not selected, unless a reboot is pending.
LEMMA CopiesStep ==
  ASSUME NEW me, Procs = {me}, BoardInv, [BoardNext]_allVars, mode # "update",
         copies[Image(Effective)] = "whole", ~(up = "swupdate" /\ RebootPending)
  PROVE  copies'[Image(Effective)] = "whole"
<1> USE DEF BoardInv, BoardTypeOK, Image, Copies
<1>1. CASE UNCHANGED copies
  BY <1>1
<1>2. CASE SwupdateWrites
  BY <1>2 DEF SwupdateWrites, DualInv, Other, RebootPending
<1>3. ASSUME NEW p \in Procs, SwupdateDone(p) PROVE copies'[Image(Effective)] = "whole"
  BY <1>3 DEF SwupdateDone, Install
<1>4. Down => UNCHANGED copies
  BY DEF Down
<1>5. ~Rcs \/ UNCHANGED copies
  BY <1>4 DEF Rcs, RcsSwupdate, RcsSwupdateDone, RcsFails, PostCheck, RcsReboot, PostWrite1,
     PostWrite2, PostErase, PostProgram
<1> QED
  BY <1>1, <1>2, <1>3, <1>4, <1>5 DEF BoardNext, RunSwupdate, RunSingle, SetSwImage,
     SetSwImageReturns, Interrupt, Boot, LosePower, Reboot, RunDual, SwupdateFails, allVars,
     boardVars

\* Through every step under Linux, failed writes, interruptions and power cuts included,
\* the image the next boot selects stays whole, unless swupdate runs between a switch
\* and the reboot (run_swupdate.sh, dual mode).  One set_sw_image.sh at a time, a cp that
\* works and flash that can be opened and read.
THEOREM SelectedImageStaysWhole ==
  ASSUME NEW me, Procs = {me}, Faults \cap {"cp", "open", "read"} = {}
  PROVE  BoardSpec => SelectedStaysWhole
<1>1. BoardInv /\ [BoardNext]_allVars =>
        [SelectedIsWhole =>
           \/ SelectedIsWhole'
           \/ up = "swupdate" /\ RebootPending
           \/ mode = "update" \/ up = "single"]_allVars
  <2> SUFFICES ASSUME BoardInv, [BoardNext]_allVars, SelectedIsWhole, mode # "update",
                      up # "single", ~(up = "swupdate" /\ RebootPending)
               PROVE  SelectedIsWhole'
    OBVIOUS
  <2>1. copies'[Image(Effective)] = "whole"
    BY CopiesStep DEF SelectedIsWhole
  <2>2. CASE Effective' = Effective
    BY <2>1, <2>2 DEF SelectedIsWhole, Image
  <2>3. CASE Effective' = arg[me] /\ up = "switch" /\ UNCHANGED copies
    BY <2>3, SwUpdateAssumption, ConstantsAssumption
       DEF SelectedIsWhole, Image, BoardInv, DualInv
  <2> QED
    BY <2>2, <2>3, SwitchStep
<1> QED
  BY <1>1, BoardInvariant, PTL DEF BoardSpec, SelectedStaysWhole

\* The board enters remote update mode only when single mode is run: no power cut and no
\* failed write makes the boot loader use a remote update block left in the other copy.
THEOREM RemoteModeIsRequested ==
  ASSUME NEW me, Procs = {me}, Faults \cap {"cp", "open", "read"} = {}
  PROVE  BoardSpec => RemoteOnlyOnRequest
<1>1. BoardInv /\ [BoardNext]_allVars =>
        [Effective # cfgRemote /\ Effective' = cfgRemote => up = "single"]_allVars
  <2> SUFFICES ASSUME BoardInv, [BoardNext]_allVars, Effective # cfgRemote, up # "single"
               PROVE  Effective' # cfgRemote
    OBVIOUS
  <2>1. CASE mode # "update"
    BY <2>1, SwitchStep, SwUpdateAssumption DEF BoardInv, DualInv
  <2>2. CASE mode = "update"
    <3>1. UNCHANGED slots \/ PostWrite1 \/ PostWrite2
      BY <2>2, WhoWrites DEF SetSwImage, BoardInv, BoardTypeOK
    <3>2. CASE UNCHANGED slots
      BY <3>2 DEF Effective
    <3>3. CASE PostWrite1 \/ PostWrite2
      BY <3>3, SwUpdateAssumption, ConstantsAssumption
         DEF PostWrite1, PostWrite2, PostErase, PostProgram, BoardInv, BoardTypeOK, TypeOK, Slots,
             RcsInv, Effective
    <3> QED
      BY <3>1, <3>2, <3>3
  <2> QED
    BY <2>1, <2>2
<1> QED
  BY <1>1, BoardInvariant, PTL DEF BoardSpec, RemoteOnlyOnRequest
===============================================================================

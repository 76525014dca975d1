--------------------------- MODULE BootConfigProofs ---------------------------
(* Proofs about set_sw_image.sh.  TypeCorrect holds for any number of          *)
(* invocations and any faults; the other theorems are about one invocation at  *)
(* a time, a cp that works and, if the flash may fail to open, an invocation   *)
(* that finds no files of a killed one: what the script depends on.            *)
EXTENDS BootConfig, TLAPS

\* A running invocation has the argument it was started with.
ArgOK == \A p \in Procs : pc[p] \notin Stopped => arg[p] \in Requests

LEMMA ArgStep == TypeOK /\ ArgOK /\ [Next]_vars => ArgOK'
<1> USE DEF TypeOK, ArgOK, Slots, Blocks, Files, Labels, Stopped, WriteLabels, Jobs, Goto
<1> SUFFICES ASSUME TypeOK, ArgOK, [Next]_vars PROVE ArgOK'
  OBVIOUS
<1>1. CASE UNCHANGED vars
  BY <1>1 DEF vars
<1>2. CASE PowerCut
  BY <1>2 DEF PowerCut, procVars
<1>3. ASSUME NEW p \in Procs, NEW c \in Requests, Start(p, c) PROVE ArgOK'
  BY <1>3 DEF Start
<1>4. ASSUME NEW p \in Procs, Kill(p) PROVE ArgOK'
  BY <1>4 DEF Kill, procVars
<1>5. ASSUME NEW p \in Procs, Verify(p) PROVE ArgOK'
  BY <1>5 DEF Verify, ReadCfg1, ReadCfg2, VerifyCfg1, CompareCfgs, VerifyCfg2,
              Call, procVars
<1>6. ASSUME NEW p \in Procs, Cleanup(p) \/ Written1(p) \/ Written2(p) PROVE ArgOK'
  BY <1>6 DEF Cleanup, Written1, Written2, Call, procVars
<1>7. ASSUME NEW p \in Procs, Write(p) PROVE ArgOK'
  BY <1>7 DEF Write, CopyInput, Truncate, BeginWrite, EndWrite, ReadBack, Confirm,
              RemoveTmp, procVars
<1> QED
  BY <1>1, <1>2, <1>3, <1>4, <1>5, <1>6, <1>7 DEF Next, Step

\* A stuttering or a real step keeps every variable within its type, whatever
\* the number of concurrent invocations and the faults.
LEMMA TypeStep == TypeOK /\ ArgOK /\ [Next]_vars => TypeOK'
<1> SUFFICES ASSUME TypeOK, ArgOK, [Next]_vars PROVE TypeOK'
  OBVIOUS
<1> USE ConstantsAssumption DEF TypeOK
<1> USE DEF Slots, Blocks, Files, Labels, Stopped, WriteLabels, Jobs
<1>1. CASE UNCHANGED vars
  BY <1>1 DEF vars
<1>2. CASE PowerCut
  BY <1>2 DEF PowerCut, procVars
<1>3. ASSUME NEW p \in Procs, NEW c \in Requests, Start(p, c) PROVE TypeOK'
  BY <1>3 DEF Start, Goto
<1>4. ASSUME NEW p \in Procs, Kill(p) PROVE TypeOK'
  BY <1>4 DEF Kill, Goto, procVars
<1>5. ASSUME NEW p \in Procs, Verify(p) PROVE TypeOK'
  <2>1. CASE ReadCfg1(p)
    BY <2>1 DEF ReadCfg1, ReadSlot, Goto, procVars
  <2>2. CASE ReadCfg2(p)
    BY <2>2 DEF ReadCfg2, ReadSlot, Goto, procVars
  <2>3. CASE VerifyCfg1(p)
    BY <2>3 DEF VerifyCfg1, Goto, procVars
  <2>4. CASE CompareCfgs(p)
    BY <2>4 DEF CompareCfgs, Call, Goto
  <2>5. CASE VerifyCfg2(p)
    BY <2>5 DEF VerifyCfg2, Call, Goto
  <2> QED
    BY <1>5, <2>1, <2>2, <2>3, <2>4, <2>5 DEF Verify
<1>6. ASSUME NEW p \in Procs, Cleanup(p) \/ Written1(p) \/ Written2(p) PROVE TypeOK'
  <2>1. CASE Cleanup(p)
    BY <2>1 DEF Cleanup, Call, Goto
  <2>2. CASE Written1(p)
    BY <2>2 DEF Written1, Call, Goto
  <2>3. CASE Written2(p)
    BY <2>3 DEF Written2, Goto, procVars
  <2> QED
    BY <1>6, <2>1, <2>2, <2>3
<1>7. ASSUME NEW p \in Procs, Write(p) PROVE TypeOK'
  <2>1. CASE CopyInput(p)
    <3>1. Input(p) \in Blocks \cup {Absent, Empty}
      BY <2>1 DEF Input, CopyInput, ArgOK
    <3> QED
      BY <2>1, <3>1 DEF CopyInput, Goto
  <2>2. CASE Truncate(p)
    BY <2>2 DEF Truncate, Goto, procVars
  <2>3. CASE BeginWrite(p)
    BY <2>3 DEF BeginWrite, Goto
  <2>4. CASE EndWrite(p)
    BY <2>4 DEF EndWrite, Goto, procVars
  <2>5. CASE ReadBack(p)
    BY <2>5 DEF ReadBack, ReadSlot, Goto, procVars
  <2>6. CASE Confirm(p)
    BY <2>6 DEF Confirm, Goto
  <2>7. CASE RemoveTmp(p)
    BY <2>7 DEF RemoveTmp, ReturnTo, Goto, procVars
  <2> QED
    BY <1>7, <2>1, <2>2, <2>3, <2>4, <2>5, <2>6, <2>7 DEF Write
<1> QED
  BY <1>1, <1>2, <1>3, <1>4, <1>5, <1>6, <1>7 DEF Next, Step

\* A running invocation has an argument in every behaviour.
LEMMA ArgCorrect == Spec => []ArgOK
<1>1. Init => TypeOK /\ ArgOK
  BY ConstantsAssumption DEF Init, TypeOK, ArgOK, Slots, Blocks, Files, Labels, Stopped, Jobs
<1>2. TypeOK /\ ArgOK /\ [Next]_vars => (TypeOK /\ ArgOK)'
  BY TypeStep, ArgStep
<1> QED
  BY <1>1, <1>2, PTL DEF Spec

\* Every behaviour of the script keeps its variables within their types: any
\* number of invocations, any faults, any kills and power cuts.
THEOREM TypeCorrect == Spec => []TypeOK
<1>1. Init => TypeOK /\ ArgOK
  BY ConstantsAssumption DEF Init, TypeOK, ArgOK, Slots, Blocks, Files, Labels, Stopped, Jobs
<1>2. TypeOK /\ ArgOK /\ [Next]_vars => (TypeOK /\ ArgOK)'
  BY TypeStep, ArgStep
<1> QED
  BY <1>1, <1>2, PTL DEF Spec
-------------------------------------------------------------------------------
(* One invocation at a time, and a cp that works.                              *)

\* Reading and checking the existing pair.
LEMMA VerifyStep ==
  ASSUME NEW me, Procs = {me}, "cp" \notin Faults, TypeOK, ArgOK, Knows(me),
         ReadCfg1(me) \/ ReadCfg2(me) \/ VerifyCfg1(me) \/ CompareCfgs(me) \/ VerifyCfg2(me)
  PROVE  Knows(me)'
<1> USE ConstantsAssumption
<1> USE DEF TypeOK, ArgOK, Slots, Blocks, Files, Labels, Stopped, WriteLabels, Jobs
<1>1. FileInv(me) /\ ReadInv(me) /\ JobInv(me) /\ CopyInv(me) /\ ReturnInv(me)
  BY DEF Knows
<1>2. /\ pc[me] \in Labels /\ me \in Procs
      /\ \/ job[me].src = "cfg1" /\ job[me].slot = 2
         \/ job[me].src = "cfg2" /\ job[me].slot = 1
         \/ job[me].src = "request" /\ job[me].slot \in {1, 2}
  OBVIOUS
<1>3. CASE ReadCfg1(me)
  <2>1. ReadInv(me)'
    BY <1>1, <1>2, <1>3 DEF ReadCfg1, ReadSlot, Goto, procVars, FileInv, ReadInv, JobInv, CopyInv, ReturnInv
  <2>2. JobInv(me)'
    BY <1>1, <1>2, <1>3 DEF ReadCfg1, ReadSlot, Goto, procVars, ReadInv, JobInv, CopyInv, ReturnInv
  <2>3. CopyInv(me)'
    BY <1>1, <1>2, <1>3 DEF ReadCfg1, ReadSlot, Goto, procVars, ReadInv, JobInv, CopyInv, ReturnInv
  <2>4. ReturnInv(me)'
    BY <1>1, <1>2, <1>3 DEF ReadCfg1, ReadSlot, Goto, procVars, ReadInv, JobInv, CopyInv, ReturnInv
  <2>5. FileInv(me)'
    BY <1>1, <1>2, <1>3 DEF ReadCfg1, ReadSlot, Goto, procVars, FileInv, ReadInv, JobInv
  <2> QED
    BY <2>1, <2>2, <2>3, <2>4, <2>5 DEF Knows
<1>4. CASE ReadCfg2(me)
  <2>1. ReadInv(me)'
    BY <1>1, <1>2, <1>4 DEF ReadCfg2, ReadSlot, Goto, procVars, FileInv, ReadInv, JobInv, CopyInv, ReturnInv
  <2>2. JobInv(me)'
    BY <1>1, <1>2, <1>4 DEF ReadCfg2, ReadSlot, Goto, procVars, ReadInv, JobInv, CopyInv, ReturnInv
  <2>3. CopyInv(me)'
    BY <1>1, <1>2, <1>4 DEF ReadCfg2, ReadSlot, Goto, procVars, ReadInv, JobInv, CopyInv, ReturnInv
  <2>4. ReturnInv(me)'
    BY <1>1, <1>2, <1>4 DEF ReadCfg2, ReadSlot, Goto, procVars, ReadInv, JobInv, CopyInv, ReturnInv
  <2>5. FileInv(me)'
    BY <1>1, <1>2, <1>4 DEF ReadCfg2, ReadSlot, Goto, procVars, FileInv, ReadInv, JobInv
  <2> QED
    BY <2>1, <2>2, <2>3, <2>4, <2>5 DEF Knows
<1>5. CASE VerifyCfg1(me)
  <2>1. ReadInv(me)'
    BY <1>1, <1>2, <1>5 DEF VerifyCfg1, Goto, procVars, Input, ReadInv, JobInv, CopyInv, ReturnInv
  <2>2. JobInv(me)'
    BY <1>1, <1>2, <1>5 DEF VerifyCfg1, Goto, procVars, Input, ReadInv, JobInv, CopyInv, ReturnInv
  <2>3. CopyInv(me)'
    BY <1>1, <1>2, <1>5 DEF VerifyCfg1, Goto, procVars, Input, ReadInv, JobInv, CopyInv, ReturnInv
  <2>4. ReturnInv(me)'
    BY <1>1, <1>2, <1>5 DEF VerifyCfg1, Goto, procVars, Input, ReadInv, JobInv, CopyInv, ReturnInv
  <2>5. FileInv(me)'
    BY <1>1, <1>2, <1>5 DEF VerifyCfg1, Goto, procVars, Input, FileInv, ReadInv, JobInv
  <2> QED
    BY <2>1, <2>2, <2>3, <2>4, <2>5 DEF Knows
<1>6. CASE CompareCfgs(me)
  <2>1. ReadInv(me)'
    BY <1>1, <1>2, <1>6 DEF CompareCfgs, Call, Goto, MaySame, Input, ReadInv, JobInv, CopyInv, ReturnInv
  <2>2. JobInv(me)'
    BY <1>1, <1>2, <1>6 DEF CompareCfgs, Call, Goto, MaySame, Input, ReadInv, JobInv, CopyInv, ReturnInv
  <2>3. CopyInv(me)'
    BY <1>1, <1>2, <1>6 DEF CompareCfgs, Call, Goto, MaySame, Input, ReadInv, JobInv, CopyInv, ReturnInv
  <2>4. ReturnInv(me)'
    BY <1>1, <1>2, <1>6 DEF CompareCfgs, Call, Goto, MaySame, Input, ReadInv, JobInv, CopyInv, ReturnInv
  <2>5. FileInv(me)'
    BY <1>1, <1>2, <1>6 DEF CompareCfgs, Call, Goto, MaySame, Input, FileInv, ReadInv, JobInv
  <2> QED
    BY <2>1, <2>2, <2>3, <2>4, <2>5 DEF Knows
<1>7. CASE VerifyCfg2(me)
  <2>1. ReadInv(me)'
    BY <1>1, <1>2, <1>7 DEF VerifyCfg2, Call, Goto, Input, ReadInv, JobInv, CopyInv, ReturnInv
  <2>2. JobInv(me)'
    BY <1>1, <1>2, <1>7 DEF VerifyCfg2, Call, Goto, Input, ReadInv, JobInv, CopyInv, ReturnInv
  <2>3. CopyInv(me)'
    BY <1>1, <1>2, <1>7 DEF VerifyCfg2, Call, Goto, Input, ReadInv, JobInv, CopyInv, ReturnInv
  <2>4. ReturnInv(me)'
    BY <1>1, <1>2, <1>7 DEF VerifyCfg2, Call, Goto, Input, ReadInv, JobInv, CopyInv, ReturnInv
  <2>5. FileInv(me)'
    BY <1>1, <1>2, <1>7 DEF VerifyCfg2, Call, Goto, Input, FileInv, ReadInv, JobInv
  <2> QED
    BY <2>1, <2>2, <2>3, <2>4, <2>5 DEF Knows
<1> QED
  BY <1>3, <1>4, <1>5, <1>6, <1>7

\* Returning from the verification and from the two writes.
LEMMA CallStep ==
  ASSUME NEW me, Procs = {me}, "cp" \notin Faults, TypeOK, ArgOK, Knows(me),
         Cleanup(me) \/ Written1(me) \/ Written2(me)
  PROVE  Knows(me)'
<1> USE ConstantsAssumption
<1> USE DEF TypeOK, ArgOK, Slots, Blocks, Files, Labels, Stopped, WriteLabels, Jobs
<1>1. FileInv(me) /\ ReadInv(me) /\ JobInv(me) /\ CopyInv(me) /\ ReturnInv(me)
  BY DEF Knows
<1>2. /\ pc[me] \in Labels /\ me \in Procs
      /\ \/ job[me].src = "cfg1" /\ job[me].slot = 2
         \/ job[me].src = "cfg2" /\ job[me].slot = 1
         \/ job[me].src = "request" /\ job[me].slot \in {1, 2}
  OBVIOUS
<1>3. CASE Cleanup(me)
  <2>1. ReadInv(me)'
    BY <1>1, <1>2, <1>3 DEF Cleanup, Call, Goto, Input, ReadInv, JobInv, CopyInv, ReturnInv
  <2>2. JobInv(me)'
    BY <1>1, <1>2, <1>3 DEF Cleanup, Call, Goto, Input, ReadInv, JobInv, CopyInv, ReturnInv
  <2>3. CopyInv(me)'
    BY <1>1, <1>2, <1>3 DEF Cleanup, Call, Goto, Input, ReadInv, JobInv, CopyInv, ReturnInv
  <2>4. ReturnInv(me)'
    BY <1>1, <1>2, <1>3 DEF Cleanup, Call, Goto, Input, ReadInv, JobInv, CopyInv, ReturnInv
  <2>5. FileInv(me)'
    BY <1>1, <1>2, <1>3 DEF Cleanup, Call, Goto, Input, FileInv, ReadInv, JobInv
  <2> QED
    BY <2>1, <2>2, <2>3, <2>4, <2>5 DEF Knows
<1>4. CASE Written1(me)
  <2>1. ReadInv(me)'
    BY <1>1, <1>2, <1>4 DEF Written1, Call, Goto, Input, ReadInv, JobInv, CopyInv, ReturnInv
  <2>2. JobInv(me)'
    BY <1>1, <1>2, <1>4 DEF Written1, Call, Goto, Input, ReadInv, JobInv, CopyInv, ReturnInv
  <2>3. CopyInv(me)'
    BY <1>1, <1>2, <1>4 DEF Written1, Call, Goto, Input, ReadInv, JobInv, CopyInv, ReturnInv
  <2>4. ReturnInv(me)'
    BY <1>1, <1>2, <1>4 DEF Written1, Call, Goto, Input, ReadInv, JobInv, CopyInv, ReturnInv
  <2>5. FileInv(me)'
    BY <1>1, <1>2, <1>4 DEF Written1, Call, Goto, Input, FileInv, ReadInv, JobInv
  <2> QED
    BY <2>1, <2>2, <2>3, <2>4, <2>5 DEF Knows
<1>5. CASE Written2(me)
  <2>1. ReadInv(me)'
    BY <1>1, <1>2, <1>5 DEF Written2, Goto, procVars, ReadInv, JobInv, CopyInv, ReturnInv
  <2>2. JobInv(me)'
    BY <1>1, <1>2, <1>5 DEF Written2, Goto, procVars, ReadInv, JobInv, CopyInv, ReturnInv
  <2>3. CopyInv(me)'
    BY <1>1, <1>2, <1>5 DEF Written2, Goto, procVars, ReadInv, JobInv, CopyInv, ReturnInv
  <2>4. ReturnInv(me)'
    BY <1>1, <1>2, <1>5 DEF Written2, Goto, procVars, ReadInv, JobInv, CopyInv, ReturnInv
  <2>5. FileInv(me)'
    BY <1>1, <1>2, <1>5 DEF Written2, Goto, procVars, FileInv, ReadInv, JobInv
  <2> QED
    BY <2>1, <2>2, <2>3, <2>4, <2>5 DEF Knows
<1> QED
  BY <1>3, <1>4, <1>5

\* The body of write_and_confirm_scu_bl_cfg_file_to_device.
LEMMA WriteStep ==
  ASSUME NEW me, Procs = {me}, "cp" \notin Faults, TypeOK, ArgOK, Knows(me),
         CopyInput(me) \/ Truncate(me) \/ BeginWrite(me) \/ EndWrite(me) \/ ReadBack(me) \/ Confirm(me) \/ RemoveTmp(me)
  PROVE  Knows(me)'
<1> USE ConstantsAssumption
<1> USE DEF TypeOK, ArgOK, Slots, Blocks, Files, Labels, Stopped, WriteLabels, Jobs
<1>1. FileInv(me) /\ ReadInv(me) /\ JobInv(me) /\ CopyInv(me) /\ ReturnInv(me)
  BY DEF Knows
<1>2. /\ pc[me] \in Labels /\ me \in Procs
      /\ \/ job[me].src = "cfg1" /\ job[me].slot = 2
         \/ job[me].src = "cfg2" /\ job[me].slot = 1
         \/ job[me].src = "request" /\ job[me].slot \in {1, 2}
  OBVIOUS
<1>3. CASE CopyInput(me)
  <2>1. ReadInv(me)'
    BY <1>1, <1>2, <1>3 DEF CopyInput, Goto, Input, ReadInv, JobInv, CopyInv, ReturnInv
  <2>2. JobInv(me)'
    BY <1>1, <1>2, <1>3 DEF CopyInput, Goto, Input, ReadInv, JobInv, CopyInv, ReturnInv
  <2>3. CopyInv(me)'
    BY <1>1, <1>2, <1>3 DEF CopyInput, Goto, Input, ReadInv, JobInv, CopyInv, ReturnInv
  <2>4. ReturnInv(me)'
    BY <1>1, <1>2, <1>3 DEF CopyInput, Goto, Input, ReadInv, JobInv, CopyInv, ReturnInv
  <2>5. FileInv(me)'
    BY <1>1, <1>2, <1>3 DEF CopyInput, Goto, Input, FileInv, ReadInv, JobInv
  <2> QED
    BY <2>1, <2>2, <2>3, <2>4, <2>5 DEF Knows
<1>4. CASE Truncate(me)
  <2>1. ReadInv(me)'
    BY <1>1, <1>2, <1>4 DEF Truncate, Goto, procVars, Input, ReadInv, JobInv, CopyInv, ReturnInv
  <2>2. JobInv(me)'
    BY <1>1, <1>2, <1>4 DEF Truncate, Goto, procVars, Input, ReadInv, JobInv, CopyInv, ReturnInv
  <2>3. CopyInv(me)'
    BY <1>1, <1>2, <1>4 DEF Truncate, Goto, procVars, Input, ReadInv, JobInv, CopyInv, ReturnInv
  <2>4. ReturnInv(me)'
    BY <1>1, <1>2, <1>4 DEF Truncate, Goto, procVars, Input, ReadInv, JobInv, CopyInv, ReturnInv
  <2>5. FileInv(me)'
    BY <1>1, <1>2, <1>4 DEF Truncate, Goto, procVars, Input, FileInv, ReadInv, JobInv
  <2> QED
    BY <2>1, <2>2, <2>3, <2>4, <2>5 DEF Knows
<1>5. CASE BeginWrite(me)
  <2>1. ReadInv(me)'
    BY <1>1, <1>2, <1>5 DEF BeginWrite, Goto, Input, ReadInv, JobInv, CopyInv, ReturnInv
  <2>2. JobInv(me)'
    BY <1>1, <1>2, <1>5 DEF BeginWrite, Goto, Input, ReadInv, JobInv, CopyInv, ReturnInv
  <2>3. CopyInv(me)'
    BY <1>1, <1>2, <1>5 DEF BeginWrite, Goto, Input, ReadInv, JobInv, CopyInv, ReturnInv
  <2>4. ReturnInv(me)'
    BY <1>1, <1>2, <1>5 DEF BeginWrite, Goto, Input, ReadInv, JobInv, CopyInv, ReturnInv
  <2>5. FileInv(me)'
    BY <1>1, <1>2, <1>5 DEF BeginWrite, Goto, Input, FileInv, ReadInv, JobInv
  <2> QED
    BY <2>1, <2>2, <2>3, <2>4, <2>5 DEF Knows
<1>6. CASE EndWrite(me)
  <2>1. ReadInv(me)'
    BY <1>1, <1>2, <1>6 DEF EndWrite, Goto, procVars, Input, ReadInv, JobInv, CopyInv, ReturnInv
  <2>2. JobInv(me)'
    BY <1>1, <1>2, <1>6 DEF EndWrite, Goto, procVars, Input, ReadInv, JobInv, CopyInv, ReturnInv
  <2>3. CopyInv(me)'
    BY <1>1, <1>2, <1>6 DEF EndWrite, Goto, procVars, Input, ReadInv, JobInv, CopyInv, ReturnInv
  <2>4. ReturnInv(me)'
    BY <1>1, <1>2, <1>6 DEF EndWrite, Goto, procVars, Input, ReadInv, JobInv, CopyInv, ReturnInv
  <2>5. FileInv(me)'
    BY <1>1, <1>2, <1>6 DEF EndWrite, Goto, procVars, Input, FileInv, ReadInv, JobInv
  <2> QED
    BY <2>1, <2>2, <2>3, <2>4, <2>5 DEF Knows
<1>7. CASE ReadBack(me)
  <2>1. ReadInv(me)'
    BY <1>1, <1>2, <1>7 DEF ReadBack, ReadSlot, Goto, procVars, Input, ReadInv, JobInv, CopyInv, ReturnInv
  <2>2. JobInv(me)'
    BY <1>1, <1>2, <1>7 DEF ReadBack, ReadSlot, Goto, procVars, Input, ReadInv, JobInv, CopyInv, ReturnInv
  <2>3. CopyInv(me)'
    BY <1>1, <1>2, <1>7 DEF ReadBack, ReadSlot, Goto, procVars, Input, FileInv, ReadInv, JobInv, CopyInv, ReturnInv
  <2>4. ReturnInv(me)'
    BY <1>1, <1>2, <1>7 DEF ReadBack, ReadSlot, Goto, procVars, Input, ReadInv, JobInv, CopyInv, ReturnInv
  <2>5. FileInv(me)'
    BY <1>1, <1>2, <1>7 DEF ReadBack, ReadSlot, Goto, procVars, Input, FileInv, ReadInv, JobInv
  <2> QED
    BY <2>1, <2>2, <2>3, <2>4, <2>5 DEF Knows
<1>8. CASE Confirm(me)
  <2>1. ReadInv(me)'
    BY <1>1, <1>2, <1>8 DEF Confirm, Goto, MaySame, Input, ReadInv, JobInv, CopyInv, ReturnInv
  <2>2. JobInv(me)'
    BY <1>1, <1>2, <1>8 DEF Confirm, Goto, MaySame, Input, ReadInv, JobInv, CopyInv, ReturnInv
  <2>3. CopyInv(me)'
    BY <1>1, <1>2, <1>8 DEF Confirm, Goto, MaySame, Input, ReadInv, JobInv, CopyInv, ReturnInv
  <2>4. ReturnInv(me)'
    BY <1>1, <1>2, <1>8 DEF Confirm, Goto, MaySame, Input, ReadInv, JobInv, CopyInv, ReturnInv
  <2>5. FileInv(me)'
    BY <1>1, <1>2, <1>8 DEF Confirm, Goto, MaySame, Input, FileInv, ReadInv, JobInv
  <2> QED
    BY <2>1, <2>2, <2>3, <2>4, <2>5 DEF Knows
<1>9. CASE RemoveTmp(me)
  <2>1. ReadInv(me)'
    BY <1>1, <1>2, <1>9 DEF RemoveTmp, ReturnTo, Goto, procVars, Input, ReadInv, JobInv, CopyInv, ReturnInv
  <2>2. JobInv(me)'
    BY <1>1, <1>2, <1>9 DEF RemoveTmp, ReturnTo, Goto, procVars, Input, ReadInv, JobInv, CopyInv, ReturnInv
  <2>3. CopyInv(me)'
    BY <1>1, <1>2, <1>9 DEF RemoveTmp, ReturnTo, Goto, procVars, Input, ReadInv, JobInv, CopyInv, ReturnInv
  <2>4. ReturnInv(me)'
    BY <1>1, <1>2, <1>9 DEF RemoveTmp, ReturnTo, Goto, procVars, Input, ReadInv, JobInv, CopyInv, ReturnInv
  <2>5. FileInv(me)'
    BY <1>1, <1>2, <1>9 DEF RemoveTmp, ReturnTo, Goto, procVars, Input, FileInv, ReadInv, JobInv
  <2> QED
    BY <2>1, <2>2, <2>3, <2>4, <2>5 DEF Knows
<1> QED
  BY <1>3, <1>4, <1>5, <1>6, <1>7, <1>8, <1>9

\* A step of the script leaves the history alone.
LEMMA LeftoverStep ==
  ASSUME NEW me \in Procs, Step(me)
  PROVE  UNCHANGED leftover
BY DEF Step, Verify, Write, ReadCfg1, ReadCfg2, VerifyCfg1, CompareCfgs, VerifyCfg2, Cleanup,
   Written1, Written2, CopyInput, Truncate, BeginWrite, EndWrite, ReadBack, Confirm, RemoveTmp,
   procVars

\* The whole invariant is inductive.
LEMMA InvStep ==
  ASSUME NEW me, Procs = {me}, "cp" \notin Faults, TypeOK, ArgOK, IInv, [Next]_vars
  PROVE  IInv'
<1> USE DEF Stopped, WriteLabels
<1> SUFFICES ASSUME Fresh(me)' PROVE Knows(me)'
  BY DEF IInv
<1>1. Fresh(me) => Knows(me)
  BY DEF IInv
<1>2. CASE UNCHANGED vars
  BY <1>1, <1>2 DEF vars, Fresh, Knows, FileInv, ReadInv, JobInv, CopyInv, ReturnInv, Input
<1>3. CASE PowerCut
  BY <1>3 DEF PowerCut, Knows, FileInv, ReadInv, JobInv, CopyInv, ReturnInv
<1>4. ASSUME NEW c \in Requests, Start(me, c) PROVE Knows(me)'
  <2>1. pc'[me] = "read1"
    BY <1>4 DEF Start, Goto, TypeOK
  <2>2. "open" \in Faults => \A f \in Files : tmp'[f] = Absent
    BY <1>4 DEF Start, TypeOK, Fresh
  <2>3. FileInv(me)'
    BY <2>1, <2>2 DEF FileInv, Files
  <2> QED
    BY <2>1, <2>3 DEF Knows, ReadInv, JobInv, CopyInv, ReturnInv
<1>5. CASE Kill(me)
  <2>1. pc'[me] = "idle"
    BY <1>5 DEF Kill, Goto, TypeOK
  <2> QED
    BY <2>1 DEF Knows, FileInv, ReadInv, JobInv, CopyInv, ReturnInv
<1>6. CASE Step(me)
  <2>1. Knows(me)
    BY <1>1, <1>6, LeftoverStep DEF Fresh
  <2> QED
    BY <1>6, <2>1, VerifyStep, CallStep, WriteStep DEF Step, Verify, Write
<1> QED
  BY <1>2, <1>3, <1>4, <1>5, <1>6 DEF Next

\* With one invocation at a time and a cp that works, the knowledge recorded in IInv
\* holds of every invocation that finds no files of a killed one, and, when the
\* flash can always be opened, of every invocation.
THEOREM InvariantHolds ==
  ASSUME NEW me, Procs = {me}, "cp" \notin Faults
  PROVE  Spec => []IInv
<1>1. Init => IInv
  BY DEF Init, IInv, Knows, FileInv, ReadInv, JobInv, CopyInv, ReturnInv, WriteLabels
<1>2. TypeOK /\ ArgOK /\ IInv /\ [Next]_vars => IInv'
  BY InvStep
<1>3. Spec => [](TypeOK /\ ArgOK)
  BY TypeCorrect, ArgCorrect, PTL
<1> QED
  BY <1>1, <1>2, <1>3, PTL DEF Spec

\* With one invocation at a time and a cp that works, exit status 0 of an invocation
\* that finds no files of a killed one means that both copies hold what it was asked
\* to write, whatever opens, reads and writes of the flash have failed.
THEOREM OkIsBothWritten ==
  ASSUME NEW me, Procs = {me}, "cp" \notin Faults
  PROVE  Spec => []OkMeansBothWritten
<1>1. IInv => OkMeansBothWritten
  BY DEF IInv, Knows, ReturnInv, OkMeansBothWritten
<1> QED
  BY <1>1, InvariantHolds, PTL

\* One step of the script keeps a bootable board bootable.
LEMMA NeverBrickedStep ==
  ASSUME NEW me, Procs = {me}, TypeOK, ArgOK, Knows(me), [Next]_vars, SomeValid
  PROVE  SomeValid'
<1> USE ConstantsAssumption
<1> USE DEF SomeValid, Slots, TypeOK, Stopped
<1>1. ReadInv(me) /\ JobInv(me) /\ CopyInv(me) /\ ReturnInv(me)
  BY DEF Knows
<1>2. \/ job[me].src = "cfg1" /\ job[me].slot = 2
      \/ job[me].src = "cfg2" /\ job[me].slot = 1
      \/ job[me].src = "request" /\ job[me].slot \in {1, 2}
  BY DEF Jobs
<1>3. CASE UNCHANGED slots
  BY <1>3
<1>4. CASE BeginWrite(me)
  BY <1>1, <1>2, <1>4 DEF BeginWrite, JobInv, WriteLabels, ArgOK
<1>5. CASE EndWrite(me)
  BY <1>1, <1>2, <1>5 DEF EndWrite, JobInv, WriteLabels, ArgOK
<1>6. UNCHANGED slots \/ BeginWrite(me) \/ EndWrite(me)
  BY DEF Next, Step, Verify, Write, Start, Kill, PowerCut, ReadCfg1, ReadCfg2,
         VerifyCfg1, CompareCfgs, VerifyCfg2, Cleanup, Written1, Written2,
         CopyInput, Truncate, ReadBack, Confirm, RemoveTmp, vars
<1> QED
  BY <1>3, <1>4, <1>5, <1>6

\* With one invocation at a time and a cp that works, an invocation that finds no files
\* of a killed one keeps a bootable board bootable, whatever opens, reads and writes
\* of the flash fail and wherever the script is killed or the power cut.
THEOREM BoardStaysBootable ==
  ASSUME NEW me, Procs = {me}, "cp" \notin Faults
  PROVE  Spec => NeverBricked
<1>1. TypeOK /\ ArgOK /\ IInv /\ [Next]_vars => 
        [(\A p \in Procs : Fresh(p)) /\ SomeValid => SomeValid']_vars
  BY NeverBrickedStep DEF IInv
<1>2. Spec => [](TypeOK /\ ArgOK)
  BY TypeCorrect, ArgCorrect, PTL
<1> QED
  BY <1>1, <1>2, InvariantHolds, PTL DEF Spec, NeverBricked
-------------------------------------------------------------------------------
(* The atomic register, when reads of the flash do not fail.                   *)

\* The boot loader's choice changes only in the second half of a write, and then
\* to the argument of the invocation.
LEMMA EffectiveStep ==
  ASSUME NEW me, Procs = {me}, Faults \cap {"open", "read"} = {}, TypeOK, ArgOK, Knows(me),
         BeginWrite(me) \/ EndWrite(me)
  PROVE  \/ Effective' = Effective
         \/ Effective # NoConfig /\ Effective' = arg[me]
<1> USE ConstantsAssumption
<1> USE DEF TypeOK, Slots, Effective
<1>1. ReadInv(me) /\ JobInv(me) /\ CopyInv(me) /\ ReturnInv(me)
  BY DEF Knows
<1>2. /\ me \in Procs
      /\ \/ job[me].src = "cfg1" /\ job[me].slot = 2
         \/ job[me].src = "cfg2" /\ job[me].slot = 1
         \/ job[me].src = "request" /\ job[me].slot \in {1, 2}
  BY DEF Jobs
<1>3. CASE BeginWrite(me)
  BY <1>1, <1>2, <1>3 DEF BeginWrite, JobInv, CopyInv, WriteLabels, ArgOK, Stopped
<1>4. CASE EndWrite(me)
  BY <1>1, <1>2, <1>4 DEF EndWrite, JobInv, CopyInv, Input, WriteLabels, ArgOK, Stopped
<1> QED
  BY <1>3, <1>4

\* Every step of the script is a step of the register or leaves it alone.
LEMMA RegisterStep ==
  ASSUME NEW me, Procs = {me}, Faults \cap {"open", "read"} = {}, TypeOK, ArgOK, Knows(me), [Next]_vars
  PROVE  [BS!Next]_(BS!vars)
<1> USE ConstantsAssumption
<1> USE DEF TypeOK, Stopped
<1> DEFINE status == [p \in Procs |-> Status(p)]
<1>1. ReadInv(me) /\ JobInv(me) /\ CopyInv(me) /\ ReturnInv(me)
  BY DEF Knows
<1>2. CASE UNCHANGED <<slots, arg, pc>>
  BY <1>2 DEF BS!vars, Effective, Status
<1>3. ASSUME NEW c \in Requests, Start(me, c) PROVE BS!Invoke(me, c)
  BY <1>3 DEF BS!Invoke, Start, Goto, Status, Effective
<1>4. ASSUME UNCHANGED <<slots, arg>>, pc' = [p \in Procs |-> "idle"]
      PROVE  BS!Stop(Procs)
  BY <1>4 DEF BS!Stop, Status, Effective
<1>5. ASSUME UNCHANGED <<slots, arg>>, pc[me] \notin Stopped, pc' = [pc EXCEPT ![me] = "fail"]
      PROVE  BS!Fail(me)
  BY <1>5 DEF BS!Fail, Status, Effective
<1>6. ASSUME UNCHANGED <<slots, arg>>, Written2(me), return_value[me] = 0
      PROVE  BS!Succeed(me)
  BY <1>1, <1>6 DEF BS!Succeed, Written2, Goto, Status, Effective, ReturnInv, ArgOK
<1>7. ASSUME UNCHANGED <<slots, arg>>, pc[me] \notin Stopped, pc'[me] \notin Stopped,
             pc' \in [Procs -> Labels]
      PROVE  UNCHANGED BS!vars
  BY <1>7 DEF BS!vars, Status, Effective
<1>8. ASSUME BeginWrite(me) \/ EndWrite(me) PROVE BS!Switch(me) \/ UNCHANGED BS!vars
  <2>1. UNCHANGED arg /\ UNCHANGED status /\ status[me] = "working"
    BY <1>8 DEF BeginWrite, EndWrite, Goto, Status, procVars
  <2> QED
    BY <2>1, <1>8, EffectiveStep DEF BS!Switch, BS!vars
<1>9. CASE Step(me)
  <2>1. TypeOK'
    BY TypeStep, <1>9 DEF Next
  <2>2. CASE Verify(me)
    BY <2>1, <2>2, <1>7 DEF Verify, ReadCfg1, ReadCfg2, VerifyCfg1, CompareCfgs, VerifyCfg2,
         Call, Goto, procVars
  <2>3. CASE Cleanup(me) \/ Written1(me)
    BY <2>1, <2>3, <1>5, <1>7 DEF Cleanup, Written1, Call, Goto, BS!Next
  <2>4. CASE Written2(me)
    BY <2>1, <2>4, <1>5, <1>6 DEF Written2, Goto, procVars, BS!Next
  <2>5. CASE Write(me)
    <3>1. CASE BeginWrite(me) \/ EndWrite(me)
      BY <3>1, <1>8 DEF BS!Next
    <3>2. CASE CopyInput(me) \/ Truncate(me) \/ ReadBack(me) \/ Confirm(me) \/ RemoveTmp(me)
      BY <2>1, <3>2, <1>7 DEF CopyInput, Truncate, ReadBack, Confirm, RemoveTmp, ReturnTo,
           Goto, procVars
    <3> QED
      BY <2>5, <3>1, <3>2 DEF Write
  <2> QED
    BY <1>9, <2>2, <2>3, <2>4, <2>5 DEF Step
<1>10. CASE PowerCut \/ Kill(me)
  BY <1>10, <1>4 DEF PowerCut, Kill, Goto, procVars, BS!Next
<1> QED
  BY <1>2, <1>3, <1>9, <1>10 DEF Next, BS!Next, vars

\* set_sw_image.sh implements the atomic register: seen through the boot loader's
\* choice, its forty-odd commands are one switch, whatever write fails and
\* wherever the script is killed or the power cut.
THEOREM ScriptIsRegister ==
  ASSUME NEW me, Procs = {me}, Faults \cap {"cp", "open", "read"} = {}
  PROVE  Spec => ImplementsBootSelect
<1>1. Init => BS!Init
  BY ConstantsAssumption DEF Init, BS!Init, Effective, Status, Stopped
<1>2. TypeOK /\ ArgOK /\ IInv /\ [Next]_vars => [BS!Next]_(BS!vars)
  BY RegisterStep DEF IInv, Fresh
<1>3. Spec => [](TypeOK /\ ArgOK)
  BY TypeCorrect, ArgCorrect, PTL
<1>4. Spec => []IInv
  BY InvariantHolds
<1> QED
  BY <1>1, <1>2, <1>3, <1>4, PTL DEF Spec, BS!Spec, ImplementsBootSelect
-------------------------------------------------------------------------------
(* No refusal without a cause, when nothing fails.                             *)

\* What is known on top of IInv when no read, write or cp fails: files equal the slots
\* they were read from, a slot that was written holds the input, and return_value is
\* set only when both copies have failed the CRC.
Flawless(p) ==
    /\ pc[p] \in {"read1", "read2", "crc1", "compare", "crc2", "remove", "written1", "written2"} =>
         return_value[p] = 0
    /\ pc[p] \in {"crc1", "compare", "crc2"} => tmp["cfg2"] = slots[2]
    /\ pc[p] = "readback" => slots[job[p].slot] = Input(p)
    /\ pc[p] = "confirm" => tmp["readback"] = Input(p)
    /\ pc[p] = "cleanup" /\ return_value[p] # 0 => ~SomeValid
    /\ pc[p] = "fail" => ~SomeValid

\* What is written is a configuration.
LEMMA InputValid ==
  ASSUME NEW me, Procs = {me}, TypeOK, ArgOK, Knows(me), pc[me] \in WriteLabels
  PROVE  Input(me) \in Cfgs
<1>1. JobInv(me) /\ job[me].src \in {"cfg1", "cfg2", "request"}
  BY DEF Knows, TypeOK, Jobs
<1>2. pc[me] \notin Stopped
  BY DEF WriteLabels, Stopped
<1> QED
  BY <1>1, <1>2, ConstantsAssumption DEF JobInv, Input, ArgOK

\* Every step preserves that knowledge.
LEMMA FlawlessStep ==
  ASSUME NEW me, Procs = {me}, Faults = {}, TypeOK, ArgOK, Knows(me), Flawless(me), [Next]_vars
  PROVE  Flawless(me)'
<1> USE ConstantsAssumption
<1> USE DEF TypeOK, Slots, Stopped, SomeValid, Flawless
<1>1. ReadInv(me) /\ JobInv(me) /\ CopyInv(me)
  BY DEF Knows
<1>2. /\ me \in Procs
      /\ \/ job[me].src = "cfg1" /\ job[me].slot = 2
         \/ job[me].src = "cfg2" /\ job[me].slot = 1
         \/ job[me].src = "request" /\ job[me].slot \in {1, 2}
  BY DEF Jobs
<1>3. CASE UNCHANGED vars
  BY <1>3 DEF vars, Input
<1>4. CASE PowerCut
  BY <1>4 DEF PowerCut
<1>5. ASSUME NEW c \in Requests, Start(me, c) PROVE Flawless(me)'
  BY <1>5 DEF Start, Goto
<1>6. CASE Kill(me)
  BY <1>6 DEF Kill, Goto
<1>7. CASE ReadCfg1(me) \/ ReadCfg2(me)
  BY <1>2, <1>7 DEF ReadCfg1, ReadCfg2, ReadSlot, Goto, procVars, Files
<1>8. CASE VerifyCfg1(me)
  BY <1>2, <1>8 DEF VerifyCfg1, Goto, procVars
<1>9. CASE CompareCfgs(me)
  BY <1>2, <1>9 DEF CompareCfgs, Call, Goto
<1>10. CASE VerifyCfg2(me)
  BY <1>1, <1>2, <1>10 DEF VerifyCfg2, ReadInv, Call, Goto
<1>11. CASE Cleanup(me)
  BY <1>2, <1>11 DEF Cleanup, Call, Goto
<1>12. CASE Written1(me) \/ Written2(me)
  BY <1>2, <1>12 DEF Written1, Written2, Call, Goto, procVars
<1>13. CASE CopyInput(me) \/ Truncate(me)
  BY <1>2, <1>13 DEF CopyInput, Truncate, Goto, procVars
<1>14. CASE BeginWrite(me)
  <2>1. tmp["write"] \notin {Absent, Empty}
    BY <1>1, <1>14, InputValid DEF BeginWrite, CopyInv, WriteLabels
  <2> QED
    BY <1>2, <1>14, <2>1 DEF BeginWrite, Goto
<1>15. CASE EndWrite(me)
  BY <1>1, <1>2, <1>15 DEF EndWrite, CopyInv, Input, Goto, procVars
<1>16. CASE ReadBack(me)
  BY <1>2, <1>16 DEF ReadBack, ReadSlot, Input, Goto, procVars, Files
<1>17. CASE Confirm(me)
  <2>1. pc[me] = "confirm" /\ tmp["write"] = tmp["readback"] /\ tmp["readback"] \in Cfgs
    BY <1>1, <1>17, InputValid DEF Confirm, CopyInv, WriteLabels
  <2>2. return_value[me] = 0
    BY <1>1, <2>1 DEF CopyInv
  <2>3. UNCHANGED return_value
    BY <1>17, <2>1 DEF Confirm, MayDiffer
  <2> QED
    BY <1>2, <1>17, <2>2, <2>3 DEF Confirm, Goto
<1>18. CASE RemoveTmp(me)
  BY <1>2, <1>18 DEF RemoveTmp, ReturnTo, Goto, procVars
<1> QED
  BY <1>3, <1>4, <1>5, <1>6, <1>7, <1>8, <1>9, <1>10, <1>11, <1>12, <1>13, <1>14, <1>15, <1>16,
     <1>17, <1>18 DEF Next, Step, Verify, Write

\* set_sw_image.sh refuses nothing but a board with two invalid copies, when nothing
\* fails: whatever an interrupted run has left is repaired by the next one.
THEOREM RefusesOnlyUnbootable ==
  ASSUME NEW me, Procs = {me}
  PROVE  Spec => []FailsOnlyIfUnbootable
<1>1. CASE Faults = {}
  <2>1. Init => Flawless(me)
    BY DEF Init, Flawless
  <2>2. TypeOK /\ ArgOK /\ IInv /\ Flawless(me) /\ [Next]_vars => Flawless(me)'
    BY <1>1, FlawlessStep DEF IInv, Fresh
  <2>3. Flawless(me) => FailsOnlyIfUnbootable
    BY DEF Flawless, FailsOnlyIfUnbootable
  <2>4. Spec => [](TypeOK /\ ArgOK)
    BY TypeCorrect, ArgCorrect, PTL
  <2>5. Spec => []IInv
    BY <1>1, InvariantHolds
  <2> QED
    BY <2>1, <2>2, <2>3, <2>4, <2>5, PTL DEF Spec
<1>2. CASE Faults # {}
  <2>1. FailsOnlyIfUnbootable
    BY <1>2 DEF FailsOnlyIfUnbootable
  <2> QED
    BY <2>1, PTL
<1> QED
  BY <1>1, <1>2
===============================================================================

------------------------------ MODULE BootConfig ------------------------------
(* set_sw_image.sh: the update of the SCU boot loader configuration, of which  *)
(* the flash keeps two copies (blocks 5 and 6 of 4 KiB; slots 1 and 2 here).   *)
(* One action per command of the script that touches the flash, a file of /tmp *)
(* or the global shell variable return_value.  A write of a slot takes two     *)
(* steps (erase, program), so a power cut can fall between them.               *)
EXTENDS Naturals

CONSTANTS
    Procs,      \* invocations of the script that may be alive together
    Cfgs,       \* 4 KiB blocks that verify_file_crc accepts
    Requests,   \* the blocks of /etc/scu_bl_cfg (a, b, remote_update)
    NoConfig,   \* no valid configuration / no argument yet
    Torn,       \* any other block that fails the CRC, as an interrupted write leaves
    Zeros,      \* a block of zeros: fails the CRC
    Absent,     \* the content of a file that does not exist
    Empty,      \* the content of a file of length 0
    Faults      \* what may fail: "open" and "read" of the flash, "write", "cp"

ASSUME ConstantsAssumption ==
    /\ Requests \subseteq Cfgs
    /\ {NoConfig, Torn, Zeros, Absent, Empty} \cap Cfgs = {}
    /\ NoConfig \notin {Torn, Zeros, Absent, Empty}
    /\ Torn \notin {Zeros, Absent, Empty}
    /\ Zeros \notin {Absent, Empty} /\ Absent # Empty
    /\ Faults \subseteq {"open", "read", "write", "cp"}

VARIABLES
    slots,          \* the two copies in the flash
    tmp,            \* the files of /tmp, shared by all invocations
    pc,             \* where each invocation is; "ok" and "fail" are exit statuses
    arg,            \* the block it was asked to write
    job,            \* the arguments of the running write_and_confirm...
    buf,            \* the block dd has read and is writing
    return_value,   \* the script's global variable of that name
    leftover        \* history: did the invocation find files of a killed one

vars == <<slots, tmp, pc, arg, job, buf, return_value, leftover>>
procVars == <<arg, job, buf, return_value, leftover>>

Slots == {1, 2}
Blocks == Cfgs \cup {Torn, Zeros}
Files == {"cfg1", "cfg2", "write", "readback"}
Stopped == {"idle", "ok", "fail"}
WriteLabels == {"cp", "truncate", "dd", "program", "readback", "confirm", "remove"}
Labels == Stopped \cup WriteLabels \cup
          {"read1", "read2", "crc1", "compare", "crc2", "cleanup", "written1", "written2"}

\* The script calls write_and_confirm... with four pairs of arguments.
Jobs == {[src |-> "cfg1", slot |-> 2], [src |-> "cfg2", slot |-> 1],
         [src |-> "request", slot |-> 1], [src |-> "request", slot |-> 2]}

\* What the SCU boot loader boots: copy 1 if its CRC holds, else copy 2.
Effective ==
    IF slots[1] \in Cfgs THEN slots[1]
    ELSE IF slots[2] \in Cfgs THEN slots[2]
    ELSE NoConfig

SomeValid == \E k \in Slots : slots[k] \in Cfgs

\* cmp: two interrupted writes need not be equal, two empty files are, and an
\* absent file never is.
MaySame(x, y) == x = y /\ x # Absent
MayDiffer(x, y) == x # y \/ x \in {Torn, Absent}

Goto(p, label) == pc' = [pc EXCEPT ![p] = label]

Call(p, src, slot) ==
    /\ job' = [job EXCEPT ![p] = [src |-> src, slot |-> slot]]
    /\ Goto(p, "cp")

Input(p) == IF job[p].src = "request" THEN arg[p] ELSE tmp[job[p].src]

ReturnTo(p) ==
    IF job[p].src # "request" THEN "cleanup"
    ELSE IF job[p].slot = 1 THEN "written1" ELSE "written2"

\* read_scu_bl_cfg_file_from_device reports success even when dd fails.  dd opens
\* the device, truncates its output and reads: a failed open leaves the file as it
\* was, a failed read leaves it empty.
ReadSlot(k, f) ==
    \/ tmp' = [tmp EXCEPT ![f] = slots[k]]
    \/ "open" \in Faults /\ UNCHANGED tmp
    \/ "read" \in Faults /\ tmp' = [tmp EXCEPT ![f] = Empty]

-------------------------------------------------------------------------------
(* Faulty variants of the actions below, each a bug that one of the properties *)
(* refutes.  Next does not use them.                                           *)

\* return_value made local to write_and_confirm...: a failed repair is forgotten.
CleanupForgettingFailure(p) ==
    /\ pc[p] = "cleanup"
    /\ tmp' = [tmp EXCEPT !["cfg1"] = Absent, !["cfg2"] = Absent]
    /\ Call(p, "request", 1)
    /\ UNCHANGED <<slots, arg, buf, return_value, leftover>>

\* The offset of copy 2 passed for the first write.
CleanupWritingCopy2(p) ==
    /\ pc[p] = "cleanup"
    /\ tmp' = [tmp EXCEPT !["cfg1"] = Absent, !["cfg2"] = Absent]
    /\ \/ return_value[p] = 0 /\ Call(p, "request", 2)
       \/ return_value[p] # 0 /\ Goto(p, "fail") /\ UNCHANGED job
    /\ UNCHANGED <<slots, arg, buf, return_value, leftover>>

\* The verification repeated until it succeeds.
CleanupRetrying(p) ==
    /\ pc[p] = "cleanup"
    /\ tmp' = [tmp EXCEPT !["cfg1"] = Absent, !["cfg2"] = Absent]
    /\ \/ return_value[p] = 0 /\ Call(p, "request", 1)
       \/ return_value[p] # 0 /\ Goto(p, "read1") /\ UNCHANGED job
    /\ UNCHANGED <<slots, arg, buf, return_value, leftover>>

\* Copy 2 never brought up to date with a valid copy 1.
CompareCfgsSkipped(p) ==
    /\ pc[p] = "compare"
    /\ Goto(p, "cleanup")
    /\ UNCHANGED <<slots, tmp, procVars>>

\* Copy 2 never used to repair copy 1.
VerifyCfg2NoRepair(p) ==
    /\ pc[p] = "crc2"
    /\ return_value' = [return_value EXCEPT ![p] = 1]
    /\ Goto(p, "cleanup")
    /\ UNCHANGED <<slots, tmp, arg, job, buf, leftover>>

\* A refusal reported with a status other than 1.
VerifyCfg2RawStatus(p) ==
    /\ pc[p] = "crc2"
    /\ return_value' = [return_value EXCEPT ![p] = IF tmp["cfg2"] \in Cfgs THEN 0 ELSE 2]
    /\ Goto(p, "cleanup")
    /\ UNCHANGED <<slots, tmp, arg, job, buf, leftover>>

\* The readback always taken from copy 1.
ReadBackCopy1(p) ==
    /\ pc[p] = "readback"
    /\ ReadSlot(1, "readback")
    /\ Goto(p, "confirm")
    /\ UNCHANGED <<slots, procVars>>
-------------------------------------------------------------------------------
\* Any pair of copies can be found on a board: equal ones from the factory, a pair
\* that differs or a copy that fails the CRC (Torn) after a power cut.
Init ==
    /\ slots \in [Slots -> Cfgs \cup {Torn}]
    /\ tmp = [f \in Files |-> Absent]
    /\ pc = [p \in Procs |-> "idle"]
    /\ arg = [p \in Procs |-> NoConfig]
    /\ job = [p \in Procs |-> [src |-> "request", slot |-> 1]]
    /\ buf = [p \in Procs |-> Zeros]
    /\ return_value = [p \in Procs |-> 0]
    /\ leftover = [p \in Procs |-> FALSE]

Start(p, c) ==
    /\ pc[p] \in Stopped
    /\ arg' = [arg EXCEPT ![p] = c]
    /\ return_value' = [return_value EXCEPT ![p] = 0]
    /\ leftover' = [leftover EXCEPT ![p] = \E f \in Files : tmp[f] # Absent]
    /\ Goto(p, "read1")
    /\ UNCHANGED <<slots, tmp, job, buf>>

ReadCfg1(p) ==
    /\ pc[p] = "read1"
    /\ ReadSlot(1, "cfg1")
    /\ Goto(p, "read2")
    /\ UNCHANGED <<slots, procVars>>

ReadCfg2(p) ==
    /\ pc[p] = "read2"
    /\ ReadSlot(2, "cfg2")
    /\ Goto(p, "crc1")
    /\ UNCHANGED <<slots, procVars>>

VerifyCfg1(p) ==
    /\ pc[p] = "crc1"
    /\ \/ tmp["cfg1"] \in Cfgs /\ Goto(p, "compare")
       \/ tmp["cfg1"] \notin Cfgs /\ Goto(p, "crc2")
    /\ UNCHANGED <<slots, tmp, procVars>>

CompareCfgs(p) ==
    /\ pc[p] = "compare"
    /\ \/ MaySame(tmp["cfg1"], tmp["cfg2"]) /\ Goto(p, "cleanup") /\ UNCHANGED job
       \/ MayDiffer(tmp["cfg1"], tmp["cfg2"]) /\ Call(p, "cfg1", 2)
    /\ UNCHANGED <<slots, tmp, arg, buf, return_value, leftover>>

VerifyCfg2(p) ==
    /\ pc[p] = "crc2"
    /\ \/ /\ tmp["cfg2"] \in Cfgs
          /\ Call(p, "cfg2", 1)
          /\ UNCHANGED return_value
       \/ /\ tmp["cfg2"] \notin Cfgs
          /\ return_value' = [return_value EXCEPT ![p] = 1]
          /\ Goto(p, "cleanup")
          /\ UNCHANGED job
    /\ UNCHANGED <<slots, tmp, arg, buf, leftover>>

Cleanup(p) ==
    /\ pc[p] = "cleanup"
    /\ tmp' = [tmp EXCEPT !["cfg1"] = Absent, !["cfg2"] = Absent]
    /\ \/ return_value[p] = 0 /\ Call(p, "request", 1)
       \/ return_value[p] # 0 /\ Goto(p, "fail") /\ UNCHANGED job
    /\ UNCHANGED <<slots, arg, buf, return_value, leftover>>

Written1(p) ==
    /\ pc[p] = "written1"
    /\ \/ return_value[p] = 0 /\ Call(p, "request", 2)
       \/ return_value[p] # 0 /\ Goto(p, "fail") /\ UNCHANGED job
    /\ UNCHANGED <<slots, tmp, arg, buf, return_value, leftover>>

Written2(p) ==
    /\ pc[p] = "written2"
    /\ Goto(p, IF return_value[p] = 0 THEN "ok" ELSE "fail")
    /\ UNCHANGED <<slots, tmp, procVars>>
-------------------------------------------------------------------------------
(* write_and_confirm_scu_bl_cfg_file_to_device.                                *)

\* A failing cp leaves its target alone, or empty; the script goes on.
CopyInput(p) ==
    /\ pc[p] = "cp"
    /\ return_value' = [return_value EXCEPT ![p] = 0]
    /\ \/ Input(p) # Absent /\ tmp' = [tmp EXCEPT !["write"] = Input(p)]
       \/ (Input(p) = Absent \/ "cp" \in Faults) /\ UNCHANGED tmp
       \/ "cp" \in Faults /\ tmp' = [tmp EXCEPT !["write"] = Empty]
    /\ Goto(p, "truncate")
    /\ UNCHANGED <<slots, arg, job, buf, leftover>>

\* need_truncate is 1 exactly for the requested file; truncate -s 4096 pads the
\* file with zeros, and creates it when it is absent.
Truncate(p) ==
    /\ pc[p] = "truncate"
    /\ tmp' = [tmp EXCEPT !["write"] =
                 IF job[p].src = "request" /\ @ \in {Absent, Empty} THEN Zeros ELSE @]
    /\ Goto(p, "dd")
    /\ UNCHANGED <<slots, procVars>>

\* dd reads the file, then the block is erased; dd's status is not looked at.
BeginWrite(p) ==
    /\ pc[p] = "dd"
    /\ \/ /\ tmp["write"] \notin {Absent, Empty}
          /\ buf' = [buf EXCEPT ![p] = tmp["write"]]
          /\ slots' = [slots EXCEPT ![job[p].slot] = Torn]
          /\ Goto(p, "program")
       \/ /\ tmp["write"] \in {Absent, Empty} \/ "write" \in Faults
          /\ Goto(p, "readback")
          /\ UNCHANGED <<slots, buf>>
    /\ UNCHANGED <<tmp, arg, job, return_value, leftover>>

EndWrite(p) ==
    /\ pc[p] = "program"
    /\ \/ slots' = [slots EXCEPT ![job[p].slot] = buf[p]]
       \/ "write" \in Faults /\ UNCHANGED slots
    /\ Goto(p, "readback")
    /\ UNCHANGED <<tmp, procVars>>

ReadBack(p) ==
    /\ pc[p] = "readback"
    /\ ReadSlot(job[p].slot, "readback")
    /\ Goto(p, "confirm")
    /\ UNCHANGED <<slots, procVars>>

Confirm(p) ==
    /\ pc[p] = "confirm"
    /\ \/ MaySame(tmp["write"], tmp["readback"]) /\ UNCHANGED return_value
       \/ /\ MayDiffer(tmp["write"], tmp["readback"])
          /\ return_value' = [return_value EXCEPT ![p] = 1]
    /\ Goto(p, "remove")
    /\ UNCHANGED <<slots, tmp, arg, job, buf, leftover>>

RemoveTmp(p) ==
    /\ pc[p] = "remove"
    /\ tmp' = [tmp EXCEPT !["write"] = Absent, !["readback"] = Absent]
    /\ Goto(p, ReturnTo(p))
    /\ UNCHANGED <<slots, procVars>>
-------------------------------------------------------------------------------
\* The script is killed: its files stay.  A dd that is writing finishes first.
Kill(p) ==
    /\ pc[p] \notin Stopped \cup {"program"}
    /\ Goto(p, "idle")
    /\ UNCHANGED <<slots, tmp, procVars>>

\* /tmp is a tmpfs; a slot that was being programmed stays torn.
PowerCut ==
    /\ tmp' = [f \in Files |-> Absent]
    /\ pc' = [p \in Procs |-> "idle"]
    /\ UNCHANGED <<slots, procVars>>

Verify(p) ==
    \/ ReadCfg1(p) \/ ReadCfg2(p) \/ VerifyCfg1(p) \/ CompareCfgs(p) \/ VerifyCfg2(p)
Write(p) ==
    \/ CopyInput(p) \/ Truncate(p) \/ BeginWrite(p) \/ EndWrite(p)
    \/ ReadBack(p) \/ Confirm(p) \/ RemoveTmp(p)
Step(p) == Verify(p) \/ Cleanup(p) \/ Written1(p) \/ Written2(p) \/ Write(p)

Next ==
    \/ \E p \in Procs :
          \/ \E c \in Requests : Start(p, c)
          \/ Step(p)
          \/ Kill(p)
    \/ PowerCut

Spec == Init /\ [][Next]_vars

\* Once started, the commands of the script run without waiting for anyone.
Fairness == \A p \in Procs : WF_vars(Step(p))
FairSpec == Spec /\ Fairness
-------------------------------------------------------------------------------
TypeOK ==
    /\ slots \in [Slots -> Blocks]
    /\ tmp \in [Files -> Blocks \cup {Absent, Empty}]
    /\ pc \in [Procs -> Labels]
    /\ arg \in [Procs -> Requests \cup {NoConfig}]
    /\ job \in [Procs -> Jobs]
    /\ buf \in [Procs -> Blocks]
    /\ return_value \in [Procs -> {0, 1}]
    /\ leftover \in [Procs -> BOOLEAN]

\* The invocation cannot mistake a file of a killed run for one of its own.
Fresh(p) == "open" \in Faults => ~leftover[p]

\* What one fresh invocation at a time knows at each point, if cp works.  Together
\* the parts are preserved by every step: while a copy is at risk the other one is
\* valid and holds what the boot loader used before, and an unreported failure is
\* impossible because return_value = 0 implies that the slot was confirmed.
FileInv(p) ==
    "open" \in Faults =>
      /\ pc[p] \in {"read1", "cleanup", "written1", "written2"} => tmp["readback"] = Absent
      /\ pc[p] = "read1" => tmp["cfg1"] = Absent
      /\ pc[p] \in {"read1", "read2"} => tmp["cfg2"] = Absent
      /\ pc[p] \in {"read2", "crc1", "compare", "crc2", "cp", "truncate", "dd", "program",
                   "readback"} => tmp["readback"] = Absent

ReadInv(p) ==
    /\ pc[p] \in {"read2", "crc1", "compare", "crc2"} => tmp["cfg1"] \in {slots[1], Absent, Empty}
    /\ pc[p] \in {"crc1", "compare", "crc2"} => tmp["cfg2"] \in {slots[2], Absent, Empty}
    /\ Faults \cap {"open", "read"} = {} /\ pc[p] \in {"read2", "crc1", "crc2"} =>
         tmp["cfg1"] = slots[1]
    /\ pc[p] = "compare" => tmp["cfg1"] \in Cfgs
    /\ pc[p] = "crc2" => tmp["cfg1"] \notin Cfgs

JobInv(p) ==
    pc[p] \in WriteLabels =>
      /\ job[p].src = "cfg1" => slots[1] \in Cfgs /\ tmp["cfg1"] = slots[1]
      /\ job[p].src = "cfg2" => slots[2] \in Cfgs /\ tmp["cfg2"] = slots[2]
      /\ Faults \cap {"open", "read"} = {} /\ job[p].src = "cfg2" =>
           slots[1] \notin Cfgs \/ slots[1] = slots[2]
      /\ job[p].src = "request" /\ job[p].slot = 1 => slots[2] \in Cfgs
      /\ job[p].src = "request" /\ job[p].slot = 2 => slots[1] = arg[p]

CopyInv(p) ==
    /\ pc[p] \in {"truncate", "dd", "program", "readback", "confirm"} =>
         tmp["write"] = Input(p) /\ return_value[p] = 0
    /\ pc[p] \in {"cp", "truncate", "dd"} /\ job[p].src = "request" /\ job[p].slot = 1 =>
         slots[1] = slots[2]
    /\ pc[p] = "program" => buf[p] = Input(p) /\ slots[job[p].slot] = Torn
    /\ pc[p] = "confirm" => tmp["readback"] \in {slots[job[p].slot], Absent, Empty}
    /\ pc[p] = "remove" /\ return_value[p] = 0 => slots[job[p].slot] = Input(p)

ReturnInv(p) ==
    /\ pc[p] = "cleanup" /\ return_value[p] = 0 => slots[1] = slots[2] /\ slots[1] \in Cfgs
    /\ pc[p] = "written1" => slots[2] \in Cfgs
    /\ pc[p] \in {"written1", "written2"} /\ return_value[p] = 0 => slots[1] = arg[p]
    /\ pc[p] = "written2" /\ return_value[p] = 0 => slots[2] = arg[p]
    /\ pc[p] = "ok" => slots[1] = arg[p] /\ slots[2] = arg[p]

Knows(p) == FileInv(p) /\ ReadInv(p) /\ JobInv(p) /\ CopyInv(p) /\ ReturnInv(p)
IInv == \A p \in Procs : Fresh(p) => Knows(p)

\* A board that can boot stays bootable through every step of the script: no
\* write, failed write, kill or power cut leaves both copies invalid, because
\* verify_existing_scu_bl_cfg_validity restores the pair before a copy is risked.
\* It relies on each file of /tmp being one that this run has read.
NeverBricked == [][(\A p \in Procs : Fresh(p)) /\ SomeValid => SomeValid']_vars

\* A fresh invocation that exits with status 0 has left both copies equal to the
\* configuration it was asked for (the confirmations at lines 142 and 148).
OkMeansBothWritten ==
    \A p \in Procs :
        pc[p] = "ok" /\ Fresh(p) => slots[1] = arg[p] /\ slots[2] = arg[p]

\* When nothing fails, set_sw_image.sh gives up only on a board that has no
\* valid configuration: a half-finished earlier run is repaired, not refused.
FailsOnlyIfUnbootable ==
    Faults = {} => \A p \in Procs : pc[p] = "fail" => ~SomeValid

\* Every invocation comes to an end, whatever fails on the way.
Terminates ==
    \A p \in Procs : pc[p] = "read1" ~> pc[p] \in Stopped

\* "verify the write has succeeded by reading back the data and comparing it to
\* the original" (set_sw_image.sh:27): a confirmed write has read back the file
\* the function was given.
ConfirmedIsOriginal ==
    [][\A p \in Procs :
         pc[p] = "confirm" /\ pc'[p] = "remove" /\ return_value'[p] = 0
            => tmp["readback"] = Input(p)]_vars

\* "verify the write has succeeded" (the same line): a confirmed write has put the
\* file the function was given into the slot.
ConfirmedIsWritten ==
    [][\A p \in Procs :
         pc[p] = "confirm" /\ pc'[p] = "remove" /\ return_value'[p] = 0
            => slots[job[p].slot] = Input(p)]_vars

\* set_sw_image.sh implements the atomic register of BootSelect: the choice of
\* the next image changes at one instant of an invocation, to what it asked for.
Status(p) == IF pc[p] \in Stopped THEN pc[p] ELSE "working"
BS == INSTANCE BootSelect WITH
        selected <- Effective, request <- arg, status <- [p \in Procs |-> Status(p)]
ImplementsBootSelect == BS!Spec
===============================================================================

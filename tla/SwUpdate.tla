------------------------------- MODULE SwUpdate -------------------------------
(* The life of a board that is updated in the field: run_swupdate.sh (dual and *)
(* single mode), the set_sw_image.sh it calls (BootConfig, command by command),*)
(* the boot loader, and rcS.swupdate, the init script of the SWUpdate image    *)
(* that a board in remote update mode boots.                                   *)
EXTENDS BootConfig

CONSTANTS
    cfgA, cfgB, cfgRemote   \* scu_bl_cfg_a, _b and _a_remote_update.bin

ASSUME SwUpdateAssumption ==
    /\ Requests = {cfgA, cfgB, cfgRemote} /\ Cfgs = Requests
    /\ cfgA # cfgB /\ cfgB # cfgRemote /\ cfgA # cfgRemote

VARIABLES
    mode,           \* "off", "linux", "update" (SWUpdate image) or "dead"
    booted,         \* the copy whose image runs (active_boot_image_offset)
    copies,         \* is each image copy whole, or broken by a partial write
    updating,       \* the copies swupdate is writing
    up,             \* where run_swupdate.sh is
    rcs             \* where rcS.swupdate is

boardVars == <<mode, booted, copies, updating, up, rcs>>
allVars == <<vars, boardVars>>

Copies == {"a", "b"}
Other(c) == IF c = "a" THEN "b" ELSE "a"
Image(cfg) == IF cfg = cfgB THEN "b" ELSE "a"
CfgOf(c) == IF c = "a" THEN cfgA ELSE cfgB

\* get_sw_image.sh --next reads the offset field of copy 1 without its CRC, so a
\* torn copy 1 can show either.
NextOutputs ==
    IF slots[1] = Torn THEN Copies
    ELSE IF slots[1] = Zeros THEN {"a"}
    ELSE {Image(slots[1])}
-------------------------------------------------------------------------------
(* Faulty variants of the actions below; Next does not use them.               *)

\* The failure of swupdate not noticed (no set -e): the switch follows anyway.
SwupdateFailsUnnoticed ==
    /\ up = "swupdate"
    /\ up' = "switch"
    /\ \E p \in Procs, c \in updating : Start(p, CfgOf(c))
    /\ UNCHANGED <<mode, booted, copies, updating, rcs>>

\* swupdate started in the background.
RcsSwupdateInBackground(c) ==
    /\ mode = "update" /\ rcs = "swupdate"
    /\ updating' = {c}
    /\ rcs' = "post"
    /\ UNCHANGED <<vars, mode, booted, copies, up>>

\* Only copy 2 rewritten at the end of a remote update.
PostWriteCopy2Only ==
    /\ rcs = "dd5"
    /\ rcs' = "dd6"
    /\ UNCHANGED <<vars, mode, booted, copies, updating, up>>
-------------------------------------------------------------------------------
\* A board as it leaves the factory; copy b may never have been programmed.
BoardInit ==
    /\ Init
    /\ slots = [k \in Slots |-> cfgA]
    /\ mode = "off"
    /\ booted = "a"
    /\ copies \in {c \in [Copies -> {"whole", "broken"}] : c["a"] = "whole"}
    /\ updating = {}
    /\ up = "none"
    /\ rcs = "none"

\* The boot loader: one descriptor, so no other image is tried.
Boot ==
    /\ mode = "off"
    /\ IF Effective = NoConfig \/ copies[Image(Effective)] = "broken"
         THEN mode' = "dead" /\ UNCHANGED <<booted, rcs>>
         ELSE /\ booted' = Image(Effective)
              /\ mode' = IF Effective = cfgRemote THEN "update" ELSE "linux"
              /\ rcs' = IF Effective = cfgRemote THEN "swupdate" ELSE "none"
    /\ UNCHANGED <<vars, copies, updating, up>>

\* reboot, reboot -f, a panic of init or a power cut.
Down ==
    /\ mode' = "off"
    /\ up' = "none"
    /\ rcs' = "none"
    /\ updating' = {}
    /\ UNCHANGED <<booted, copies>>
    /\ PowerCut

LosePower == mode \in {"linux", "update"} /\ Down
Reboot == mode = "linux" /\ up = "none" /\ Down
-------------------------------------------------------------------------------
(* run_swupdate.sh.  A wrong option or a failed download changes nothing.      *)

\* set_update_copy, then swupdate starts: it updates the copy that does not run, which
\* is the selected one when the board has not rebooted since a switch.
RunDual ==
    /\ mode = "linux" /\ up = "none"
    /\ updating' = {Other(booted)}
    /\ up' = "swupdate"
    /\ UNCHANGED <<vars, mode, booted, copies, rcs>>

\* The images are installed in place: the first write breaks the copy.
SwupdateWrites ==
    /\ \/ mode = "linux" /\ up = "swupdate"
       \/ mode = "update" /\ rcs = "installing"
    /\ copies' = [c \in Copies |-> IF c \in updating THEN "broken" ELSE copies[c]]
    /\ copies' # copies
    /\ UNCHANGED <<vars, mode, booted, updating, up, rcs>>

Install == copies' = [c \in Copies |-> IF c \in updating THEN "whole" ELSE copies[c]]

\* swupdate succeeds; then set_sw_image.sh, unless --dont-switch.
SwupdateDone(p) ==
    /\ up = "swupdate"
    /\ Install
    /\ \/ up' = "none" /\ updating' = {} /\ UNCHANGED vars
       \/ up' = "switch" /\ UNCHANGED updating /\ \E c \in updating : Start(p, CfgOf(c))
    /\ UNCHANGED <<mode, booted, rcs>>

\* set -e ends the script; what was written stays.
SwupdateFails ==
    /\ up = "swupdate"
    /\ up' = "none"
    /\ updating' = {}
    /\ UNCHANGED <<vars, mode, booted, copies, rcs>>

RunSingle(p) ==
    /\ mode = "linux" /\ up = "none"
    /\ Start(p, cfgRemote)
    /\ up' = "single"
    /\ UNCHANGED <<mode, booted, copies, updating, rcs>>

SetSwImage(p) ==
    /\ up \in {"switch", "single"}
    /\ Step(p)
    /\ UNCHANGED boardVars

\* Dual mode ends either way; single mode reboots if set_sw_image.sh succeeded.
SetSwImageReturns(p) ==
    /\ up \in {"switch", "single"}
    /\ \/ /\ pc[p] = "fail" \/ (pc[p] = "ok" /\ up = "switch")
          /\ up' = "none" /\ updating' = {}
          /\ UNCHANGED <<vars, mode, booted, copies, rcs>>
       \/ pc[p] = "ok" /\ up = "single" /\ Down

\* The operator interrupts run_swupdate.sh, and with it set_sw_image.sh.
Interrupt(p) ==
    /\ up \in {"switch", "single"}
    /\ Kill(p)
    /\ up' = "none" /\ updating' = {}
    /\ UNCHANGED <<mode, booted, copies, rcs>>
-------------------------------------------------------------------------------
(* rcS.swupdate.  A step that fails ends init, and the board is restarted.     *)

\* SWUPDATE_UPDATE_MODES, from the kernel command line, is a list of copies; they
\* are installed one after the other.
RcsSwupdate(c) ==
    /\ mode = "update" /\ rcs = "swupdate"
    /\ updating' = {c}
    /\ rcs' = "installing"
    /\ UNCHANGED <<vars, mode, booted, copies, up>>

RcsSwupdateDone ==
    /\ rcs = "installing"
    /\ Install
    /\ updating' = {}
    /\ rcs' \in {"swupdate", "post"}
    /\ UNCHANGED <<vars, mode, booted, up>>

RcsFails == mode = "update" /\ rcs \in {"swupdate", "installing", "program5", "program6"} /\ Down

\* post_swupdate_modify_scu_bl_cfg_bin: dd into slot 5, then into slot 6.
PostCheck ==
    /\ rcs = "post"
    /\ \E c \in NextOutputs : rcs' = IF c = "a" THEN "dd5" ELSE "reboot"
    /\ UNCHANGED <<vars, mode, booted, copies, updating, up>>

PostErase(k, from, to) ==
    /\ rcs = from
    /\ slots' = [slots EXCEPT ![k] = Torn]
    /\ rcs' = to
    /\ UNCHANGED <<tmp, pc, procVars, mode, booted, copies, updating, up>>

PostProgram(k, from, to) ==
    /\ rcs = from
    /\ \/ slots' = [slots EXCEPT ![k] = cfgA]
       \/ "write" \in Faults /\ UNCHANGED slots
    /\ rcs' = to
    /\ UNCHANGED <<tmp, pc, procVars, mode, booted, copies, updating, up>>

PostWrite1 == PostErase(1, "dd5", "program5") \/ PostProgram(1, "program5", "dd6")
PostWrite2 == PostErase(2, "dd6", "program6") \/ PostProgram(2, "program6", "reboot")

RcsReboot == rcs = "reboot" /\ Down

RunSwupdate(p) ==
    \/ SwupdateDone(p) \/ RunSingle(p) \/ SetSwImage(p) \/ SetSwImageReturns(p)
    \/ Interrupt(p)

Rcs ==
    \/ \E c \in Copies : RcsSwupdate(c)
    \/ RcsSwupdateDone \/ RcsFails
    \/ PostCheck \/ PostWrite1 \/ PostWrite2 \/ RcsReboot

BoardNext ==
    \/ Boot \/ LosePower \/ Reboot
    \/ RunDual \/ SwupdateWrites \/ SwupdateFails
    \/ \E p \in Procs : RunSwupdate(p)
    \/ Rcs

BoardSpec == BoardInit /\ [][BoardNext]_allVars
-------------------------------------------------------------------------------
\* Types, which script runs in which mode, and that images are written only while a
\* script waits for swupdate.
BoardTypeOK ==
    /\ TypeOK
    /\ mode \in {"off", "linux", "update", "dead"}
    /\ booted \in Copies
    /\ copies \in [Copies -> {"whole", "broken"}]
    /\ updating \in SUBSET Copies
    /\ up \in {"none", "swupdate", "switch", "single"}
    /\ rcs \in {"none", "swupdate", "installing", "post", "dd5", "program5", "dd6",
                "program6", "reboot"}
    /\ up # "none" => mode = "linux"
    /\ rcs # "none" => mode = "update"
    /\ updating # {} => up \in {"swupdate", "switch"} \/ rcs = "installing"

\* Under Linux the image the next boot selects stays whole through every step, power
\* cuts, failed and interrupted switches included, but for one case: an update that
\* starts between a switch and the reboot (run_swupdate.sh:31 asks for it, no line
\* checks it) rewrites the copy just selected.  The SWUpdate image rewrites the copy
\* it runs from, and single mode selects copy a without looking at it.
SelectedIsWhole == Effective # NoConfig /\ copies[Image(Effective)] = "whole"
RebootPending == Image(Effective) # booted
SelectedStaysWhole ==
    [][SelectedIsWhole =>
         \/ SelectedIsWhole'
         \/ up = "swupdate" /\ RebootPending
         \/ mode = "update" \/ up = "single"]_allVars

\* A board that is in normal mode enters remote update mode only on request: the
\* remote update block that an interrupted run leaves in one copy is never used.
RemoteOnlyOnRequest ==
    [][Effective # cfgRemote /\ Effective' = cfgRemote => up = "single"]_allVars

\* A remote update that ends with a valid copy 1 has put both copies out of remote
\* update mode, even when earlier attempts were cut, or writes failed, at any point.
PostLeavesRemoteMode ==
    rcs = "reboot" /\ slots[1] \in Cfgs => slots[1] = cfgA /\ slots[2] \in {cfgA, Torn}

\* "This function, called after swupdate finished, updates scu_bl_cfg file with
\* boot_image_mode field set to 0" (rcS.swupdate:14): the reboot that follows is
\* not another remote update.
NormalModeAfterUpdate == rcs = "reboot" => Effective # cfgRemote
===============================================================================

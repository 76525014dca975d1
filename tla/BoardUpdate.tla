------------------------------ MODULE BoardUpdate ------------------------------
(* uart_flash_mmc_programming.sh, which updates a board over its UART, its     *)
(* wrapper uart_flash_mmc_programming.py, and the operator at the board.  The  *)
(* script runs under set -e, except inside the functions that are called on    *)
(* the left of || (load_uart_recovery_fw and load_uboot), whose status is that *)
(* of their last command.  The loader is UartBootLoader; the flash program is  *)
(* taken by its promise, FlashStore: success means that all its files are in   *)
(* the flash.  The file of the U-Boot environment, though, is made on the way  *)
(* by mkenvimage, whose failure nobody looks at.                               *)
EXTENDS UartBootLoader

CONSTANTS
    Firmware,   \* the file in the image directory
    PipeSize    \* lines that fit in the pipe between script and wrapper

ASSUME UpdateAssumption == Firmware \in Files /\ PipeSize \in Nat \ {0}

VARIABLES
    step,       \* where main of the script is
    flash,      \* "old", "torn", "new": what this update writes, or "no_env": that but
                \* for the U-Boot environment
    booted,     \* what was in the flash when the board last booted from it
    received,   \* what the U-Boot was booted from that has acknowledged the whole image
                \* in this update; "nothing" before
    wrapper,    \* the Python program: "reading", "killed", or the status it returned
    pipe,       \* lines of output the wrapper has not read
    tee         \* tee runs, and holds the pipe open

script == <<step, received>>
output == <<wrapper, pipe, tee>>
vars == <<loaderVars, script, flash, booted, output>>

Status(s) == IF s = "done" THEN "success" ELSE "failure"
Over == {"done", "failed"}
Steps == {"prepare", "prompt_uart", "load_fw", "loading_fw", "program_flash", "prompt_flash",
          "load_uboot", "load_linux", "decompress", "write_mmc"}

\* What the script prints blocks while the pipe is full; nobody reads it once the
\* wrapper is dead.
Log == IF wrapper = "reading" THEN pipe < PipeSize /\ pipe' = pipe + 1 ELSE UNCHANGED pipe

\* Nothing of the last update is left but the contents of the board.
NoUpdate == step \in Over /\ wrapper # "reading" /\ ~tee /\ Slept
Programmed == {"new", "no_env"}
Before(contents) == IF contents \in Programmed THEN "old" ELSE contents

From(label) == step = label /\ Log /\ UNCHANGED <<wrapper, tee>>
To(label) == step' = label /\ UNCHANGED received
-------------------------------------------------------------------------------
Init ==
    /\ LoaderInit
    /\ step = "failed" /\ received = "nothing"
    /\ flash = "old" /\ booted = "old"
    /\ wrapper = "failure" /\ pipe = 0 /\ tee = FALSE
-------------------------------------------------------------------------------
(* Faulty variants; the specification does not use them.                       *)

\* "program_flash || return $?": set -e does not hold inside, and the status is that
\* of sleep.
ProgramFlashOnTheLeft ==
    /\ From("program_flash")
    /\ flash' \in IF board = "recovery" THEN Programmed \cup {"torn", flash} ELSE {flash}
    /\ To("prompt_flash")
    /\ UNCHANGED <<loaderVars, booted>>

\* A handler that forwards the signal and exits.
InterruptEndsWrapper ==
    /\ step \in Steps /\ wrapper = "reading"
    /\ \/ To("failed")
       \/ step = "load_uboot" /\ To("load_linux")
    /\ flash' \in (IF step = "program_flash" /\ board = "recovery" THEN {flash, "torn"} ELSE {flash})
    /\ IF step = "loading_fw" /\ LoaderRuns THEN KillLoader ELSE UNCHANGED loaderVars
    /\ wrapper' = "failure" /\ pipe' = 0
    /\ UNCHANGED <<booted, tee>>

\* process.wait() before the output is read.
ReadAfterExit ==
    /\ wrapper = "reading" /\ step \in Over /\ pipe > 0
    /\ pipe' = pipe - 1
    /\ UNCHANGED <<loaderVars, script, flash, booted, wrapper, tee>>
-------------------------------------------------------------------------------
(* The script.                                                                 *)

Invoke ==
    /\ NoUpdate /\ ~LoaderRuns
    /\ step' = "prepare" /\ received' = "nothing"
    /\ flash' = Before(flash) /\ booted' = Before(booted)
    /\ wrapper' = "reading" /\ pipe' = 0 /\ tee' = TRUE
    /\ UNCHANGED loaderVars

\* validate_paths, update_uboot_env_locally, compress_wic_image.
Prepare ==
    /\ From("prepare")
    /\ To("prompt_uart") \/ To("failed")
    /\ UNCHANGED <<loaderVars, flash, booted>>

\* read: the operator presses Enter, whether or not the board was reset.
Enter ==
    /\ \/ From("prompt_uart") /\ To("load_fw")
       \/ From("prompt_flash") /\ To("load_uboot")
    /\ UNCHANGED <<loaderVars, flash, booted>>

\* The script never passes --is-secure-chip.
LoadFw ==
    /\ From("load_fw") /\ To("loading_fw")
    /\ StartLoader(Firmware, FALSE)
    /\ UNCHANGED <<flash, booted>>

\* main() of the loader exits with 0 whatever happened.
LoaderReturns ==
    /\ ~LoaderRuns
    /\ From("loading_fw") /\ To("program_flash")
    /\ UNCHANGED <<loaderVars, flash, booted>>

\* create_uboot_env does not look at the status of mkenvimage: the program then takes
\* an empty or incomplete file, and succeeds.
ProgramFlash ==
    /\ From("program_flash")
    /\ \/ board = "recovery" /\ flash' \in Programmed /\ To("prompt_flash")
       \/ flash' \in (IF board = "recovery" THEN {flash, "torn"} ELSE {flash}) /\ To("failed")
    /\ UNCHANGED <<loaderVars, booted>>

\* The status of load_uboot is that of sleep: sz may have failed.
LoadUboot ==
    /\ From("load_uboot") /\ To("load_linux")
    /\ \/ board = "spl" /\ board' = "uboot"
       \/ UNCHANGED board
    /\ UNCHANGED <<flash, booted, ram, line, rx, loader>>

LoadLinuxImage ==
    /\ From("load_linux")
    /\ \/ board = "uboot" /\ board' = "image" /\ received' = booted /\ step' = "decompress"
       \/ UNCHANGED board /\ To("failed")
    /\ UNCHANGED <<flash, booted, ram, line, rx, loader>>

\* The commands to the U-Boot console are sent, and nobody looks at an answer.
Decompress ==
    /\ From("decompress") /\ To("write_mmc")
    /\ UNCHANGED <<loaderVars, flash, booted>>

WriteMmc ==
    /\ From("write_mmc") /\ To("done")
    /\ board' = IF board = "image" THEN "system" ELSE board
    /\ UNCHANGED <<flash, booted, ram, line, rx, loader>>

\* A loader that is killed, and not ended by its own exception, has a status.
LoaderKilled ==
    /\ KillLoader
    /\ IF step = "loading_fw" THEN To("failed") ELSE UNCHANGED script
    /\ UNCHANGED <<flash, booted, output>>

\* Ctrl-C at the wrapper goes to the whole process group of the script.  sz handles
\* it and exits with a status, which load_uboot does not look at.
Interrupt ==
    /\ step \in Steps /\ wrapper = "reading"
    /\ \/ To("failed")
       \/ step = "load_uboot" /\ To("load_linux")
    /\ flash' \in (IF step = "program_flash" /\ board = "recovery" THEN {flash, "torn"} ELSE {flash})
    /\ IF step = "loading_fw" /\ LoaderRuns THEN KillLoader ELSE UNCHANGED loaderVars
    /\ UNCHANGED <<booted, output>>

\* Without a reader tee dies of SIGPIPE, and so does the script when it prints.
BrokenPipe ==
    /\ step \in Steps \ {"loading_fw"} /\ wrapper = "killed"
    /\ To("failed")
    /\ UNCHANGED <<loaderVars, flash, booted, output>>
-------------------------------------------------------------------------------
(* The wrapper.                                                                *)

ReadLine ==
    /\ wrapper = "reading" /\ pipe > 0
    /\ pipe' = pipe - 1
    /\ UNCHANGED <<loaderVars, script, flash, booted, wrapper, tee>>

\* readline() returns '' at the end of the file only: when nobody holds the pipe.
Return ==
    /\ wrapper = "reading" /\ pipe = 0 /\ ~tee
    /\ step \in Over
    /\ wrapper' = Status(step)
    /\ UNCHANGED <<loaderVars, script, flash, booted, pipe, tee>>

TeeEnds ==
    /\ tee /\ step \in Over
    /\ tee' = FALSE
    /\ UNCHANGED <<loaderVars, script, flash, booted, wrapper, pipe>>

\* Only SIGINT is handled.
KillWrapper ==
    /\ wrapper = "reading"
    /\ wrapper' = "killed" /\ pipe' = 0
    /\ UNCHANGED <<loaderVars, script, flash, booted, tee>>
-------------------------------------------------------------------------------
(* The operator and the board: external.                                       *)

\* With the new environment the SPL waits for U-Boot on the UART; without it, the
\* environment may be that of an earlier update, or none.
BootFromFlash ==
    /\ board' \in CASE flash = "new" -> {"spl"} [] flash = "torn" -> {"off"}
                    [] OTHER -> {"system", "spl"}
    /\ booted' = flash
    /\ ram' = Nothing
    /\ line' = <<>>
    /\ UNCHANGED <<rx, loader>>

\* The operator sets the boot strap to UART or to flash, and resets the board.
Reset ==
    /\ \/ ResetToRom /\ UNCHANGED booted
       \/ BootFromFlash
    /\ UNCHANGED <<script, flash, output>>

Other == UNCHANGED <<script, flash, booted, output>>

\* The loader alone, when no script uses the serial device.  The update before is
\* forgotten, as in the initial state.
StartByHand ==
    /\ NoUpdate
    /\ \E file \in Files, secure \in BOOLEAN : StartLoader(file, secure)
    /\ step' = "failed" /\ received' = "nothing"
    /\ flash' = Before(flash) /\ booted' = Before(booted)
    /\ wrapper' = "failure"
    /\ UNCHANGED <<pipe, tee>>
-------------------------------------------------------------------------------
ScriptStep ==
    \/ Prepare \/ Enter \/ LoadFw \/ LoaderReturns \/ ProgramFlash \/ LoadUboot
    \/ LoadLinuxImage \/ Decompress \/ WriteMmc

WrapperStep == ReadLine \/ Return \/ TeeEnds

Next ==
    \/ Invoke \/ ScriptStep \/ Interrupt \/ BrokenPipe \/ LoaderKilled
    \/ WrapperStep \/ KillWrapper
    \/ StartByHand \/ Reset
    \/ (LoaderStep \/ RomStep \/ PowerOff) /\ Other

Spec == Init /\ [][Next]_vars

\* The programs run, their reads time out, the operator presses Enter, and sz gives up
\* in the end.  Nothing is assumed of the board but that it takes or loses what is sent.
Fairness ==
    /\ WF_vars(ScriptStep) /\ WF_vars(WrapperStep)
    /\ WF_vars(LoaderStep /\ Other) /\ WF_vars(RomStep /\ Other)

FairSpec == Spec /\ Fairness
-------------------------------------------------------------------------------
Contents == {"old", "torn", "new", "no_env"}

\* Types; the wrapper has returned only after the script is over, and with its status:
\* an interrupt ends neither the wrapper nor, while sz runs in load_uboot, the script.
UpdateTypeOK ==
    /\ step \in Steps \cup Over
    /\ flash \in Contents /\ booted \in Contents
    /\ received \in Contents \cup {"nothing"}
    /\ wrapper \in {"reading", "killed", "success", "failure"}
    /\ pipe \in 0..PipeSize /\ tee \in BOOLEAN
    /\ wrapper \in {"success", "failure"} => step \in Over /\ wrapper = Status(step)

\* An update that gets past its last transfer, or reports success, has sent the whole
\* image to a U-Boot whose SPL was programmed and then booted in this update.  So neither
\* a failed upload, which the loader conceals, nor a failed transfer of U-Boot, which
\* load_uboot conceals, nor a board that was not reset, or that runs the system of an
\* earlier update, is taken for a success.  The U-Boot environment may be missing.
CompletedMeansSent ==
    step \in {"decompress", "write_mmc", "done"} => received \in Programmed

\* An update comes to its end and the wrapper returns or is dead: a full pipe, a silent
\* board or an interrupt do not make script and wrapper wait for each other.
UpdateEnds == wrapper = "reading" ~> wrapper # "reading"
===============================================================================

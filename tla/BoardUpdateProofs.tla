--------------------------- MODULE BoardUpdateProofs ---------------------------
(* Proofs about BoardUpdate, for any files, any pipe, any noise and any        *)
(* behaviour of the board.                                                     *)
EXTENDS BoardUpdate, UartBootLoaderProofs

\* Nothing is left in the pipe that nobody will read.
Drained == wrapper # "reading" => pipe = 0

\* After the flash program nothing but the flash it has left can have booted an SPL.
FromFlash ==
    step \in {"prompt_flash", "load_uboot", "load_linux"} =>
        /\ flash \in Programmed
        /\ board \in {"spl", "uboot"} => booted = flash

UInv == UpdateTypeOK /\ CompletedMeansSent /\ FromFlash /\ Drained

\* Loader, boot ROM and operator leave the board where it is, or take it away from what
\* has booted from the flash.
LEMMA NoOtherBoot ==
    LoaderStep \/ RomStep \/ PowerOff \/ ResetToRom \/ KillLoader =>
        board' = board \/ board' \notin {"spl", "uboot"}
<1>1. LoaderStep => board' = board
  BY DEF LoaderStep, LoadFile, OpenPort, ReadMagic, WriteHeader, HeaderAck, WriteData, DataAck,
     WriteEnd, IdentifyFw, ReadVersion, Timeout
<1>2. RomStep => board' = board \/ board' \in {"data", "rom", "recovery", "lost"}
  <2>1. RomHeader \/ RomData \/ RomLosesStep \/ BoardIgnores =>
            board' = board \/ board' \in {"data", "rom", "lost"}
    BY DEF RomHeader, RomData, RomLosesStep, BoardIgnores
  <2>2. RomEnd \/ FwAnswers => board' = board \/ board' \in {"lost", "recovery"}
    BY DEF RomEnd, FwAnswers
  <2> QED
    BY <2>1, <2>2 DEF RomStep
<1>3. PowerOff \/ ResetToRom => board' \in {"off", "rom"}
  BY DEF PowerOff, ResetToRom
<1>4. KillLoader => board' = board
  BY DEF KillLoader
<1> QED
  BY <1>1, <1>2, <1>3, <1>4

\* The script: each step prints a line before, which blocks on a full pipe.
LEMMA ScriptKeeps == UInv /\ ScriptStep => UInv'
<1> SUFFICES ASSUME UInv, ScriptStep PROVE UInv'
  OBVIOUS
<1> USE UpdateAssumption
<1> USE DEF UInv, UpdateTypeOK, CompletedMeansSent, FromFlash, Drained, Steps, Over, Status,
     Contents, Programmed, From, To, Log
<1>1. CASE Prepare
  BY <1>1 DEF Prepare
<1>2. CASE Enter
  BY <1>2 DEF Enter, loaderVars
<1>3. CASE LoadFw
  BY <1>3 DEF LoadFw
<1>4. CASE LoaderReturns
  BY <1>4 DEF LoaderReturns
<1>5. CASE ProgramFlash
  BY <1>5 DEF ProgramFlash, loaderVars
<1>6. CASE LoadUboot
  BY <1>6 DEF LoadUboot
<1>7. CASE LoadLinuxImage
  BY <1>7 DEF LoadLinuxImage
<1>8. CASE Decompress
  BY <1>8 DEF Decompress
<1>9. CASE WriteMmc
  BY <1>9 DEF WriteMmc
<1> QED
  BY <1>1, <1>2, <1>3, <1>4, <1>5, <1>6, <1>7, <1>8, <1>9 DEF ScriptStep

\* The wrapper, interrupts, kills, and what happens at the board.
LEMMA UpdateStep == UInv /\ [Next]_vars => UInv'
<1> SUFFICES ASSUME UInv, [Next]_vars PROVE UInv'
  OBVIOUS
<1> USE UpdateAssumption
<1> USE DEF UInv, UpdateTypeOK, CompletedMeansSent, FromFlash, Drained, Steps, Over, Status,
     Contents, Programmed, To, script, output
<1>1. CASE Invoke
  BY <1>1 DEF Invoke, NoUpdate, Before
<1>2. CASE ScriptStep
  BY <1>2, ScriptKeeps
<1>3. CASE Interrupt
  BY <1>3, NoOtherBoot DEF Interrupt, loaderVars
<1>4. CASE BrokenPipe
  BY <1>4 DEF BrokenPipe
<1>5. CASE LoaderKilled
  BY <1>5, NoOtherBoot DEF LoaderKilled
<1>6. CASE ReadLine \/ Return
  BY <1>6 DEF ReadLine, Return, loaderVars
<1>7. CASE TeeEnds
  BY <1>7 DEF TeeEnds, loaderVars
<1>8. CASE KillWrapper
  BY <1>8 DEF KillWrapper, loaderVars
<1>9. CASE StartByHand
  BY <1>9 DEF StartByHand, NoUpdate, Before
<1>10. CASE Reset
  BY <1>10, NoOtherBoot DEF Reset, BootFromFlash
<1>11. CASE (LoaderStep \/ RomStep \/ PowerOff) /\ Other
  BY <1>11, NoOtherBoot DEF Other
<1>12. CASE UNCHANGED vars
  BY <1>12 DEF vars, loaderVars
<1> QED
  BY <1>1, <1>2, <1>3, <1>4, <1>5, <1>6, <1>7, <1>8, <1>9, <1>10, <1>11, <1>12
     DEF Next, WrapperStep

LEMMA UpdateInvariant == Spec => []UInv
<1>1. ASSUME Init PROVE UInv
  <2>1. tee \in BOOLEAN
    BY <1>1, Zenon DEF Init
  <2>2. /\ step = "failed" /\ flash = "old" /\ booted = "old" /\ received = "nothing"
        /\ wrapper = "failure" /\ pipe = 0
    BY <1>1, Zenon DEF Init
  <2> QED
    BY <2>1, <2>2, UpdateAssumption DEF UInv, UpdateTypeOK, CompletedMeansSent, FromFlash,
       Drained, Steps, Over, Status, Contents
<1> QED
  BY <1>1, UpdateStep, PTL DEF Spec

\* The variables of script, pipe and wrapper keep their types, and the wrapper ends with
\* the script's status, after it (run_uart_flash_mmc_programming).
THEOREM UpdateTypeCorrect == Spec => []UpdateTypeOK
<1>1. UInv => UpdateTypeOK
  BY DEF UInv
<1> QED
  BY <1>1, UpdateInvariant, PTL

\* An update that reports success has sent the whole image to a U-Boot that was booted from
\* what the update has programmed, although loader, load_uboot and the handling of the
\* environment conceal their failures (main of the script).
THEOREM SuccessMeansSent == Spec => []CompletedMeansSent
<1>1. UInv => CompletedMeansSent
  BY DEF UInv
<1> QED
  BY <1>1, UpdateInvariant, PTL
-------------------------------------------------------------------------------
\* The update and the operator start and kill the loader, and change the board without
\* it only when another system boots.
LEMMA UpdateIsLoader ==
    [Next]_vars => [LoaderNext]_loaderVars \/ BootsElsewhere
<1> SUFFICES ASSUME [Next]_vars PROVE [LoaderNext]_loaderVars \/ BootsElsewhere
  OBVIOUS
<1>1. LoadUboot \/ LoadLinuxImage \/ WriteMmc => UNCHANGED loaderVars \/ BootsElsewhere
  BY DEF LoadUboot, LoadLinuxImage, WriteMmc, BootsElsewhere, loaderVars, Systems
<1>2. Prepare \/ Enter \/ LoaderReturns \/ ProgramFlash \/ Decompress => UNCHANGED loaderVars
  BY DEF Prepare, Enter, LoaderReturns, ProgramFlash, Decompress
<1>3. LoadFw => LoaderNext
  BY UpdateAssumption DEF LoadFw, LoaderNext
<1>4. Interrupt \/ LoaderKilled \/ BrokenPipe \/ StartByHand => [LoaderNext]_loaderVars
  BY DEF Interrupt, LoaderKilled, BrokenPipe, StartByHand, LoaderNext
<1>5. Invoke \/ WrapperStep \/ KillWrapper => UNCHANGED loaderVars
  BY DEF Invoke, WrapperStep, ReadLine, Return, TeeEnds, KillWrapper
<1>6. BootFromFlash => BootsElsewhere
  BY DEF BootFromFlash, BootsElsewhere, Systems
<1>7. Reset => LoaderNext \/ BootsElsewhere
  BY <1>6 DEF Reset, LoaderNext
<1>8. LoaderStep \/ RomStep \/ PowerOff => LoaderNext
  BY DEF LoaderNext
<1> QED
  BY <1>1, <1>2, <1>3, <1>4, <1>5, <1>7, <1>8 DEF Next, ScriptStep, vars

LEMMA UpdateCheckedStep == Checked /\ [Next]_vars => Checked'
<1>1. Checked /\ BootsElsewhere => Checked'
  BY DEF Checked, BootsElsewhere, loader, LoaderRuns
<1> QED
  BY <1>1, UpdateIsLoader, CheckedStep

\* During an update, too, nothing but complete files that fit is sent to the boot ROM.
THEOREM UpdateSendsWhole == Spec => []SendsOnlyWhole
<1>1. Init => Checked
  BY DEF Init, LoaderInit, Checked, LoaderRuns, LoaderEnded, Uploading
<1>2. Checked => SendsOnlyWhole
  BY CheckedIsWhole
<1> QED
  BY <1>1, <1>2, UpdateCheckedStep, PTL DEF Spec

LEMMA UpdateLoaderInvariant == Spec => []LInv
<1>1. Init => LInv
  BY LInvInit DEF Init
<1>2. LInv /\ BootsElsewhere => LInv'
  BY BoardKeepsTypes, BoardAcked DEF LInv, BoardMoves
<1>3. LInv /\ [Next]_vars => LInv'
  BY <1>2, UpdateIsLoader, LInvStep
<1> QED
  BY <1>1, <1>3, PTL DEF Spec

\* Loader, line and board keep their types while scripts, operators and systems that boot
\* come in between.
THEOREM UpdateLoaderTypes == Spec => []LoaderTypeOK
<1>1. LInv => LoaderTypeOK
  BY TypesSuffice DEF LInv
<1> QED
  BY <1>1, UpdateLoaderInvariant, PTL

\* What the acknowledgements tell stays true when updates, interrupts and boots from the
\* flash come in between (write_to_uart).
THEOREM UpdateAckedIsStored == Spec => []AckedIsStored
  BY LInvSuffices, UpdateLoaderInvariant, PTL
===============================================================================

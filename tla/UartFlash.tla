------------------------------- MODULE UartFlash -------------------------------
(* hailo15_spi_flash_program over UART and hailo15_emmc_program: their         *)
(* managers on top of UartRecoveryFlashProgrammer, UartRecoveryEmmcProgrammer  *)
(* and UartRecoveryCommunicator, the serial line, and the recovery firmware of *)
(* the board, as these classes use it.                                         *)
(*                                                                             *)
(* A command on the line is what one method of the communicator sends.  A host *)
(* that is killed between two of its writes leaves the beginning of a command; *)
(* the firmware completes it with whatever comes next.                         *)
EXTENDS StorageLayout, FiniteSetsExt

CONSTANTS
    Requests,   \* what run() may be asked for: see RequestAssumption.  Bound: the
                \* sessions of one behaviour are with the same device
    Sectors,    \* bound: the sectors of the device that are followed
    Strays,     \* bound: the sectors that a garbled command may hit
    MaxLine     \* bound: commands on the line when a session opens

ASSUME RequestAssumption ==
    /\ Sectors \subseteq Nat /\ Strays \subseteq Sectors /\ MaxLine \in Nat
    /\ \A r \in Requests :
          /\ r.device \in {"flash", "emmc"} /\ r.rate \in {"slow", "fast"}
          /\ r.device = "flash" => r.rate = "slow"
          /\ {r.bImage, r.verify, r.jump} \subseteq BOOLEAN
          /\ DOMAIN r.length \subseteq Options
          /\ \A o \in DOMAIN r.length : r.length[o] \in Nat
          /\ r.device = "flash" =>
                \A section \in Sections : Option(section) \in DOMAIN r.length =>
                   Region(section, r.bImage, r.length[Option(section)]) \subseteq Sectors

VARIABLES
    flash,      \* per sector of the device, flash or eMMC: "old", "erased", "torn", or
                \* the option it belongs to
    line,       \* commands to the board, the one in execution included
    rx,         \* answers to the host: the command they acknowledge, or data
    fw,         \* the recovery firmware: "absent", "idle", "busy"
    rate,       \* its baud rate: "slow" (115200) until it is told another one
    pc,         \* where the host is
    request,    \* the request of the session
    todo,       \* sections left, by their places in RunOrder
    sector,     \* sectors of the section already erased (flash), written (eMMC), or
                \* read back
    same        \* the data read back so far is the data written

host == <<pc, request, todo, sector, same>>
vars == <<flash, line, rx, fw, rate, host>>

Contents == {"old", "erased", "torn"} \cup Options
Command(op, first, count, data) ==
    [op |-> op, first |-> first, count |-> count, data |-> data, rate |-> request.rate]
Opcode(op) == Command(op, 0, 0, "none")
Answer(kind) == [kind |-> kind, data |-> "none"]
Data(content) == [kind |-> "data", data |-> content]

Ended == {"ok", "failed"}
Waiting == {"version", "jedec", "erase_ack", "write_ack", "read_data"}
Session(p) == p \in Waiting \cup {"opened", "identified", "section", "erase", "read"}

\* The host has identified the board, or an eMMC session has read its version.
Identified == Session(pc) /\ pc \notin {"opened", "version"}

\* The places of the sections that run() is asked for; it takes them in this order.
Requested == {i \in DOMAIN RunOrder : Option(RunOrder[i]) \in DOMAIN request.length}

Section == RunOrder[Min(todo)]
File == Option(Section)
Length == request.length[File]
Address == Start(Section, request.bImage)

Emmc == request.device = "emmc"
AtMost(n, m) == IF n <= m THEN n ELSE m

BLOCK == 16     \* buff_size of the eMMC programmer in sectors: 128 * EMMC_BLOCK_SIZE

\* Faulty variant: whole blocks are written, the last one of a file too.
WriteWholeBlocks == IF Emmc THEN BLOCK ELSE SectorCount(Length)

\* What one call of write or read of the communicator is for.
WriteCount == IF Emmc THEN AtMost(BLOCK, SectorCount(Length) - sector) ELSE SectorCount(Length)
ReadCount == IF Emmc THEN SectorCount(Length) ELSE 1

\* Bytes sent to a board without the firmware are lost.
Send(commands) == line' = IF fw = "absent" THEN line ELSE line \o commands

\* Assumption: nothing is made of a command that comes at another rate than the
\* firmware's.
Heard == line # <<>> /\ Head(line).rate = rate

Program(first, count, content) ==
    [s \in Sectors |-> IF s \in Extent(first, count) THEN content ELSE flash[s]]

\* What is read from sectors that need not all have the same contents.
Found(sectors) ==
    IF \E c \in Contents : \A s \in sectors : flash[s] = c
    THEN CHOOSE c \in Contents : \A s \in sectors : flash[s] = c
    ELSE "mixed"

\* The program goes on, or ends: its variables and the serial port go with it.
Goto(label) == pc' = label /\ UNCHANGED <<rx, todo, sector, same>>
End(status) == pc' = status /\ rx' = <<>> /\ todo' = {} /\ sector' = 0 /\ same' = TRUE

\* The section is programmed: on to the next one.
NextSection == pc' = "section" /\ todo' = todo \ {Min(todo)}

\* Answers to a port that nobody has open are lost.
Reply(answers) == rx' = IF pc \in Ended THEN <<>> ELSE rx \o answers

\* Assumption on time: the firmware needs long for erase and write only, so before
\* a read times out, or an operator starts again, it has dealt with the rest.
Settled ==
    \/ fw # "idle"
    \/ line = <<>>
    \/ Len(line) = 1 /\ line[1].op = "partial"
-------------------------------------------------------------------------------
Init ==
    /\ flash = [s \in Sectors |-> "old"]
    /\ line = <<>> /\ rx = <<>>
    /\ fw = "absent" /\ rate = "slow"
    /\ pc = "failed"
    /\ request \in Requests
    /\ todo = {} /\ sector = 0 /\ same = TRUE

\* A session starts with its place in run() at label.
Opens(label) ==
    /\ pc \in Ended /\ Settled /\ Len(line) <= MaxLine
    /\ request' \in {r \in Requests : r.device = request.device}
    /\ todo' = Requested'
    /\ pc' = label
    /\ UNCHANGED <<flash, rx, fw, rate, sector, same>>
-------------------------------------------------------------------------------
(* Faulty variants; Next does not use them.                                    *)

\* identify() is not called.
OpenWithoutIdentify == Opens("section") /\ UNCHANGED line

\* The size of the file is not compared with the size of the section.
ProgramStorageUnchecked ==
    /\ pc = "section" /\ todo # {}
    /\ Goto("erase")
    /\ UNCHANGED <<flash, line, fw, rate, request>>

\* The loop erases the sector behind the section as well.
EraseOneMore ==
    /\ ~Emmc
    /\ pc = "erase" /\ sector <= SectorCount(Length)
    /\ Send(<<Command("erase", Address + sector, 1, "erased")>>)
    /\ Goto("erase_ack")
    /\ UNCHANGED <<flash, fw, rate, request>>

\* The last sector is not read back.
ValidateOneLess ==
    /\ pc = "read" /\ sector = SectorCount(Length) - 1
    /\ IF same THEN NextSection /\ sector' = 0 /\ UNCHANGED <<rx, same>> ELSE End("failed")
    /\ UNCHANGED <<flash, line, fw, rate, request>>

\* The loop of read() does not give up when nothing arrives.
KeepReading == pc \in Waiting /\ Settled /\ UNCHANGED vars
-------------------------------------------------------------------------------
(* The host.                                                                   *)

\* init_flow: always at UART_BAUDRATE, which set_baudrate changes for the instance.
OpeningCommands ==
    LET Slow(op) == [Opcode(op) EXCEPT !.rate = "slow"] IN
    IF ~Emmc THEN <<Slow("choose_storage"), Slow("work_with_flash")>>
    ELSE <<Slow("choose_storage"), Slow("work_with_emmc")>> \o
         (IF request'.rate = "fast" THEN <<Slow("set_baudrate")>> ELSE <<>>)

OpenInterface ==
    /\ Opens("opened")
    /\ Send(OpeningCommands)

GetFwVersion ==
    /\ pc = "opened"
    /\ Send(<<Opcode("fw_version")>>)
    /\ Goto("version")
    /\ UNCHANGED <<flash, fw, rate, request>>

VerifyFwVersion ==
    /\ pc = "version" /\ Len(rx) >= 2
    /\ \/ /\ rx[1].kind = "major" /\ rx[2].kind = "minor"
          /\ pc' = IF Emmc THEN "section" ELSE "identified"
          /\ rx' = SubSeq(rx, 3, Len(rx))
          /\ UNCHANGED <<todo, sector, same>>
       \/ /\ rx[1].kind # "major" \/ rx[2].kind # "minor"
          /\ End("failed")
    /\ UNCHANGED <<flash, line, fw, rate, request>>

GetJedecId ==
    /\ pc = "identified"
    /\ Send(<<Opcode("jedec")>>)
    /\ Goto("jedec")
    /\ UNCHANGED <<flash, fw, rate, request>>

\* The identifier is only logged.
JedecId ==
    /\ pc = "jedec" /\ rx # <<>>
    /\ rx' = Tail(rx)
    /\ pc' = "section"
    /\ UNCHANGED <<flash, line, fw, rate, request, todo, sector, same>>

\* program_storage up to the erasure; the exception ends run().
ProgramStorage ==
    /\ pc = "section" /\ todo # {}
    /\ IF TooLarge(Section, Length) THEN End("failed") ELSE Goto("erase")
    /\ UNCHANGED <<flash, line, fw, rate, request>>

Done ==
    /\ pc = "section" /\ todo = {}
    /\ Send(IF request.jump THEN <<Opcode("jump_bootrom")>> ELSE <<>>)
    /\ End("ok")
    /\ UNCHANGED <<flash, fw, rate, request>>

Erase ==
    /\ ~Emmc
    /\ pc = "erase" /\ sector < SectorCount(Length)
    /\ Send(<<Command("erase", Address + sector, 1, "erased")>>)
    /\ Goto("erase_ack")
    /\ UNCHANGED <<flash, fw, rate, request>>

EraseAck ==
    /\ pc = "erase_ack" /\ rx # <<>>
    /\ IF Head(rx).kind = "erase"
       THEN /\ pc' = "erase" /\ rx' = Tail(rx) /\ sector' = sector + 1
            /\ UNCHANGED <<todo, same>>
       ELSE End("failed")
    /\ UNCHANGED <<flash, line, fw, rate, request>>

\* The flash is written in one piece when it is erased, the eMMC in blocks.
ReadyToWrite ==
    pc = "erase" /\ IF Emmc THEN sector < SectorCount(Length) ELSE sector = SectorCount(Length)
WriteAddress == IF Emmc THEN Address + sector ELSE Address

Write ==
    /\ ReadyToWrite
    /\ Send(<<Command("write", WriteAddress, WriteCount, File)>>)
    /\ Goto("write_ack")
    /\ UNCHANGED <<flash, fw, rate, request>>

\* An empty file is no block for an eMMC.  The read of no bytes that may follow is not
\* modelled: it changes nothing, and nobody waits for an answer.
NothingToWrite ==
    /\ Emmc
    /\ pc = "erase" /\ Length = 0
    /\ NextSection
    /\ UNCHANGED <<flash, line, rx, fw, rate, request, sector, same>>

WriteAck ==
    /\ pc = "write_ack" /\ rx # <<>>
    /\ IF Head(rx).kind = "write"
       THEN /\ IF Emmc /\ sector + WriteCount < SectorCount(Length)
               THEN pc' = "erase" /\ sector' = sector + WriteCount /\ UNCHANGED todo
               ELSE /\ IF request.verify THEN pc' = "read" /\ UNCHANGED todo ELSE NextSection
                    /\ sector' = 0
            /\ rx' = Tail(rx) /\ UNCHANGED same
       ELSE End("failed")
    /\ UNCHANGED <<flash, line, fw, rate, request>>

Read ==
    /\ pc = "read" /\ sector < SectorCount(Length)
    /\ Send(<<Command("read", Address + sector, ReadCount, "none")>>)
    /\ Goto("read_data")
    /\ UNCHANGED <<flash, fw, rate, request>>

ReadData ==
    /\ pc = "read_data" /\ rx # <<>>
    /\ rx' = Tail(rx)
    /\ same' = (same /\ Head(rx) = Data(File))
    /\ sector' = sector + ReadCount
    /\ pc' = "read"
    /\ UNCHANGED <<flash, line, fw, rate, request, todo>>

Validate ==
    /\ pc = "read" /\ sector = SectorCount(Length)
    /\ IF same THEN NextSection /\ sector' = 0 /\ UNCHANGED <<rx, same>> ELSE End("failed")
    /\ UNCHANGED <<flash, line, fw, rate, request>>

\* serial.read returns nothing, or less than asked for, after two seconds.
Timeout ==
    /\ pc \in Waiting /\ Settled
    /\ Len(rx) < (IF pc = "version" THEN 2 ELSE 1)
    /\ End("failed")
    /\ UNCHANGED <<flash, line, fw, rate, request>>

\* Ctrl-C, or a signal.
Kill ==
    /\ Session(pc)
    /\ End("failed")
    /\ UNCHANGED <<flash, line, fw, rate, request>>

\* ... between the opcode, the address, the length and the data of a command, or
\* within the data, of which some may be in the flash already.
KillMidCommand ==
    /\ pc \in {"erase", "read"}
    /\ pc = "read" => sector < SectorCount(Length)
    /\ Emmc /\ Length = 0 => request.verify
    /\ Send(<<Opcode("partial")>>)
    /\ \/ UNCHANGED flash
       \/ /\ ReadyToWrite
          /\ fw = "idle" /\ rate = request.rate
          /\ flash' = Program(WriteAddress, WriteCount, "torn")
    /\ End("failed")
    /\ UNCHANGED <<fw, rate, request>>
-------------------------------------------------------------------------------
(* The board: external, as the host uses it.                                   *)

FwAnswers ==
    /\ fw = "idle" /\ Heard
    /\ LET c == Head(line)
       IN \/ /\ c.op \in {"choose_storage", "work_with_flash", "work_with_emmc"}
             /\ UNCHANGED rx
          \/ /\ c.op = "fw_version"
             /\ Reply(<<Answer("major"), Answer("minor")>>)
          \/ c.op = "jedec" /\ Reply(<<Answer("jedec")>>)
          \/ /\ c.op = "read"
             /\ Reply(<<Data(Found(Extent(c.first, c.count) \cap Sectors))>>)
    /\ line' = Tail(line)
    /\ UNCHANGED <<flash, fw, rate, host>>

\* The rate stays until the firmware is loaded again.
FwSetsRate ==
    /\ fw = "idle" /\ Heard
    /\ Head(line).op = "set_baudrate"
    /\ rate' = "fast"
    /\ line' = Tail(line)
    /\ UNCHANGED <<flash, rx, fw, host>>

FwMisses ==
    /\ fw = "idle" /\ line # <<>> /\ ~Heard
    /\ line' = Tail(line)
    /\ UNCHANGED <<flash, rx, fw, rate, host>>

\* Erase and write take time; a reset in between leaves the sectors torn.
FwStarts ==
    /\ fw = "idle" /\ Heard
    /\ Head(line).op \in {"erase", "write"}
    /\ fw' = "busy"
    /\ UNCHANGED <<flash, line, rx, rate, host>>

\* Only erased sectors of a flash can be written.  A write may fail and be acknowledged all the
\* same; an erasure that does so is a failure of the write that follows.
FwFinishes ==
    /\ fw = "busy"
    /\ LET c == Head(line)
           blank == Emmc \/ \A s \in Extent(c.first, c.count) : flash[s] = "erased"
       IN \/ /\ c.op = "erase" \/ blank
             /\ flash' = Program(c.first, c.count, c.data)
             /\ Reply(<<Answer(c.op)>>)
          \/ /\ flash' = Program(c.first, c.count, "torn")
             /\ \/ c.op = "write" /\ Reply(<<Answer("write")>>)
                \/ Reply(<<Answer("error")>>)
    /\ line' = Tail(line)
    /\ fw' = "idle"
    /\ UNCHANGED <<rate, host>>

\* The beginning of a command swallows the next one and still waits for more, or
\* is complete: an erase or a write of any sector, or a read.
FwCompletesPartial ==
    /\ fw = "idle" /\ Len(line) >= 2 /\ Heard
    /\ Head(line).op = "partial"
    /\ \/ line' = <<Head(line)>> \o Tail(Tail(line)) /\ UNCHANGED <<flash, rx>>
       \/ /\ line' = Tail(Tail(line))
          /\ \E s \in Strays : flash' = Program(s, 1, "torn")
          /\ \E kind \in {"erase", "write"} : Reply(<<Answer(kind)>>)
       \/ /\ line' = Tail(Tail(line))
          /\ Reply(<<Data("old")>>)
          /\ UNCHANGED flash
    /\ UNCHANGED <<fw, rate, host>>

\* Reset, or power off; the firmware is not in the flash and has to be loaded.
BoardResets ==
    /\ fw # "absent"
    /\ flash' = IF fw = "busy" THEN Program(Head(line).first, Head(line).count, "torn")
                ELSE flash
    /\ fw' = "absent" /\ rate' = "slow"
    /\ line' = <<>>
    /\ UNCHANGED <<rx, host>>

\* jump_bootrom: the boot ROM runs instead of the firmware.
FwJumps ==
    /\ fw = "idle" /\ Heard
    /\ Head(line).op = "jump_bootrom"
    /\ fw' = "absent" /\ rate' = "slow"
    /\ line' = <<>>
    /\ UNCHANGED <<flash, rx, host>>

\* uart_boot_fw_loader, which needs the serial device for itself.
FwIsLoaded ==
    /\ fw = "absent" /\ pc \in Ended
    /\ fw' = "idle"
    /\ UNCHANGED <<flash, line, rx, rate, host>>
-------------------------------------------------------------------------------
HostStep ==
    \/ GetFwVersion \/ VerifyFwVersion \/ GetJedecId \/ JedecId
    \/ ProgramStorage \/ Done \/ Erase \/ EraseAck \/ Write \/ NothingToWrite \/ WriteAck
    \/ Read \/ ReadData \/ Validate \/ Timeout

FwPrompt == FwAnswers \/ FwSetsRate \/ FwMisses \/ FwStarts \/ FwCompletesPartial \/ FwJumps

Next ==
    \/ OpenInterface \/ HostStep \/ Kill \/ KillMidCommand
    \/ FwPrompt \/ FwFinishes \/ BoardResets \/ FwIsLoaded

Spec == Init /\ [][Next]_vars

\* The host runs, its reads time out, and the firmware handles prompt commands in
\* time; an erase or a write may take for ever, and the board may be off.
Fairness == WF_vars(HostStep) /\ WF_vars(FwPrompt)

FairSpec == Spec /\ Fairness
-------------------------------------------------------------------------------
InOneSection(c) ==
    \E section \in Sections, bImage \in BOOLEAN :
        Extent(c.first, c.count) \subseteq Reserved(section, bImage)

Commands ==
    {c \in [op : {"choose_storage", "work_with_flash", "work_with_emmc", "set_baudrate",
                  "fw_version", "jedec", "partial", "erase", "write", "read", "jump_bootrom"},
            first : Nat, count : Nat, data : Options \cup {"none", "erased"},
            rate : {"slow", "fast"}] :
        c.op \in {"erase", "write"} => c.data # "none" /\ InOneSection(c)}

Answers ==
    [kind : {"major", "minor", "jedec", "erase", "write", "error", "data"},
     data : Contents \cup {"none", "mixed"}]

\* Types; an erase or a write, also one that a session leaves behind, stays inside one
\* section (erase and write of the programmers), and a busy firmware has its command.
FlashTypeOK ==
    /\ flash \in [Sectors -> Contents]
    /\ line \in Seq(Commands)
    /\ rx \in Seq(Answers)
    /\ fw \in {"absent", "idle", "busy"} /\ rate \in {"slow", "fast"}
    /\ fw = "busy" => line # <<>> /\ Head(line).op \in {"erase", "write"}
    /\ pc \in Ended \cup Waiting \cup {"opened", "identified", "section", "erase", "read"}
    /\ request \in Requests
    /\ todo \subseteq DOMAIN RunOrder /\ sector \in Nat /\ same \in BOOLEAN

\* What a session that verifies has programmed stays as programmed while it goes on,
\* and when it reports success: no later erasure, no earlier command still on the
\* line and no failed write spoils it (program_storage, _program_file).
DoneSectionsWhole ==
    request.verify /\ (Session(pc) \/ pc = "ok") =>
        \A i \in Requested \ todo :
            LET option == Option(RunOrder[i]) IN
            \A s \in Sectors \cap Region(RunOrder[i], request.bImage, request.length[option]) :
                flash[s] = option

\* Once a session has identified the board, the flash changes only inside the section
\* it programs, whatever earlier sessions have left on the line (identify, the size
\* check of program_storage, the loops of erase).
OnlyItsSection ==
    [][Identified =>
         \A s \in Sectors : flash'[s] # flash[s] =>
            todo # {} /\ s \in Reserved(Section, request.bImage)]_vars

\* A session that has identified the board talks to it at the rate it listens to, though
\* the board keeps the rate of an earlier session, which nobody asks it for
\* (set_baudrate, identify): a session at another rate fails before it programs
\* anything.
RateAgreed ==
    Identified /\ fw # "absent" => rate = request.rate

Accepts == pc \in {"erase_ack", "write_ack", "read_data"} /\ pc' # pc /\ Session(pc')

\* An acknowledgement or data that the host accepts answers its own last command:
\* nothing is left of it on the line, and no answer is left over (erase, write, read).
AnswerIsOwn == [][Accepts => fw # "busy" /\ Len(line) = 0 /\ Len(rx') = 0]_vars

\* What may still reach the flash of what an earlier session has sent.
Reaches(commands) ==
    \E i \in DOMAIN commands : commands[i].op \in {"erase", "write", "partial"}
Pending == ~Identified /\ Reaches(line)

\* A session is one of FlashStore: once it is past the identification nothing else
\* reaches the flash, a section it verifies is whole when it leaves it, and what it has
\* programmed stays until another session does (identify, program_storage, _program_file).
Status ==
    CASE pc \in {"opened", "version"} -> "opening"
      [] Identified -> "programming"
      [] OTHER -> pc
FS == INSTANCE FlashStore WITH store <- flash, status <- Status, pending <- Pending
ImplementsFlashStore == FS!Spec

\* A session ends, whatever becomes of the board (_serial_read raises on timeout).
Terminates == Session(pc) ~> pc \in Ended
===============================================================================

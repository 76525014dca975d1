---------------------------- MODULE UartBootLoader -----------------------------
(* uart_boot_fw_loader: UartBootFWLoader.load_file, run and main, the serial   *)
(* line, and the boot ROM of the board, as the loader uses it.  On a secure    *)
(* chip the ROM sends a magic after reset and acknowledges each header and     *)
(* each block with the checksum of what it has received; on other chips the    *)
(* host hears nothing and sleeps instead.                                      *)
EXTENDS RecoveryImage

CONSTANTS
    Files,      \* files to load: RecoveryImage's fields, and bytes per block
    SecureChip, \* the chip is in a secure life cycle
    Noise,      \* bound: bytes that noise may put in the place of others
    MaxAnswers  \* bound: answers that wait for the host when the board is reset

Byte == 0..255

ASSUME LoaderAssumption ==
    /\ SecureChip \in BOOLEAN /\ MaxAnswers \in Nat
    /\ Noise \subseteq Byte
    /\ Files # {}
    /\ \A file \in Files :
          HasFields(file) /\ \A block \in Blocks : file.bytes[block] \in Seq(Byte)

VARIABLES
    board,      \* "off", "rom" (waits for a header), "data" (for a block),
                \* "lost" (in no state the host can use), "recovery", or a Systems
    ram,        \* per block: the bytes the ROM has received; <<>> before, and when
                \* the ROM is left, or lost
    line,       \* frames to the board
    rx,         \* answers the host may read
    at,         \* where the loader is
    request,    \* the file, and the option --is-secure-chip
    block       \* position in BlockOrder

loader == <<at, request, block>>
loaderVars == <<board, ram, line, rx, loader>>

\* calc_checksum; both sums are kept modulo 255.
Add(sums, byte) ==
    LET sum1 == (sums[1] + byte) % 255 IN <<sum1, (sum1 + sums[2]) % 255>>

Checksum(data) ==
    LET sums[n \in 0 .. Len(data)] == IF n = 0 THEN <<0, 0>> ELSE Add(sums[n - 1], data[n])
    IN  sums[Len(data)]

Ack(sum) == [first |-> 85, sum |-> sum]
Magic == [first |-> 0, sum |-> <<0, 0>>]
FwVersion == [first |-> 1, sum |-> <<0, 4>>]

\* The checksum of a header stands for its eight bytes: address and length.
HeaderSum(name) == <<name>>

Frame(kind, name, data) == [kind |-> kind, name |-> name, data |-> data]
EndTransaction == Frame("end", "code", <<>>)
Identify == Frame("identify", "code", <<>>)

\* What runs after a boot from flash: see BoardUpdate.
Systems == {"system", "spl", "uboot", "image"}

Nothing == [b \in Blocks |-> <<>>]
Name == BlockOrder[block]
Bytes == request.file.bytes[Name]

LoaderEnded == {"loaded", "error"}
Reading == {"magic", "header_ack", "data_ack", "version"}
Uploading == {"magic", "header", "header_ack", "data", "data_ack", "end"}
LoaderRuns == at \notin LoaderEnded

\* The port is open and the host reads from it before it closes it: what is sent to
\* it at any other time is dropped when the port is opened, or never read.
Listening == at \in Reading \/ (request.secure /\ at \in Uploading)

\* Noise replaces one byte of a block, spoils a header, or loses a frame.
Noisy(frame) ==
    {[frame EXCEPT !.data[i] = b] : i \in DOMAIN frame.data, b \in Noise} \cup
    (IF frame.kind = "header" THEN {[frame EXCEPT !.name = "spoilt"]} ELSE {})

Send(frame) ==
    \E f \in {frame} \cup Noisy(frame) : line' \in {line, line \o <<f>>}

\* Assumption on time: before a host that only sleeps goes on, or another run begins,
\* the board has taken what was on the line.
Slept == line = <<>>

Goto(label) == at' = label /\ UNCHANGED <<request, block>>

NoRequest == [file |-> CHOOSE file \in Files : TRUE, secure |-> FALSE]

\* Faulty variant: the port is not closed, so what has arrived stays.
LeaveOpen(label) == Goto(label) /\ UNCHANGED rx

\* The program is over or its port closed: the answers are gone.
Leave(label) ==
    /\ rx' = <<>>
    /\ IF label \in LoaderEnded THEN at' = label /\ request' = NoRequest /\ block' = 1
                                ELSE Goto(label)

Reply(answer) == rx' = IF Listening THEN rx \o <<answer>> ELSE <<>>
Acknowledge(sum) == IF SecureChip THEN Reply(Ack(sum)) ELSE UNCHANGED rx
-------------------------------------------------------------------------------
LoaderInit ==
    /\ board \in {"off", "rom"}
    /\ ram = Nothing
    /\ line = <<>> /\ rx = <<>>
    /\ at = "error"
    /\ request = NoRequest /\ block = 1
-------------------------------------------------------------------------------
(* Faulty variants; the specification does not use them.                       *)

\* Field sizes are not compared with the length of the file.
LoadFileUnchecked ==
    /\ at = "start"
    /\ Leave(IF request.file.magic THEN "open" ELSE "error")
    /\ UNCHANGED <<board, ram, line>>

\* Any three bytes that begin with UART_ACK are an acknowledgement.
DataAckUnchecked ==
    /\ at = "data_ack" /\ rx # <<>>
    /\ rx' = Tail(rx)
    /\ Head(rx).first = 85
    /\ at' = IF block < Len(BlockOrder) THEN "header" ELSE "end"
    /\ block' = IF block < Len(BlockOrder) THEN block + 1 ELSE block
    /\ UNCHANGED <<board, ram, line, request>>

\* The ports have no timeout.
ReadForever == FALSE /\ UNCHANGED loaderVars
-------------------------------------------------------------------------------
(* The host.                                                                   *)

StartLoader(file, secure) ==
    /\ ~LoaderRuns
    /\ request' = [file |-> file, secure |-> secure]
    /\ at' = "start" /\ block' = 1
    /\ UNCHANGED <<board, ram, line, rx>>

\* A file that is refused ends run() before the port is opened.
LoadFile ==
    /\ at = "start"
    /\ Leave(IF Accepted(request.file) THEN "open" ELSE "error")
    /\ UNCHANGED <<board, ram, line>>

\* serial.Serial drops what has arrived before.
OpenPort ==
    /\ at = "open" /\ Slept
    /\ Leave(IF request.secure THEN "magic" ELSE "header")
    /\ UNCHANGED <<board, ram, line>>

\* Whatever comes, or nothing, is as good as the magic.
ReadMagic ==
    /\ at = "magic" /\ rx # <<>>
    /\ rx' = Tail(rx)
    /\ Goto("header")
    /\ UNCHANGED <<board, ram, line>>

WriteHeader ==
    /\ at = "header" /\ (request.secure \/ Slept)
    /\ Send(Frame("header", Name, <<>>))
    /\ Goto(IF request.secure THEN "header_ack" ELSE "data")
    /\ UNCHANGED <<board, ram, rx>>

\* A wrong acknowledgement raises UploadException, which load_file only prints.
HeaderAck ==
    /\ at = "header_ack" /\ rx # <<>>
    /\ IF Head(rx) = Ack(HeaderSum(Name)) THEN rx' = Tail(rx) /\ Goto("data")
                                          ELSE Leave("uploaded")
    /\ UNCHANGED <<board, ram, line>>

NextBlock ==
    /\ at' = IF block < Len(BlockOrder) THEN "header" ELSE "end"
    /\ block' = IF block < Len(BlockOrder) THEN block + 1 ELSE block
    /\ UNCHANGED request

WriteData ==
    /\ at = "data" /\ (request.secure \/ Slept)
    /\ Send(Frame("data", Name, Bytes))
    /\ IF request.secure THEN Goto("data_ack") ELSE NextBlock
    /\ UNCHANGED <<board, ram, rx>>

DataAck ==
    /\ at = "data_ack" /\ rx # <<>>
    /\ IF Head(rx) = Ack(Checksum(Bytes)) THEN rx' = Tail(rx) /\ NextBlock
                                          ELSE Leave("uploaded")
    /\ UNCHANGED <<board, ram, line>>

WriteEnd ==
    /\ at = "end"
    /\ Send(EndTransaction)
    /\ Leave("uploaded")
    /\ UNCHANGED <<board, ram>>

\* open_interface and identify of the flash programmer, on a port opened anew.
IdentifyFw ==
    /\ at = "uploaded"
    /\ Send(Identify)
    /\ Leave("version")
    /\ UNCHANGED <<board, ram>>

ReadVersion ==
    /\ at = "version" /\ rx # <<>>
    /\ Leave(IF Head(rx) = FwVersion THEN "loaded" ELSE "error")
    /\ UNCHANGED <<board, ram, line>>

\* Nothing, or less than asked for, has arrived in time.
Timeout ==
    /\ at \in Reading /\ rx = <<>>
    /\ Leave(CASE at = "magic" -> "header"
               [] at = "version" -> "error"
               [] OTHER -> "uploaded")
    /\ UNCHANGED <<board, ram, line>>

KillLoader ==
    /\ LoaderRuns
    /\ Leave("error")
    /\ UNCHANGED <<board, ram, line>>
-------------------------------------------------------------------------------
(* The board: external, as the loader uses it.                                 *)

Consume == line # <<>> /\ line' = Tail(line) /\ UNCHANGED loader

RomHeader ==
    /\ board = "rom" /\ Consume
    /\ Head(line).kind = "header" /\ Head(line).name \in Blocks
    /\ board' = "data"
    /\ Acknowledge(HeaderSum(Head(line).name))
    /\ UNCHANGED ram

\* The ROM takes as many bytes as the header has announced.
RomData ==
    /\ board = "data" /\ Consume
    /\ Head(line).kind = "data"
    /\ board' = "rom"
    /\ ram' = [ram EXCEPT ![Head(line).name] = Head(line).data]
    /\ Acknowledge(Checksum(Head(line).data))

\* A complete firmware starts; of a damaged one a chip that is not secure may start
\* what it has got.
RomEnd ==
    /\ board = "rom" /\ Consume
    /\ Head(line).kind = "end"
    /\ \/ /\ \E file \in Files : \A b \in Blocks : ram[b] = file.bytes[b]
          /\ board' = "recovery"
       \/ /\ \A file \in Files : \E b \in Blocks : ram[b] # file.bytes[b]
          /\ board' \in IF SecureChip THEN {"lost"} ELSE {"lost", "recovery"}
    /\ ram' = Nothing
    /\ UNCHANGED rx

\* Frames out of step, after a loss or from another session, or spoilt: the ROM
\* is lost, and answers something else or nothing.
RomLosesStep ==
    /\ Consume
    /\ \/ board = "data" /\ Head(line).kind # "data"
       \/ board = "rom" /\ (Head(line).kind \in {"data", "identify"} \/ Head(line).name = "spoilt")
       \/ board = "lost"
    /\ board' = "lost"
    /\ Reply(Ack(<<"other">>)) \/ UNCHANGED rx
    /\ ram' = Nothing

\* The recovery firmware works at another rate: frames of an upload are garbage to it.
FwAnswers ==
    /\ board = "recovery" /\ Consume
    /\ IF Head(line).kind = "identify"
       THEN Reply(FwVersion) /\ UNCHANGED board
       ELSE board' \in {"recovery", "lost"} /\ UNCHANGED rx
    /\ UNCHANGED ram

BoardIgnores ==
    /\ board \in {"off"} \cup Systems /\ Consume
    /\ UNCHANGED <<board, ram, rx>>

\* Reset or power-up with the boot strap on UART.
ResetToRom ==
    /\ Len(rx) < MaxAnswers
    /\ board' = "rom"
    /\ ram' = Nothing
    /\ line' = <<>>
    /\ IF SecureChip THEN Reply(Magic) ELSE UNCHANGED rx
    /\ UNCHANGED loader

PowerOff ==
    /\ board # "off" /\ board' = "off"
    /\ ram' = Nothing
    /\ line' = <<>>
    /\ UNCHANGED <<rx, loader>>
-------------------------------------------------------------------------------
LoaderStep ==
    \/ LoadFile \/ OpenPort \/ ReadMagic \/ WriteHeader \/ HeaderAck \/ WriteData \/ DataAck
    \/ WriteEnd \/ IdentifyFw \/ ReadVersion \/ Timeout

RomStep == RomHeader \/ RomData \/ RomEnd \/ RomLosesStep \/ FwAnswers \/ BoardIgnores

\* The loader started by hand, as often as one likes.
LoaderNext ==
    \/ \E file \in Files, secure \in BOOLEAN : StartLoader(file, secure)
    \/ LoaderStep \/ KillLoader \/ RomStep \/ ResetToRom \/ PowerOff

LoaderSpec == LoaderInit /\ [][LoaderNext]_loaderVars

\* The host runs and its reads time out; what is sent arrives or is lost.  Nothing
\* is assumed of the answers.
LoaderFairSpec == LoaderSpec /\ WF_loaderVars(LoaderStep) /\ WF_loaderVars(RomStep)
-------------------------------------------------------------------------------
Answers == [first : {0, 1, 85}, sum : {<<0, 0>>, <<0, 4>>, <<"other">>} \cup
                (((0..254) \X (0..254)) \cup {HeaderSum(b) : b \in Blocks})]

\* Types; no answer waits where nobody will read it.
LoaderTypeOK ==
    /\ board \in {"off", "rom", "data", "lost", "recovery"} \cup Systems
    /\ ram \in [Blocks -> Seq(Byte)]
    /\ rx \in Seq(Answers)
    /\ at \in LoaderEnded \cup Reading \cup Uploading \cup {"start", "open", "uploaded"}
    /\ request.file \in Files /\ request.secure \in BOOLEAN
    /\ block \in DOMAIN BlockOrder
    /\ ~Listening => rx = <<>>

\* What the loader starts to send is a complete file whose blocks fit their places
\* in the RAM (validate_bin_file_and_create_bin_files).
SendsOnlyWhole == at \in Uploading => WholeAndFits(request.file)

\* Equal but for bytes 0x00 and 0xFF, which calc_checksum cannot tell apart.
SameModulo255(data, other) ==
    /\ Len(data) = Len(other)
    /\ \A i \in DOMAIN data : data[i] % 255 = other[i] % 255

Awaiting == at = "header" \/ at = "end"

\* While the loader goes on, on a secure chip, every block it has been acknowledged is
\* in the RAM as it is in the file: no noise, no acknowledgement of an earlier frame
\* or session, and no reset of the board goes unnoticed, except for one that has
\* not been heard of yet: its magic has not been read, or the board is off
\* (write_to_uart).
AckedIsStored ==
    /\ SecureChip /\ request.secure
    /\ Awaiting /\ board \in {"rom", "data"} /\ rx = <<>>
    => \A i \in 1 .. (IF at = "end" THEN block ELSE block - 1) :
          SameModulo255(ram[BlockOrder[i]], request.file.bytes[BlockOrder[i]])

\* The loader ends, whatever becomes of the board (UART_TIMEOUT).
LoaderEnds == LoaderRuns ~> ~LoaderRuns
===============================================================================

----------------------------- MODULE UartFlashProofs -----------------------------
(* Proofs about UartFlash, for any requests, any number of sessions and any        *)
(* commands left on the line.  The first part is about the layout of the flash.    *)
EXTENDS UartFlash, SequenceTheorems, WellFoundedInduction, TLAPS

LEMMA SectionNames ==
    Sections = {"scu_fw", "scu_bl", "scu_bl_config_1", "scu_bl_config_2", "uboot_spl",
                "uboot_env", "customer_certificate", "uboot_device_tree",
                "device_config", "uboot_tfa"}
  BY DEF Sections, RunOrder

\* The sections of one image do not overlap, for image a and for image b: no section
\* that run() programs reaches into another one (storage_manager.py, program_storage).
THEOREM SectionsDisjoint ==
    ASSUME NEW bImage \in BOOLEAN, NEW s \in Sections, NEW t \in Sections, s # t
    PROVE  Reserved(s, bImage) \cap Reserved(t, bImage) = {}
<1>1. \/ StorageOffset[s] + SectionSize[s] <= StorageOffset[t]
      \/ StorageOffset[t] + SectionSize[t] <= StorageOffset[s]
  BY SectionNames DEF StorageOffset, SectionSize
<1>2. /\ StorageOffset[s] \in Nat /\ StorageOffset[t] \in Nat
      /\ SectionSize[s] \in Nat /\ SectionSize[t] \in Nat
  BY SectionNames DEF StorageOffset, SectionSize
<1> QED
  BY <1>1, <1>2 DEF Reserved, Extent, Start, STORAGE_A_IMAGE_OFFSET, STORAGE_B_IMAGE_OFFSET

\* A file that passes the size check of program_storage stays inside its section,
\* although the erasure is rounded up to whole sectors.
THEOREM RegionInSection ==
    ASSUME NEW bImage \in BOOLEAN, NEW s \in Sections, NEW length \in Nat, ~TooLarge(s, length)
    PROVE  Region(s, bImage, length) \subseteq Reserved(s, bImage)
<1>1. SectionSize[s] \in Nat /\ StorageOffset[s] \in Nat
  BY SectionNames DEF StorageOffset, SectionSize
<1>2. Start(s, bImage) \in Nat
  BY <1>1 DEF Start, STORAGE_A_IMAGE_OFFSET, STORAGE_B_IMAGE_OFFSET
<1>3. SectorCount(length) \in Nat /\ SectorCount(length) <= SectionSize[s]
  BY <1>1 DEF SectorCount, TooLarge, QSPI_SECTOR_SIZE
<1> QED
  BY <1>1, <1>2, <1>3 DEF Region, Reserved, Extent

\* Programming the shifted sections of image b leaves image a alone, but for U-Boot and
\* TF-A, whose section begins where image b does (STORAGE_B_IMAGE_OFFSET).
THEOREM ImageBKeepsImageA ==
    ASSUME NEW a \in BOOLEAN, ~a, NEW b \in BOOLEAN, b,
           NEW s \in Sections \ {"uboot_tfa"}, NEW t \in Sections,
           StorageOffset[t] >= STORAGE_A_IMAGE_OFFSET
    PROVE  Reserved(s, a) \cap Reserved(t, b) = {}
<1>1. /\ StorageOffset[s] \in Nat /\ SectionSize[s] \in Nat
      /\ StorageOffset[s] + SectionSize[s] <= STORAGE_B_IMAGE_OFFSET
  BY SectionNames DEF StorageOffset, SectionSize, STORAGE_B_IMAGE_OFFSET
<1>2. StorageOffset[t] \in Nat /\ SectionSize[t] \in Nat
  BY SectionNames DEF StorageOffset, SectionSize
<1> QED
  BY <1>1, <1>2 DEF Reserved, Extent, Start, STORAGE_A_IMAGE_OFFSET, STORAGE_B_IMAGE_OFFSET
-------------------------------------------------------------------------------
(* The invariant.  A session first meets whatever earlier ones have left on    *)
(* the line, and after the identification has the board to itself.             *)

\* What a session sends when it opens, and what it may find unexecuted on the line: none
\* of it is answered, but the rest of a command may be, falsely.
Settings == {"choose_storage", "work_with_flash", "work_with_emmc", "set_baudrate"}
Quiet == Settings \cup {"partial"}

\* A board that is off has nothing before it, and a session that has ended leaves the
\* host as it was; one that succeeded has nothing on the line but its last command.
AtRest ==
    /\ fw = "absent" => line = <<>>
    /\ pc \in Ended => rx = <<>> /\ todo = {} /\ sector = 0 /\ same
    /\ pc = "ok" => \A i \in DOMAIN line : line[i].op = "jump_bootrom"

\* A session that cannot take a stale answer for the version any more: an erase or a
\* write of an earlier one is in execution, and its acknowledgement comes first, or
\* something else than the version has come first already.
Spoilt ==
    \/ fw = "busy" /\ rx = <<>>
    \/ rx # <<>> /\ rx[1].kind # "major"

\* Nothing is answered but the session's own question for the version, the last of all.
Unanswered(commands) ==
    \A i \in DOMAIN commands :
        \/ commands[i].op \in Quiet
        \/ /\ pc = "version" /\ i = Len(commands)
           /\ commands[i].op = "fw_version" /\ commands[i].rate = request.rate

\* A session that may succeed: the version is still to come, or has come from a board
\* that heard the question, and so listens at the rate of the session.
Clean ==
    /\ fw # "busy"
    /\ \/ rx = <<>> /\ Unanswered(line)
       \/ /\ pc = "version" /\ line = <<>> /\ Len(rx) = 2
          /\ fw = "idle" => rate = request.rate

Opening ==
    pc \in {"opened", "version"} =>
        todo = Requested /\ sector = 0 /\ same /\ (Spoilt \/ Clean)

\* The command whose answer the host waits for.
Own ==
    CASE pc = "jedec" -> Opcode("jedec")
      [] pc = "erase_ack" -> Command("erase", Address + sector, 1, "erased")
      [] pc = "write_ack" -> Command("write", WriteAddress, WriteCount, File)
      [] pc = "read_data" -> Command("read", Address + sector, ReadCount, "none")

\* Command and answer alternate: the command is on the line, or lost with the board, or
\* answered.
Exchange ==
    Identified =>
        IF pc \in Waiting
        THEN \/ line = <<Own>> /\ rx = <<>>
             \/ line = <<>> /\ rx = <<>>
             \/ /\ line = <<>> /\ Len(rx) = 1
                /\ pc = "read_data" =>
                      rx[1] = Data(Found(Extent(Address + sector, ReadCount) \cap Sectors))
        ELSE line = <<>> /\ rx = <<>>

\* The loops of erase, write and read stay within a section whose file fits.
Placed ==
    Identified =>
    /\ todo \subseteq Requested
    /\ pc \in {"identified", "jedec", "section"} => sector = 0
    /\ pc \in {"erase", "erase_ack", "write_ack", "read", "read_data"} =>
         todo # {} /\ ~TooLarge(Section, Length)
    /\ pc = "erase" => IF Emmc THEN sector < SectorCount(Length) \/ (sector = 0 /\ Length = 0)
                               ELSE sector <= SectorCount(Length)
    /\ pc = "erase_ack" => ~Emmc /\ sector < SectorCount(Length)
    /\ pc = "write_ack" => IF Emmc THEN sector < SectorCount(Length) ELSE sector = SectorCount(Length)

\* So did the files of the sections that are done.
DoneFit ==
    Identified =>
        \A i \in Requested \ todo : ~TooLarge(RunOrder[i], request.length[Option(RunOrder[i])])

\* What has been compared so far is in the flash.
ReadBack ==
    pc \in {"read", "read_data"} /\ same =>
        \A s \in Extent(Address, sector) \cap Sectors : flash[s] = File

FInv ==
    /\ FlashTypeOK /\ AtRest /\ Opening /\ RateAgreed /\ Exchange
    /\ Placed /\ DoneFit /\ ReadBack /\ DoneSectionsWhole

\* The same but for the types, which the lemmas below treat apart.
Shape ==
    /\ AtRest /\ Opening /\ RateAgreed /\ Exchange
    /\ Placed /\ DoneFit /\ ReadBack /\ DoneSectionsWhole
-------------------------------------------------------------------------------
(* What the operators of UartFlash return.                                     *)

Below == {p \in Nat \X Nat : p[1] < p[2]}

LEMMA MinIsMember ==
    ASSUME NEW S \in SUBSET Nat, S # {}
    PROVE  Min(S) \in S /\ \A y \in S : Min(S) <= y
<1>1. IsWellFoundedOn(Below, Nat)
  BY NatLessThanWellFounded DEF OpToRel, Below
<1>2. PICK x \in S : \A y \in S : ~(<<y, x>> \in Below)
  BY <1>1, WFMin
<1>3. \A m, n \in Nat : m < n => <<m, n>> \in Below
  BY DEF Below
<1>4. \A y \in S : ~(y < x)
  BY <1>2, <1>3
<1>5. \A y \in S : x <= y
  BY <1>4
<1> QED
  BY <1>5 DEF Min

\* What the host works on is a section it was asked for.
LEMMA CurrentSection ==
    ASSUME RequestAssumption, request \in Requests, todo \subseteq Requested, todo # {}
    PROVE  /\ Min(todo) \in Requested /\ Min(todo) \in todo
           /\ Section \in Sections /\ File \in DOMAIN request.length /\ File \in Options
           /\ Length \in Nat
           /\ Address \in Nat
           /\ SectorCount(Length) \in Nat /\ (SectorCount(Length) = 0 <=> Length = 0)
<1>1. DOMAIN RunOrder \subseteq Nat
  BY DEF RunOrder
<1>2. Min(todo) \in todo
  BY <1>1, MinIsMember DEF Requested
<1>3. Section \in Sections /\ File \in DOMAIN request.length
  BY <1>2 DEF Section, File, Requested, Sections
<1>4. Length \in Nat
  BY <1>3 DEF Length, RequestAssumption
<1>5. Address \in Nat
  BY <1>3, SectionNames DEF Address, Start, StorageOffset, STORAGE_A_IMAGE_OFFSET,
     STORAGE_B_IMAGE_OFFSET
<1>6. SectorCount(Length) \in Nat /\ (SectorCount(Length) = 0 <=> Length = 0)
  BY <1>4 DEF SectorCount, QSPI_SECTOR_SIZE
<1>7. File \in Options
  BY <1>3 DEF Options, File
<1> QED
  BY <1>2, <1>3, <1>4, <1>5, <1>6, <1>7

\* A command for sectors of the section stays inside the file's sectors.
LEMMA WithinSection ==
    ASSUME RequestAssumption, request \in Requests, todo \subseteq Requested, todo # {},
           ~TooLarge(Section, Length), NEW m \in Nat, NEW n \in Nat, m + n <= SectorCount(Length)
    PROVE  /\ Extent(Address + m, n) \subseteq Region(Section, request.bImage, Length)
           /\ Extent(Address + m, n) \subseteq Reserved(Section, request.bImage)
<1>1. /\ Section \in Sections /\ Length \in Nat /\ Address \in Nat
      /\ SectorCount(Length) \in Nat
  BY CurrentSection
<1>2. request.bImage \in BOOLEAN
  BY DEF RequestAssumption
<1>3. Region(Section, request.bImage, Length) \subseteq Reserved(Section, request.bImage)
  BY <1>1, <1>2, RegionInSection
<1>4. Region(Section, request.bImage, Length) = Address .. (Address + SectorCount(Length) - 1)
  BY DEF Region, Extent, Address
<1>5. Extent(Address + m, n) = (Address + m) .. (Address + m + n - 1)
  BY DEF Extent
<1>6. Extent(Address + m, n) \subseteq Region(Section, request.bImage, Length)
  BY <1>1, <1>4, <1>5
<1> QED
  BY <1>3, <1>6

\* As long as the host keeps to its section, so do the operators that name it.
LEMMA SamePlace ==
    ASSUME UNCHANGED <<request, todo>>
    PROVE  /\ Requested' = Requested /\ Section' = Section /\ File' = File
           /\ Length' = Length /\ Address' = Address /\ Emmc' = Emmc
  BY DEF Requested, Section, File, Length, Address, Emmc

LEMMA One == ASSUME NEW x PROVE Tail(<<x>>) = <<>> /\ Head(<<x>>) = x /\ Len(<<x>>) = 1
  OBVIOUS

LEMMA NotEmpty ==
    ASSUME NEW S, NEW s \in Seq(S)
    PROVE  (Len(s) >= 1 => s # <<>>) /\ (Len(s) = 0 => s = <<>>)
  BY EmptySeq

\* What is sent goes behind what is there.
LEMMA SendAppends ==
    ASSUME line \in Seq(Commands), NEW commands \in Seq(Commands), Send(commands)
    PROVE  /\ line' \in Seq(Commands)
           /\ line # <<>> => line' # <<>> /\ Head(line') = Head(line)
           /\ fw = "absent" => line' = line
           /\ fw # "absent" /\ line = <<>> => line' = commands
           /\ fw # "absent" => line' = line \o commands
  BY ConcatProperties, ConcatEmptySeq DEF Send

LEMMA ReplyAppends ==
    ASSUME rx \in Seq(Answers), NEW answers \in Seq(Answers), Reply(answers)
    PROVE  /\ rx' \in Seq(Answers)
           /\ pc \in Ended => rx' = <<>>
           /\ pc \notin Ended => rx' = rx \o answers
           /\ pc \notin Ended /\ rx = <<>> => rx' = answers
  BY ConcatProperties, ConcatEmptySeq DEF Reply

LEMMA NoneIsNoOption == "none" \notin Options /\ "mixed" \notin Contents
  BY SectionNames DEF Contents, Options, Option

LEMMA CommandType ==
    ASSUME RequestAssumption, request \in Requests, NEW first \in Nat, NEW count \in Nat,
           NEW data \in Options \cup {"none", "erased"},
           NEW op \in {"choose_storage", "work_with_flash", "work_with_emmc", "set_baudrate",
                       "fw_version", "jedec", "partial", "erase", "write", "read", "jump_bootrom"},
           op \in {"erase", "write"} =>
               /\ data # "none"
               /\ \E section \in Sections, bImage \in BOOLEAN :
                     Extent(first, count) \subseteq Reserved(section, bImage)
    PROVE  /\ Command(op, first, count, data) \in Commands
           /\ <<Command(op, first, count, data)>> \in Seq(Commands)
<1>1. request.rate \in {"slow", "fast"}
  BY DEF RequestAssumption
<1>2. op \in {"erase", "write"} => InOneSection(Command(op, first, count, data))
  BY DEF InOneSection, Command
<1>3. Command(op, first, count, data) \in Commands
  BY <1>1, <1>2 DEF Commands, Command
<1> QED
  BY <1>3

LEMMA OpeningType ==
    ASSUME RequestAssumption, request' \in Requests
    PROVE  /\ OpeningCommands \in Seq(Commands)
           /\ \A i \in DOMAIN OpeningCommands : OpeningCommands[i].op \in Settings
           /\ OpeningCommands # <<>>
<1> DEFINE Slow(op) == [Opcode(op) EXCEPT !.rate = "slow"]
<1>1. \A op \in Settings : Slow(op) \in Commands /\ Slow(op).op = op
  BY DEF Settings, Commands, Opcode, Command
<1>2. OpeningCommands = IF ~Emmc THEN <<Slow("choose_storage"), Slow("work_with_flash")>>
                   ELSE <<Slow("choose_storage"), Slow("work_with_emmc")>> \o
                        (IF request'.rate = "fast" THEN <<Slow("set_baudrate")>> ELSE <<>>)
  BY DEF OpeningCommands
<1> HIDE DEF Slow
<1>3. {"choose_storage", "work_with_flash", "work_with_emmc", "set_baudrate"} \subseteq Settings
  BY DEF Settings
<1>4. CASE ~Emmc
  <2>1. OpeningCommands = <<Slow("choose_storage"), Slow("work_with_flash")>>
    BY <1>2, <1>4
  <2> QED
    BY <1>1, <1>3, <2>1
<1>5. CASE Emmc /\ request'.rate = "fast"
  <2> DEFINE first == <<Slow("choose_storage"), Slow("work_with_emmc")>>
             last == <<Slow("set_baudrate")>>
  <2>1. OpeningCommands = first \o last
    BY <1>2, <1>5
  <2>2. /\ first \in Seq(Commands) /\ Len(first) = 2
        /\ \A i \in 1..2 : first[i].op \in Settings
    BY <1>1, <1>3
  <2>3. last \in Seq(Commands) /\ Len(last) = 1 /\ last[1].op \in Settings
    BY <1>1, <1>3
  <2> HIDE DEF first, last
  <2>4. /\ OpeningCommands \in Seq(Commands) /\ Len(OpeningCommands) = 3
        /\ \A i \in 1..3 : OpeningCommands[i] = IF i <= 2 THEN first[i] ELSE last[i - 2]
    BY <2>1, <2>2, <2>3, ConcatProperties
  <2>5. \A i \in 1..3 : OpeningCommands[i].op \in Settings
    BY <2>2, <2>3, <2>4
  <2> HIDE DEF OpeningCommands
  <2>6. DOMAIN OpeningCommands = 1..3
    BY <2>4
  <2>7. OpeningCommands # <<>>
    BY <2>4
  <2>8. \A i \in DOMAIN OpeningCommands : OpeningCommands[i].op \in Settings
    BY <2>5, <2>6, Zenon
  <2>9. OpeningCommands \in Seq(Commands)
    BY <2>4, Zenon
  <2> QED
    BY <2>7, <2>8, <2>9, Zenon
<1>6. CASE Emmc /\ request'.rate # "fast"
  <2>1. OpeningCommands = <<Slow("choose_storage"), Slow("work_with_emmc")>>
    BY <1>2, <1>6
  <2> QED
    BY <1>1, <1>3, <2>1
<1> QED
  BY <1>4, <1>5, <1>6

\* In a session that has identified the board, what the host counts.
LEMMA Counts ==
    ASSUME RequestAssumption, FInv, Identified
    PROVE  /\ todo # {} => /\ Length \in Nat /\ Address \in Nat
                           /\ SectorCount(Length) \in Nat
                           /\ SectorCount(Length) = 0 <=> Length = 0
                           /\ File \in Options /\ Section \in Sections
                           /\ Min(todo) \in todo
           /\ pc \in {"erase", "erase_ack", "write_ack", "read", "read_data"} => todo # {}
           /\ todo \subseteq Requested
  BY CurrentSection DEF FInv, FlashTypeOK, Placed

\* What one write covers.
LEMMA WriteCovers ==
    ASSUME RequestAssumption, FInv, Identified, ReadyToWrite \/ pc = "write_ack"
    PROVE  /\ WriteAddress \in Nat /\ WriteCount \in Nat
           /\ Extent(WriteAddress, WriteCount) \subseteq Region(Section, request.bImage, Length)
           /\ Extent(WriteAddress, WriteCount) \subseteq Reserved(Section, request.bImage)
           /\ Emmc => sector + WriteCount \in Nat /\ sector + WriteCount <= SectorCount(Length)
<1>1. /\ todo # {} /\ Address \in Nat /\ SectorCount(Length) \in Nat /\ sector \in Nat
      /\ todo \subseteq Requested /\ request \in Requests /\ ~TooLarge(Section, Length)
  BY Counts DEF ReadyToWrite, FInv, FlashTypeOK, Placed
<1>2. CASE Emmc
  <2>1. sector < SectorCount(Length)
    BY <1>2 DEF FInv, Placed, ReadyToWrite
  <2>2. /\ WriteAddress = Address + sector
        /\ WriteCount \in Nat /\ sector + WriteCount <= SectorCount(Length)
    BY <1>1, <1>2, <2>1 DEF WriteAddress, WriteCount, AtMost, BLOCK
  <2> QED
    BY <1>1, <2>2, WithinSection
<1>3. CASE ~Emmc
  <2>1. WriteAddress = Address + 0 /\ WriteCount = SectorCount(Length)
    BY <1>1, <1>3 DEF WriteAddress, WriteCount
  <2>2. WriteAddress \in Nat /\ WriteCount \in Nat /\ 0 + WriteCount <= SectorCount(Length)
    BY <1>1, <2>1
  <2> QED
    BY <1>1, <1>3, <2>1, <2>2, WithinSection
<1> QED
  BY <1>2, <1>3

\* What erases and writes, then, are commands.
LEMMA OwnCommands ==
    ASSUME RequestAssumption, FInv, pc = "erase"
    PROVE  /\ sector < SectorCount(Length) =>
                  Command("erase", Address + sector, 1, "erased") \in Commands
           /\ ReadyToWrite => Command("write", WriteAddress, WriteCount, File) \in Commands
<1>1. Identified
  BY DEF Identified, Session
<1>2. /\ todo # {} /\ todo \subseteq Requested /\ ~TooLarge(Section, Length)
      /\ request \in Requests /\ sector \in Nat
  BY <1>1 DEF FInv, Placed, FlashTypeOK
<1>3. /\ Address \in Nat /\ SectorCount(Length) \in Nat /\ File \in Options
      /\ Section \in Sections
  BY <1>2, CurrentSection
<1>4. request.bImage \in BOOLEAN
  BY <1>2 DEF RequestAssumption
<1>5. ASSUME sector < SectorCount(Length)
      PROVE  Command("erase", Address + sector, 1, "erased") \in Commands
  <2>1. Extent(Address + sector, 1) \subseteq Reserved(Section, request.bImage)
    BY <1>2, <1>3, <1>5, WithinSection
  <2>2. Address + sector \in Nat
    BY <1>2, <1>3
  <2> QED
    BY <1>2, <1>3, <1>4, <2>1, <2>2, CommandType
<1>6. ASSUME ReadyToWrite
      PROVE  Command("write", WriteAddress, WriteCount, File) \in Commands
  <2>1. /\ Extent(WriteAddress, WriteCount) \subseteq Reserved(Section, request.bImage)
        /\ WriteAddress \in Nat /\ WriteCount \in Nat
    BY <1>1, <1>6, WriteCovers
  <2> QED
    BY <1>2, <1>3, <1>4, <2>1, NoneIsNoOption, CommandType
<1> QED
  BY <1>5, <1>6

\* Of an empty file there is nothing to be written, or to be read back.
LEMMA EmptyIsWhole ==
    ASSUME RequestAssumption, FInv, NothingToWrite
    PROVE  /\ pc = "erase" /\ sector = 0 /\ sector' = 0
           /\ Identified /\ pc \notin Waiting /\ NextSection
           /\ UNCHANGED <<flash, line, rx, fw, rate, request, same>>
           /\ \A s \in Sectors \cap Region(Section, request.bImage, Length) : flash[s] = File
<1>1. /\ pc = "erase" /\ Emmc /\ Length = 0 /\ NextSection
      /\ UNCHANGED <<flash, line, rx, fw, rate, request, sector, same>>
  BY DEF NothingToWrite
<1>2. Identified /\ pc \notin Waiting
  BY <1>1 DEF Identified, Session, Waiting
<1>3. Address \in Nat /\ SectorCount(Length) = 0
  BY <1>1, <1>2, Counts
<1>4. sector = 0
  BY <1>1, <1>2, <1>3 DEF FInv, Placed, FlashTypeOK
<1>5. Region(Section, request.bImage, Length) = Address .. (Address + 0 - 1)
  BY <1>3 DEF Region, Extent, Address
<1>6. Region(Section, request.bImage, Length) = {}
  BY <1>3, <1>5
<1> QED
  BY <1>1, <1>2, <1>4, <1>6

LEMMA ProgramType ==
    ASSUME flash \in [Sectors -> Contents], NEW first, NEW count, NEW content \in Contents
    PROVE  Program(first, count, content) \in [Sectors -> Contents]
  BY DEF Program

LEMMA HostTypes ==
    ASSUME RequestAssumption, FInv, OpenInterface \/ HostStep \/ Kill \/ KillMidCommand
    PROVE  FlashTypeOK'
<1> DEFINE Host == /\ pc' \in Ended \cup Waiting \cup
                             {"opened", "identified", "section", "erase", "read"}
                   /\ todo' \subseteq DOMAIN RunOrder /\ sector' \in Nat /\ same' \in BOOLEAN
                   /\ request' \in Requests /\ rx' \in Seq(Answers)
<1>0. FlashTypeOK
  BY DEF FInv
<1>1. ASSUME Host, UNCHANGED <<flash, fw, rate>>, NEW commands \in Seq(Commands), Send(commands)
      PROVE  FlashTypeOK'
  BY <1>0, <1>1, SendAppends DEF FlashTypeOK
<1>2. ASSUME Host, UNCHANGED <<flash, line, fw, rate>>
      PROVE  FlashTypeOK'
  BY <1>0, <1>2 DEF FlashTypeOK
<1>3. ASSUME NEW status \in Ended, End(status), request' = request PROVE Host
  BY <1>0, <1>3 DEF End, FlashTypeOK
<1>4. ASSUME NEW label \in Waiting \cup {"section", "erase"}, Goto(label), request' = request
      PROVE  Host
  BY <1>0, <1>4 DEF Goto, FlashTypeOK
<1> HIDE DEF Host
<1>5. CASE OpenInterface
  <2>1. Host /\ UNCHANGED <<flash, fw, rate>> /\ Send(OpeningCommands)
    BY <1>0, <1>5 DEF OpenInterface, Opens, Host, FlashTypeOK, Requested
  <2>2. OpeningCommands \in Seq(Commands)
    BY <2>1, OpeningType DEF Host
  <2> QED
    BY <1>1, <2>1, <2>2
<1>6. CASE GetFwVersion
  <2>1. <<Opcode("fw_version")>> \in Seq(Commands)
    BY <1>0, CommandType DEF Opcode, FlashTypeOK
  <2> QED
    BY <1>1, <1>4, <1>6, <2>1 DEF GetFwVersion, Waiting
<1>7. CASE VerifyFwVersion
  <2>1. CASE rx[1].kind = "major" /\ rx[2].kind = "minor"
    <3>1. SubSeq(rx, 3, Len(rx)) \in Seq(Answers)
      BY <1>0, <1>7, SubSeqProperties DEF FlashTypeOK, VerifyFwVersion
    <3> QED
      BY <1>0, <1>2, <1>7, <2>1, <3>1 DEF VerifyFwVersion, FlashTypeOK, Host
  <2> QED
    BY <1>2, <1>3, <1>7, <2>1 DEF VerifyFwVersion, Ended
<1>8. CASE GetJedecId
  <2>1. <<Opcode("jedec")>> \in Seq(Commands)
    BY <1>0, CommandType DEF Opcode, FlashTypeOK
  <2> QED
    BY <1>1, <1>4, <1>8, <2>1 DEF GetJedecId, Waiting
<1>9. rx # <<>> => Tail(rx) \in Seq(Answers)
  BY <1>0, HeadTailProperties DEF FlashTypeOK
<1>10. CASE JedecId
  BY <1>0, <1>2, <1>9, <1>10 DEF JedecId, Host, FlashTypeOK
<1>11. CASE ProgramStorage
  BY <1>2, <1>3, <1>4, <1>11 DEF ProgramStorage, Ended
<1>12. CASE Done
  <2>1. <<Opcode("jump_bootrom")>> \in Seq(Commands) /\ <<>> \in Seq(Commands)
    BY <1>0, CommandType DEF Opcode, FlashTypeOK
  <2>2. (IF request.jump THEN <<Opcode("jump_bootrom")>> ELSE <<>>) \in Seq(Commands)
    BY <2>1
  <2> QED
    BY <1>1, <1>3, <1>12, <2>2 DEF Done, Ended
<1>13. CASE Erase
  <2>1. Command("erase", Address + sector, 1, "erased") \in Commands
    BY <1>13, OwnCommands DEF Erase
  <2>2. <<Command("erase", Address + sector, 1, "erased")>> \in Seq(Commands)
    BY <2>1
  <2> QED
    BY <1>1, <1>4, <1>13, <2>2 DEF Erase, Waiting
<1>14. CASE EraseAck
  <2>1. CASE Head(rx).kind = "erase"
    <3>1. /\ rx' \in Seq(Answers) /\ same' = same /\ request' = request /\ todo' = todo
          /\ sector' = sector + 1 /\ pc' = "erase"
      BY <1>9, <1>14, <2>1 DEF EraseAck
    <3>2. Host
      BY <1>0, <3>1 DEF Host, FlashTypeOK
    <3> QED
      BY <1>2, <1>14, <3>2 DEF EraseAck
  <2> QED
    BY <1>2, <1>3, <1>14, <2>1 DEF EraseAck, Ended
<1>15. CASE Write
  <2>1. Command("write", WriteAddress, WriteCount, File) \in Commands
    BY <1>15, OwnCommands DEF Write, ReadyToWrite
  <2>2. <<Command("write", WriteAddress, WriteCount, File)>> \in Seq(Commands)
    BY <2>1
  <2> QED
    BY <1>1, <1>4, <1>15, <2>2 DEF Write, Waiting
<1>16. CASE WriteAck
  <2>1. CASE Head(rx).kind = "write"
    <3>1. Emmc => sector + WriteCount \in Nat
      BY <1>16, WriteCovers DEF WriteAck, Identified, Session, Waiting
    <3>2. rx' \in Seq(Answers) /\ same' = same /\ request' = request
      BY <1>9, <1>16, <2>1 DEF WriteAck
    <3>3. sector' \in Nat /\ pc' \in {"erase", "read", "section"} /\ todo' \subseteq todo
      BY <1>16, <2>1, <3>1 DEF WriteAck, NextSection
    <3>4. Host
      BY <1>0, <3>2, <3>3 DEF Host, FlashTypeOK
    <3> QED
      BY <1>2, <1>16, <3>4 DEF WriteAck
  <2> QED
    BY <1>2, <1>3, <1>16, <2>1 DEF WriteAck, Ended
<1>17. CASE Read
  <2>1. /\ Address + sector \in Nat /\ ReadCount \in Nat /\ request \in Requests
    BY <1>0, <1>17, Counts DEF Read, FlashTypeOK, Identified, Session, ReadCount
  <2>2. <<Command("read", Address + sector, ReadCount, "none")>> \in Seq(Commands)
    BY <2>1, CommandType
  <2> QED
    BY <1>1, <1>4, <1>17, <2>2 DEF Read, Waiting
<1>18. CASE ReadData
  <2>1. ReadCount \in Nat
    BY <1>18, Counts DEF ReadData, Identified, Session, ReadCount, Waiting
  <2>2. same' \in BOOLEAN
    BY <1>0, <1>18, Zenon DEF ReadData, FlashTypeOK
  <2>3. sector' \in Nat /\ pc' = "read" /\ todo' = todo /\ request' = request /\ rx' = Tail(rx)
    BY <1>0, <1>18, <2>1 DEF ReadData, FlashTypeOK
  <2>4. Host
    BY <1>0, <1>9, <1>18, <2>2, <2>3 DEF ReadData, Host, FlashTypeOK
  <2> QED
    BY <1>2, <1>18, <2>4 DEF ReadData
<1>19. CASE Validate
  <2>1. CASE same
    BY <1>0, <1>2, <1>19, <2>1 DEF Validate, NextSection, Host, FlashTypeOK
  <2> QED
    BY <1>2, <1>3, <1>19, <2>1 DEF Validate, Ended
<1>20. CASE Timeout
  BY <1>2, <1>3, <1>20 DEF Timeout, Ended
<1>21. CASE Kill
  BY <1>2, <1>3, <1>21 DEF Kill, Ended
<1>22. CASE KillMidCommand
  <2>1. Host
    BY <1>3, <1>22 DEF KillMidCommand, Ended
  <2>2. <<Opcode("partial")>> \in Seq(Commands)
    BY <1>0, CommandType DEF Opcode, FlashTypeOK
  <2>3. flash' \in [Sectors -> Contents]
    BY <1>0, <1>22, ProgramType DEF KillMidCommand, FlashTypeOK, Contents
  <2>4. /\ line' \in Seq(Commands)
        /\ fw = "busy" => line' # <<>> /\ Head(line') = Head(line)
    BY <1>0, <1>22, <2>2, SendAppends DEF KillMidCommand, FlashTypeOK
  <2>5. fw' = fw /\ rate' = rate
    BY <1>22 DEF KillMidCommand
  <2>6. fw' = "busy" => line' # <<>> /\ Head(line').op \in {"erase", "write"}
    BY <1>0, <2>4, <2>5 DEF FlashTypeOK
  <2>7. fw' \in {"absent", "idle", "busy"} /\ rate' \in {"slow", "fast"}
    BY <1>0, <2>5 DEF FlashTypeOK
  <2> QED
    BY <2>1, <2>3, <2>4, <2>6, <2>7 DEF FlashTypeOK, Host
<1>23. CASE NothingToWrite
  <2>1. Host
    BY <1>0, <1>23, EmptyIsWhole DEF NextSection, Host, FlashTypeOK
  <2> QED
    BY <1>2, <1>23, <2>1, EmptyIsWhole
<1> QED
  BY <1>5, <1>6, <1>7, <1>8, <1>10, <1>11, <1>12, <1>13, <1>14, <1>15, <1>16, <1>17, <1>18,
     <1>19, <1>20, <1>21, <1>22, <1>23 DEF HostStep

\* What a read answers, and that it cannot take other contents for the file.
LEMMA FoundIs ==
    ASSUME NEW sectors
    PROVE  /\ Found(sectors) \in Contents \cup {"mixed"}
           /\ \A c \in Options : Found(sectors) = c => \A s \in sectors : flash[s] = c
<1>1. "mixed" \notin Contents /\ Options \subseteq Contents
  BY NoneIsNoOption DEF Contents
<1>2. CASE \E c \in Contents : \A s \in sectors : flash[s] = c
  <2>1. Found(sectors) \in Contents /\ \A s \in sectors : flash[s] = Found(sectors)
    BY <1>2 DEF Found
  <2> QED
    BY <2>1
<1>3. CASE ~ \E c \in Contents : \A s \in sectors : flash[s] = c
  BY <1>1, <1>3 DEF Found
<1> QED
  BY <1>2, <1>3

LEMMA AnswerTypes ==
    /\ \A kind \in {"major", "minor", "jedec", "erase", "write", "error", "data"} :
          Answer(kind) \in Answers /\ <<Answer(kind)>> \in Seq(Answers)
    /\ \A content \in Contents \cup {"none", "mixed"} :
          Data(content) \in Answers /\ <<Data(content)>> \in Seq(Answers)
    /\ <<Answer("major"), Answer("minor")>> \in Seq(Answers)
<1>1. /\ \A kind \in {"major", "minor", "jedec", "erase", "write", "error", "data"} :
           Answer(kind) \in Answers
      /\ \A content \in Contents \cup {"none", "mixed"} : Data(content) \in Answers
  BY DEF Answers, Answer, Data
<1> QED
  BY <1>1

Board == FwPrompt \/ FwFinishes \/ BoardResets \/ FwIsLoaded

LEMMA BoardTypes ==
    ASSUME RequestAssumption, FInv, Board
    PROVE  FlashTypeOK'
<1>0. FlashTypeOK
  BY DEF FInv
<1>1. UNCHANGED host
  BY Zenon DEF Board, FwPrompt, FwAnswers, FwSetsRate, FwMisses, FwStarts, FwCompletesPartial,
     FwJumps, FwFinishes, BoardResets, FwIsLoaded
<1>2. ASSUME flash' \in [Sectors -> Contents], line' \in Seq(Commands), rx' \in Seq(Answers),
             fw' \in {"absent", "idle", "busy"}, rate' \in {"slow", "fast"},
             fw' = "busy" => line' # <<>> /\ Head(line').op \in {"erase", "write"}
      PROVE  FlashTypeOK'
  BY <1>0, <1>1, <1>2 DEF FlashTypeOK, host
<1>3. line # <<>> => Tail(line) \in Seq(Commands)
  BY <1>0, HeadTailProperties DEF FlashTypeOK
<1>13. /\ rx' = rx => rx' \in Seq(Answers)
       /\ \A answers \in Seq(Answers) : Reply(answers) => rx' \in Seq(Answers)
  BY <1>0, ReplyAppends DEF FlashTypeOK
<1>4. CASE FwAnswers
  <2>1. line' = Tail(line) /\ line # <<>> /\ UNCHANGED <<flash, fw, rate>> /\ fw = "idle"
    BY <1>4 DEF FwAnswers, Heard
  <2>2. \/ rx' = rx
        \/ Reply(<<Answer("major"), Answer("minor")>>)
        \/ Reply(<<Answer("jedec")>>)
        \/ Reply(<<Data(Found(Extent(Head(line).first, Head(line).count) \cap Sectors))>>)
    BY <1>4 DEF FwAnswers
  <2>3. Found(Extent(Head(line).first, Head(line).count) \cap Sectors) \in Contents \cup {"mixed"}
    BY FoundIs
  <2>4. rx' \in Seq(Answers)
    BY <1>13, <2>2, <2>3, AnswerTypes
  <2> QED
    BY <1>0, <1>2, <1>3, <2>1, <2>4 DEF FlashTypeOK
<1>5. CASE FwSetsRate
  BY <1>0, <1>2, <1>3, <1>5 DEF FwSetsRate, FlashTypeOK, Heard
<1>6. CASE FwMisses
  BY <1>0, <1>2, <1>3, <1>6 DEF FwMisses, FlashTypeOK
<1>7. CASE FwStarts
  BY <1>0, <1>2, <1>7 DEF FwStarts, FlashTypeOK, Heard
<1>8. CASE FwFinishes
  <2>1. /\ line' = Tail(line) /\ line # <<>> /\ fw' = "idle" /\ rate' = rate
        /\ Head(line) \in Commands /\ Head(line).op \in {"erase", "write"}
    BY <1>0, <1>8, HeadTailProperties DEF FwFinishes, FlashTypeOK
  <2>2. PICK answers \in {"erase", "write", "error"} : Reply(<<Answer(answers)>>)
    BY <1>8, <2>1 DEF FwFinishes
  <2>3. rx' \in Seq(Answers)
    BY <1>13, <2>2, AnswerTypes
  <2>4. Head(line).data \in Contents
    BY <2>1 DEF Commands, Contents
  <2>5. \/ flash' = Program(Head(line).first, Head(line).count, Head(line).data)
        \/ flash' = Program(Head(line).first, Head(line).count, "torn")
    BY <1>8 DEF FwFinishes
  <2>6. flash' \in [Sectors -> Contents]
    <3>1. "torn" \in Contents /\ flash \in [Sectors -> Contents]
      BY <1>0 DEF FlashTypeOK, Contents
    <3> QED
      BY <2>4, <2>5, <3>1, ProgramType
  <2> QED
    BY <1>0, <1>2, <1>3, <2>1, <2>3, <2>6 DEF FlashTypeOK
<1>9. CASE FwCompletesPartial
  <2>0. line \in Seq(Commands) /\ Len(line) >= 2 /\ line # <<>>
    BY <1>0, <1>9 DEF FwCompletesPartial, FlashTypeOK
  <2>1. Tail(line) \in Seq(Commands) /\ Len(Tail(line)) >= 1 /\ Head(line) \in Commands
    BY <2>0, HeadTailProperties
  <2>9. Tail(line) # <<>>
    BY <2>1, NotEmpty
  <2>2. Tail(Tail(line)) \in Seq(Commands) /\ <<Head(line)>> \in Seq(Commands)
    BY <2>1, <2>9, HeadTailProperties
  <2>8. <<Head(line)>> \o Tail(Tail(line)) \in Seq(Commands)
    BY <2>2, ConcatProperties
  <2>3. line' \in Seq(Commands)
    BY <1>9, <2>2, <2>8 DEF FwCompletesPartial
  <2>4. \/ rx' = rx
        \/ \E kind \in {"erase", "write"} : Reply(<<Answer(kind)>>)
        \/ Reply(<<Data("old")>>)
    BY <1>9 DEF FwCompletesPartial
  <2>5. "old" \in Contents
    BY DEF Contents
  <2>6. rx' \in Seq(Answers)
    BY <1>0, <2>4, <2>5, ReplyAppends, AnswerTypes DEF FlashTypeOK
  <2>7. flash' \in [Sectors -> Contents]
    BY <1>0, <1>9, ProgramType DEF FwCompletesPartial, FlashTypeOK, Contents
  <2> QED
    BY <1>0, <1>2, <1>9, <2>3, <2>6, <2>7 DEF FlashTypeOK, FwCompletesPartial
<1>10. CASE BoardResets
  <2>1. flash' \in [Sectors -> Contents]
    BY <1>0, <1>10, ProgramType DEF BoardResets, FlashTypeOK, Contents
  <2> QED
    BY <1>0, <1>2, <1>10, <2>1 DEF BoardResets, FlashTypeOK
<1>11. CASE FwJumps
  BY <1>0, <1>2, <1>11 DEF FwJumps, FlashTypeOK
<1>12. CASE FwIsLoaded
  BY <1>0, <1>2, <1>12 DEF FwIsLoaded, FlashTypeOK
<1> QED
  BY <1>4, <1>5, <1>6, <1>7, <1>8, <1>9, <1>10, <1>11, <1>12 DEF Board, FwPrompt
-------------------------------------------------------------------------------
(* The steps of the host.                                                      *)

\* A session that fails leaves nothing behind but what is on the line and in the flash.
LEMMA FailedShape ==
    ASSUME End("failed"), fw' = "absent" => line' = <<>>
    PROVE  Shape'
<1>1. pc' = "failed" /\ rx' = <<>> /\ todo' = {} /\ sector' = 0 /\ same'
  BY DEF End
<1> QED
  BY <1>1 DEF Shape, AtRest, Opening, RateAgreed, Exchange, Placed, DoneFit, ReadBack,
     DoneSectionsWhole, Identified, Session, Ended, Waiting

LEMMA OpenShape ==
    ASSUME RequestAssumption, FInv, OpenInterface
    PROVE  Shape'
<1>1. FlashTypeOK /\ AtRest
  BY DEF FInv
<1>2. /\ pc' = "opened" /\ todo' = Requested' /\ UNCHANGED <<flash, rx, fw, rate, sector, same>>
      /\ pc \in Ended /\ Settled /\ request' \in Requests
  BY DEF OpenInterface, Opens
<1>3. rx' = <<>> /\ sector' = 0 /\ same'
  BY <1>1, <1>2 DEF AtRest
<1>4. fw' = "absent" => line' = <<>>
  BY <1>1, <1>2 DEF AtRest, OpenInterface, Send
<1>5. Spoilt' \/ Clean'
  <2>1. CASE fw = "busy"
    BY <1>2, <1>3, <2>1 DEF Spoilt
  <2>2. CASE fw = "absent"
    BY <1>2, <1>3, <1>4, <2>2 DEF Clean, Unanswered
  <2>3. CASE fw = "idle"
    <3>1. line' = line \o OpeningCommands
      BY <2>3 DEF OpenInterface, Send
    <3>2. \A i \in DOMAIN line : line[i].op \in Quiet
      BY <1>1, <1>2, <2>3 DEF Settled, Quiet, Settings, FlashTypeOK
    <3>3. /\ line \in Seq(Commands) /\ OpeningCommands \in Seq(Commands)
          /\ \A i \in DOMAIN OpeningCommands : OpeningCommands[i].op \in Quiet
      BY <1>1, <1>2, OpeningType DEF FlashTypeOK, Quiet
    <3>4. \A i \in DOMAIN line' : line'[i].op \in Quiet
      BY <3>1, <3>2, <3>3, ConcatProperties
    <3> QED
      BY <1>2, <1>3, <2>3, <3>4 DEF Clean, Unanswered
  <2> QED
    BY <1>1, <2>1, <2>2, <2>3 DEF FlashTypeOK
<1>6. AtRest' /\ Opening'
  BY <1>2, <1>3, <1>4, <1>5 DEF AtRest, Opening, Ended
<1>7. DoneSectionsWhole'
  BY <1>2 DEF DoneSectionsWhole
<1> QED
  BY <1>2, <1>6, <1>7 DEF Shape, RateAgreed, Exchange, Placed, DoneFit, ReadBack, Identified

LEMMA VersionShape ==
    ASSUME RequestAssumption, FInv, GetFwVersion
    PROVE  Shape'
<1>1. FlashTypeOK /\ AtRest /\ Opening
  BY DEF FInv
<1>2. /\ pc = "opened" /\ pc' = "version"
      /\ UNCHANGED <<flash, fw, rate, request, rx, todo, sector, same>>
      /\ Send(<<Opcode("fw_version")>>)
  BY DEF GetFwVersion, Goto
<1>3. todo = Requested /\ sector = 0 /\ same /\ (Spoilt \/ Clean)
  BY <1>1, <1>2 DEF Opening
<1>4. fw' = "absent" => line' = <<>>
  BY <1>1, <1>2 DEF AtRest, Send
<1>5. Spoilt' \/ Clean'
  <2>1. CASE Spoilt
    BY <1>2, <2>1 DEF Spoilt
  <2>2. CASE Clean /\ fw = "absent"
    BY <1>2, <1>4, <2>2 DEF Clean, Unanswered
  <2>3. CASE Clean /\ fw # "absent"
    <3>1. line' = line \o <<Opcode("fw_version")>>
      BY <1>2, <2>3 DEF Send
    <3>2. line \in Seq(Commands) /\ <<Opcode("fw_version")>> \in Seq(Commands)
      BY <1>1, CommandType DEF FlashTypeOK, Opcode
    <3>3. rx = <<>> /\ \A i \in 1..Len(line) : line[i].op \in Quiet
      BY <1>2, <2>3, <3>2 DEF Clean, Unanswered
    <3>4. /\ Len(line') = Len(line) + 1 /\ DOMAIN line' = 1..(Len(line) + 1)
          /\ \A i \in 1..(Len(line) + 1) :
                line'[i] = IF i <= Len(line) THEN line[i] ELSE Opcode("fw_version")
      BY <3>1, <3>2, ConcatProperties, LenProperties
    <3>5. Opcode("fw_version").op = "fw_version" /\ Opcode("fw_version").rate = request'.rate
      BY <1>2 DEF Opcode, Command
    <3>6. \A i \in DOMAIN line' :
             \/ line'[i].op \in Quiet
             \/ /\ i = Len(line') /\ line'[i].op = "fw_version"
                /\ line'[i].rate = request'.rate
      BY <3>2, <3>3, <3>4, <3>5
    <3> QED
      BY <1>2, <2>3, <3>3, <3>6 DEF Clean, Unanswered
  <2> QED
    BY <1>3, <2>1, <2>2, <2>3
<1>6. AtRest' /\ Opening'
  BY <1>2, <1>3, <1>4, <1>5 DEF AtRest, Opening, Ended, Requested
<1>7. DoneSectionsWhole'
  BY <1>2, <1>3 DEF DoneSectionsWhole, Requested
<1> QED
  BY <1>2, <1>6, <1>7 DEF Shape, RateAgreed, Exchange, Placed, DoneFit, ReadBack, Identified

LEMMA VerifiedShape ==
    ASSUME RequestAssumption, FInv, VerifyFwVersion
    PROVE  Shape'
<1>1. FlashTypeOK /\ AtRest /\ Opening
  BY DEF FInv
<1>2. CASE rx[1].kind = "major" /\ rx[2].kind = "minor"
  <2>1. /\ pc = "version" /\ Len(rx) >= 2 /\ pc' \in {"section", "identified"}
        /\ UNCHANGED <<flash, line, fw, rate, request, todo, sector, same>>
        /\ rx' = SubSeq(rx, 3, Len(rx))
    BY <1>2 DEF VerifyFwVersion, End, Ended
  <2>2. todo = Requested /\ sector = 0 /\ same /\ (Spoilt \/ Clean)
    BY <1>1, <2>1 DEF Opening
  <2>3. rx # <<>> /\ rx \in Seq(Answers)
    BY <1>1, <2>1 DEF FlashTypeOK
  <2>4. line = <<>> /\ Len(rx) = 2 /\ (fw = "idle" => rate = request.rate) /\ fw # "busy"
    BY <1>2, <2>2, <2>3 DEF Spoilt, Clean
  <2>5. rx' = <<>>
    BY <2>1, <2>3, <2>4
  <2>6. AtRest' /\ Opening' /\ RateAgreed'
    BY <1>1, <2>1, <2>4 DEF AtRest, Opening, RateAgreed, Ended, FlashTypeOK
  <2>7. Exchange' /\ Placed'
    BY <2>1, <2>2, <2>4, <2>5 DEF Exchange, Placed, Waiting, Requested
  <2>8. DoneFit' /\ ReadBack' /\ DoneSectionsWhole'
    BY <2>1, <2>2 DEF DoneFit, ReadBack, DoneSectionsWhole, Requested
  <2> QED
    BY <2>6, <2>7, <2>8 DEF Shape
<1>3. CASE ~(rx[1].kind = "major" /\ rx[2].kind = "minor")
  <2>1. End("failed") /\ fw' = fw /\ line' = line
    BY <1>3 DEF VerifyFwVersion
  <2> QED
    BY <1>1, <2>1, FailedShape DEF AtRest
<1> QED
  BY <1>2, <1>3

\* A session that goes on past the identification keeps what it knows of the board.
LEMMA GoesOn ==
    ASSUME FInv, Identified, Identified', UNCHANGED <<fw, rate, request>>,
           fw = "absent" => line' = <<>>
    PROVE  AtRest' /\ Opening' /\ RateAgreed'
<1>1. AtRest /\ RateAgreed /\ FlashTypeOK
  BY DEF FInv
<1>2. pc' \notin Ended /\ pc' \notin {"opened", "version"}
  BY DEF Identified, Session, Ended, Waiting
<1> QED
  BY <1>1, <1>2 DEF AtRest, Opening, RateAgreed, Identified, Ended

\* Nothing of the flash is disturbed while the host stays in its section.
LEMMA StaysInSection ==
    ASSUME FInv, Identified, Identified', UNCHANGED <<flash, request, todo>>
    PROVE  DoneFit' /\ DoneSectionsWhole'
<1>1. DoneFit /\ DoneSectionsWhole
  BY DEF FInv
<1>2. Requested' = Requested
  BY SamePlace
<1>3. DoneFit'
  BY <1>1, <1>2 DEF DoneFit
<1>4. DoneSectionsWhole'
  BY <1>1, <1>2 DEF DoneSectionsWhole, Identified
<1> QED
  BY <1>3, <1>4

\* A command that is sent is the only one on the line, if the board is there.
LEMMA SendsOwn ==
    ASSUME FInv, Identified, pc \notin Waiting,
           pc' \in {"jedec", "erase_ack", "write_ack", "read_data"}, rx' = rx, Send(<<Own'>>), Own' \in Commands
    PROVE  Exchange' /\ (fw = "absent" => line' = <<>>)
<1>1. line = <<>> /\ rx = <<>>
  BY DEF FInv, Exchange
<1>2. line' = <<>> \/ line' = <<Own'>>
  BY <1>1 DEF Send
<1>3. fw = "absent" => line' = <<>>
  BY <1>1 DEF Send
<1> QED
  BY <1>1, <1>2, <1>3 DEF Exchange, Waiting

LEMMA JedecShape ==
    ASSUME RequestAssumption, FInv, GetJedecId \/ JedecId
    PROVE  Shape'
<1>1. CASE GetJedecId
  <2>1. /\ pc = "identified" /\ pc' = "jedec" /\ Send(<<Opcode("jedec")>>)
        /\ UNCHANGED <<flash, fw, rate, request, rx, todo, sector, same>>
    BY <1>1 DEF GetJedecId, Goto
  <2>2. Identified /\ Identified' /\ pc \notin Waiting
    BY <2>1 DEF Identified, Session, Waiting
  <2>3. Own' = Opcode("jedec")'
    BY <2>1 DEF Own
  <2>4. Own' = Opcode("jedec") /\ Own' \in Commands
    BY <2>1, <2>3, CommandType DEF Opcode, Command, FInv, FlashTypeOK
  <2>5. Exchange' /\ (fw = "absent" => line' = <<>>)
    BY <2>1, <2>2, <2>4, SendsOwn
  <2>6. Placed' /\ ReadBack'
    BY <2>1, <2>2 DEF FInv, Placed, ReadBack, Requested
  <2> QED
    BY <2>1, <2>2, <2>5, <2>6, GoesOn, StaysInSection DEF Shape
<1>2. CASE JedecId
  <2>1. /\ pc = "jedec" /\ pc' = "section" /\ rx # <<>> /\ rx' = Tail(rx)
        /\ UNCHANGED <<flash, line, fw, rate, request, todo, sector, same>>
    BY <1>2 DEF JedecId
  <2>2. Identified /\ Identified' /\ pc \in Waiting
    BY <2>1 DEF Identified, Session, Waiting
  <2>3. line = <<>> /\ Len(rx) = 1 /\ rx \in Seq(Answers)
    BY <2>1, <2>2 DEF FInv, Exchange, FlashTypeOK
  <2>4. rx' = <<>>
    BY <2>1, <2>3
  <2>5. Exchange'
    BY <2>1, <2>3, <2>4 DEF Exchange, Waiting
  <2>6. Placed' /\ ReadBack'
    BY <2>1, <2>2 DEF FInv, Placed, ReadBack, Requested
  <2> QED
    BY <2>1, <2>2, <2>3, <2>5, <2>6, GoesOn, StaysInSection DEF Shape
<1> QED
  BY <1>1, <1>2

LEMMA ProgramStorageShape ==
    ASSUME RequestAssumption, FInv, ProgramStorage
    PROVE  Shape'
<1>1. CASE TooLarge(Section, Length)
  <2>1. End("failed") /\ fw' = fw /\ line' = line
    BY <1>1 DEF ProgramStorage
  <2> QED
    BY <2>1, FailedShape DEF FInv, AtRest
<1>2. CASE ~TooLarge(Section, Length)
  <2>1. /\ pc = "section" /\ pc' = "erase" /\ todo # {}
        /\ UNCHANGED <<flash, line, fw, rate, request, rx, todo, sector, same>>
    BY <1>2 DEF ProgramStorage, Goto
  <2>2. Identified /\ Identified' /\ pc \notin Waiting /\ pc' \notin Waiting
    BY <2>1 DEF Identified, Session, Waiting
  <2>3. Exchange'
    BY <2>1, <2>2 DEF FInv, Exchange
  <2>4. sector = 0 /\ todo \subseteq Requested
    BY <2>1, <2>2 DEF FInv, Placed
  <2>5. SectorCount(Length) \in Nat /\ (SectorCount(Length) = 0 <=> Length = 0)
    BY <2>1, <2>2, Counts
  <2>6. /\ Requested' = Requested /\ Section' = Section /\ Length' = Length /\ Emmc' = Emmc
        /\ SectorCount(Length)' = SectorCount(Length)
        /\ TooLarge(Section, Length)' = TooLarge(Section, Length)
    BY <2>1, SamePlace DEF SectorCount, TooLarge
  <2>7. Placed'
    BY <1>2, <2>1, <2>4, <2>5, <2>6 DEF Placed
  <2>8. ReadBack' /\ (fw = "absent" => line' = <<>>)
    BY <2>1 DEF ReadBack, FInv, AtRest
  <2> QED
    BY <2>1, <2>2, <2>3, <2>7, <2>8, GoesOn, StaysInSection DEF Shape
<1> QED
  BY <1>1, <1>2

\* run() returns: nothing is left in the air that could touch the flash.
LEMMA DoneShape ==
    ASSUME RequestAssumption, FInv, Done
    PROVE  Shape'
<1>1. /\ pc = "section" /\ todo = {} /\ UNCHANGED <<flash, fw, rate, request>>
      /\ Send(IF request.jump THEN <<Opcode("jump_bootrom")>> ELSE <<>>)
      /\ pc' = "ok" /\ rx' = <<>> /\ todo' = {} /\ sector' = 0 /\ same'
  BY DEF Done, End
<1>2. Identified /\ line = <<>>
  BY <1>1 DEF Identified, Session, FInv, Exchange, Waiting
<1>3. line' = <<>> \/ line' = <<Opcode("jump_bootrom")>>
  BY <1>1, <1>2 DEF Send
<1>4. \A i \in DOMAIN line' : line'[i].op = "jump_bootrom"
  BY <1>3 DEF Opcode, Command
<1>5. fw' = "absent" => line' = <<>>
  BY <1>1, <1>2 DEF Send
<1>6. AtRest'
  BY <1>1, <1>4, <1>5 DEF AtRest
<1>7. ~Identified' /\ pc' \notin {"opened", "version", "read", "read_data"}
  BY <1>1 DEF Identified, Session, Waiting
<1>8. DoneSectionsWhole'
  BY <1>1, <1>2 DEF DoneSectionsWhole, FInv, Requested, Identified
<1> QED
  BY <1>6, <1>7, <1>8 DEF Shape, Opening, RateAgreed, Exchange, Placed, DoneFit, ReadBack,
     Identified

LEMMA EraseShape ==
    ASSUME RequestAssumption, FInv, Erase
    PROVE  Shape'
<1>1. /\ pc = "erase" /\ pc' = "erase_ack" /\ ~Emmc /\ sector < SectorCount(Length)
      /\ UNCHANGED <<flash, fw, rate, request, rx, todo, sector, same>>
      /\ Send(<<Command("erase", Address + sector, 1, "erased")>>)
  BY DEF Erase, Goto
<1>2. Identified /\ Identified' /\ pc \notin Waiting
  BY <1>1 DEF Identified, Session, Waiting
<1>3. /\ Requested' = Requested /\ Section' = Section /\ Length' = Length /\ Emmc' = Emmc
      /\ Address' = Address /\ SectorCount(Length)' = SectorCount(Length)
      /\ TooLarge(Section, Length)' = TooLarge(Section, Length)
  BY <1>1, SamePlace DEF SectorCount, TooLarge
<1>4. Own' = Command("erase", Address + sector, 1, "erased")
  BY <1>1, <1>3 DEF Own, Command
<1>5. Own' \in Commands
  BY <1>1, <1>4, OwnCommands
<1>6. Exchange' /\ (fw = "absent" => line' = <<>>)
  BY <1>1, <1>2, <1>4, <1>5, SendsOwn
<1>7. Placed'
  BY <1>1, <1>2, <1>3 DEF Placed, FInv
<1>8. ReadBack'
  BY <1>1 DEF ReadBack
<1> QED
  BY <1>1, <1>2, <1>6, <1>7, <1>8, GoesOn, StaysInSection DEF Shape

LEMMA EraseAckShape ==
    ASSUME RequestAssumption, FInv, EraseAck
    PROVE  Shape'
<1>1. CASE Head(rx).kind = "erase"
  <2>1. /\ pc = "erase_ack" /\ pc' = "erase" /\ rx # <<>> /\ rx' = Tail(rx) /\ sector' = sector + 1
        /\ UNCHANGED <<flash, line, fw, rate, request, todo, same>>
    BY <1>1 DEF EraseAck
  <2>2. Identified /\ Identified' /\ pc \in Waiting
    BY <2>1 DEF Identified, Session, Waiting
  <2>3. line = <<>> /\ Len(rx) = 1 /\ rx \in Seq(Answers)
    BY <2>1, <2>2 DEF FInv, Exchange, FlashTypeOK
  <2>4. rx' = <<>>
    BY <2>1, <2>3
  <2>5. Exchange'
    BY <2>1, <2>3, <2>4 DEF Exchange, Waiting
  <2>6. /\ Requested' = Requested /\ Section' = Section /\ Length' = Length /\ Emmc' = Emmc
        /\ SectorCount(Length)' = SectorCount(Length)
        /\ TooLarge(Section, Length)' = TooLarge(Section, Length)
    BY <2>1, SamePlace DEF SectorCount, TooLarge
  <2>7. /\ todo \subseteq Requested /\ todo # {} /\ ~TooLarge(Section, Length)
        /\ ~Emmc /\ sector < SectorCount(Length)
    BY <2>1, <2>2 DEF FInv, Placed
  <2>8. sector \in Nat /\ SectorCount(Length) \in Nat
    BY <2>2, <2>7, Counts DEF FInv, FlashTypeOK
  <2>9. Placed' /\ ReadBack'
    BY <2>1, <2>6, <2>7, <2>8 DEF Placed, ReadBack
  <2> QED
    BY <2>1, <2>2, <2>3, <2>5, <2>9, GoesOn, StaysInSection DEF Shape
<1>2. CASE Head(rx).kind # "erase"
  BY <1>2, FailedShape DEF EraseAck, FInv, AtRest
<1> QED
  BY <1>1, <1>2

LEMMA WriteShape ==
    ASSUME RequestAssumption, FInv, Write
    PROVE  Shape'
<1>1. /\ ReadyToWrite /\ pc = "erase" /\ pc' = "write_ack"
      /\ UNCHANGED <<flash, fw, rate, request, rx, todo, sector, same>>
      /\ Send(<<Command("write", WriteAddress, WriteCount, File)>>)
  BY DEF Write, Goto, ReadyToWrite
<1>2. Identified /\ Identified' /\ pc \notin Waiting
  BY <1>1 DEF Identified, Session, Waiting
<1>3. /\ Requested' = Requested /\ Section' = Section /\ Length' = Length /\ Emmc' = Emmc
      /\ Address' = Address /\ SectorCount(Length)' = SectorCount(Length) /\ File' = File
      /\ TooLarge(Section, Length)' = TooLarge(Section, Length)
  BY <1>1, SamePlace DEF SectorCount, TooLarge
<1>4. WriteAddress' = WriteAddress /\ WriteCount' = WriteCount
  BY <1>1, <1>3 DEF WriteAddress, WriteCount, AtMost
<1>5. Own' = Command("write", WriteAddress, WriteCount, File)
  BY <1>1, <1>3, <1>4 DEF Own, Command
<1>7. Own' \in Commands
  BY <1>1, <1>5, OwnCommands
<1>8. Exchange' /\ (fw = "absent" => line' = <<>>)
  BY <1>1, <1>2, <1>5, <1>7, SendsOwn
<1>9. Placed'
  BY <1>1, <1>2, <1>3 DEF Placed, FInv, ReadyToWrite
<1>10. ReadBack'
  BY <1>1 DEF ReadBack
<1> QED
  BY <1>1, <1>2, <1>8, <1>9, <1>10, GoesOn, StaysInSection DEF Shape

\* The section that is finished joins those that are whole.
LEMMA NextFits ==
    ASSUME FInv, Identified, pc \in {"erase", "write_ack", "read"}, NextSection, UNCHANGED <<flash, request>>,
           request.verify => \A s \in Sectors \cap Region(Section, request.bImage, Length) :
                                flash[s] = File
    PROVE  DoneFit' /\ DoneSectionsWhole' /\ todo' \subseteq Requested'
<1>1. /\ DoneFit /\ DoneSectionsWhole /\ ~TooLarge(Section, Length) /\ todo \subseteq Requested
  BY DEF FInv, Placed
<1>2. Requested' = Requested /\ todo' = todo \ {Min(todo)} /\ pc' = "section"
  BY DEF Requested, NextSection
<1>3. \A i \in Requested' \ todo' : i \in Requested \ todo \/ i = Min(todo)
  BY <1>2
<1>4. Section = RunOrder[Min(todo)] /\ Length = request.length[Option(RunOrder[Min(todo)])]
  BY DEF Section, Length, File
<1>5. DoneFit'
  BY <1>1, <1>3, <1>4 DEF DoneFit
<1>6. DoneSectionsWhole'
  <2> SUFFICES ASSUME request.verify, NEW i \in Requested' \ todo',
                      NEW s \in Sectors \cap Region(RunOrder[i], request.bImage,
                                                    request.length[Option(RunOrder[i])])
               PROVE  flash[s] = Option(RunOrder[i])
    BY DEF DoneSectionsWhole
  <2>1. CASE i = Min(todo)
    BY <1>4, <2>1 DEF File
  <2>2. CASE i \in Requested \ todo
    BY <1>1, <2>2 DEF DoneSectionsWhole, Identified
  <2> QED
    BY <1>3, <2>1, <2>2
<1> QED
  BY <1>1, <1>2, <1>5, <1>6

LEMMA WriteAckShape ==
    ASSUME RequestAssumption, FInv, WriteAck
    PROVE  Shape'
<1>1. CASE Head(rx).kind = "write"
  <2>1. /\ pc = "write_ack" /\ pc' \in {"erase", "read", "section"} /\ rx # <<>> /\ rx' = Tail(rx)
        /\ UNCHANGED <<flash, line, fw, rate, request, same>>
    BY <1>1 DEF WriteAck, NextSection
  <2>2. Identified /\ Identified' /\ pc \in Waiting /\ pc' \notin Waiting
    BY <2>1 DEF Identified, Session, Waiting
  <2>3. line = <<>> /\ Len(rx) = 1 /\ rx \in Seq(Answers)
    BY <2>1, <2>2 DEF FInv, Exchange, FlashTypeOK
  <2>4. rx' = <<>>
    BY <2>1, <2>3
  <2>5. Exchange'
    BY <2>1, <2>2, <2>3, <2>4 DEF Exchange
  <2>6. /\ todo \subseteq Requested /\ todo # {} /\ ~TooLarge(Section, Length) /\ Address \in Nat
    BY <2>1, <2>2, Counts DEF FInv, Placed
  <2>7. CASE Emmc /\ sector + WriteCount < SectorCount(Length)
    <3>1. pc' = "erase" /\ todo' = todo /\ sector' = sector + WriteCount
      BY <1>1, <2>7 DEF WriteAck
    <3>2. /\ Requested' = Requested /\ Section' = Section /\ Length' = Length /\ Emmc' = Emmc
          /\ SectorCount(Length)' = SectorCount(Length)
          /\ TooLarge(Section, Length)' = TooLarge(Section, Length)
      BY <2>1, <3>1, SamePlace DEF SectorCount, TooLarge
    <3>3. Placed' /\ ReadBack'
      BY <2>1, <2>6, <2>7, <3>1, <3>2 DEF Placed, ReadBack
    <3> QED
      BY <2>1, <2>2, <2>3, <2>5, <3>1, <3>3, GoesOn, StaysInSection DEF Shape
  <2>8. CASE ~(Emmc /\ sector + WriteCount < SectorCount(Length)) /\ request.verify
    <3>1. pc' = "read" /\ todo' = todo /\ sector' = 0
      BY <1>1, <2>8 DEF WriteAck
    <3>2. /\ Requested' = Requested /\ Section' = Section /\ Length' = Length
          /\ Address' = Address /\ TooLarge(Section, Length)' = TooLarge(Section, Length)
      BY <2>1, <3>1, SamePlace DEF TooLarge
    <3>3. Placed'
      BY <2>1, <2>6, <3>1, <3>2 DEF Placed
    <3>4. ReadBack'
      BY <2>6, <3>1, <3>2 DEF ReadBack, Extent
    <3> QED
      BY <2>1, <2>2, <2>3, <2>5, <3>1, <3>3, <3>4, GoesOn, StaysInSection DEF Shape
  <2>9. CASE ~(Emmc /\ sector + WriteCount < SectorCount(Length)) /\ ~request.verify
    <3>1. NextSection /\ sector' = 0 /\ pc' = "section"
      BY <1>1, <2>9 DEF WriteAck, NextSection
    <3>2. DoneFit' /\ DoneSectionsWhole' /\ todo' \subseteq Requested'
      BY <2>1, <2>2, <2>9, <3>1, NextFits
    <3>3. Placed' /\ ReadBack'
      BY <3>1, <3>2 DEF Placed, ReadBack
    <3> QED
      BY <2>1, <2>2, <2>3, <2>5, <3>2, <3>3, GoesOn DEF Shape
  <2> QED
    BY <2>7, <2>8, <2>9
<1>2. CASE Head(rx).kind # "write"
  BY <1>2, FailedShape DEF WriteAck, FInv, AtRest
<1> QED
  BY <1>1, <1>2

LEMMA NothingToWriteShape ==
    ASSUME RequestAssumption, FInv, NothingToWrite
    PROVE  Shape'
<1>1. /\ pc = "erase" /\ pc' = "section" /\ sector' = 0 /\ NextSection
      /\ UNCHANGED <<flash, line, rx, fw, rate, request, same>>
  BY EmptyIsWhole DEF NextSection
<1>2. Identified /\ Identified' /\ pc \notin Waiting /\ pc' \notin Waiting
  BY <1>1 DEF Identified, Session, Waiting
<1>3. Exchange' /\ line = <<>>
  BY <1>1, <1>2 DEF FInv, Exchange
<1>4. DoneFit' /\ DoneSectionsWhole' /\ todo' \subseteq Requested'
  BY <1>1, <1>2, EmptyIsWhole, NextFits
<1>5. Placed' /\ ReadBack'
  BY <1>1, <1>4 DEF Placed, ReadBack
<1> QED
  BY <1>1, <1>2, <1>3, <1>4, <1>5, GoesOn DEF Shape

LEMMA ReadShape ==
    ASSUME RequestAssumption, FInv, Read
    PROVE  Shape'
<1>1. /\ pc = "read" /\ pc' = "read_data" /\ sector < SectorCount(Length)
      /\ UNCHANGED <<flash, fw, rate, request, rx, todo, sector, same>>
      /\ Send(<<Command("read", Address + sector, ReadCount, "none")>>)
  BY DEF Read, Goto
<1>2. Identified /\ Identified' /\ pc \notin Waiting
  BY <1>1 DEF Identified, Session, Waiting
<1>3. /\ Requested' = Requested /\ Section' = Section /\ Length' = Length /\ Emmc' = Emmc
      /\ Address' = Address /\ SectorCount(Length)' = SectorCount(Length) /\ File' = File
      /\ TooLarge(Section, Length)' = TooLarge(Section, Length)
  BY <1>1, SamePlace DEF SectorCount, TooLarge
<1>4. ReadCount' = ReadCount
  BY <1>1, <1>3 DEF ReadCount
<1>5. Own' = Command("read", Address + sector, ReadCount, "none")
  BY <1>1, <1>3, <1>4 DEF Own, Command
<1>6. Address + sector \in Nat /\ ReadCount \in Nat /\ request \in Requests
  BY <1>1, <1>2, Counts DEF FInv, FlashTypeOK, ReadCount
<1>7. Own' \in Commands
  BY <1>5, <1>6, CommandType
<1>8. Exchange' /\ (fw = "absent" => line' = <<>>)
  BY <1>1, <1>2, <1>5, <1>7, SendsOwn
<1>9. Placed'
  BY <1>1, <1>2, <1>3 DEF Placed, FInv
<1>10. ReadBack'
  BY <1>1, <1>3 DEF ReadBack, FInv
<1> QED
  BY <1>1, <1>2, <1>8, <1>9, <1>10, GoesOn, StaysInSection DEF Shape

LEMMA ReadDataShape ==
    ASSUME RequestAssumption, FInv, ReadData
    PROVE  Shape'
<1>1. /\ pc = "read_data" /\ pc' = "read" /\ rx # <<>> /\ rx' = Tail(rx)
      /\ UNCHANGED <<flash, line, fw, rate, request, todo>>
      /\ sector' = sector + ReadCount
  BY DEF ReadData
<1>2. Identified /\ Identified' /\ pc \in Waiting /\ pc' \notin Waiting
  BY <1>1 DEF Identified, Session, Waiting
<1>3. /\ line = <<>> /\ Len(rx) = 1 /\ rx \in Seq(Answers)
      /\ rx[1] = Data(Found(Extent(Address + sector, ReadCount) \cap Sectors))
  BY <1>1, <1>2 DEF FInv, Exchange, FlashTypeOK
<1>4. rx' = <<>> /\ Head(rx) = rx[1]
  BY <1>1, <1>3
<1>5. Exchange'
  BY <1>1, <1>2, <1>3, <1>4 DEF Exchange
<1>6. /\ Requested' = Requested /\ Section' = Section /\ Length' = Length /\ Emmc' = Emmc
      /\ Address' = Address /\ File' = File
      /\ TooLarge(Section, Length)' = TooLarge(Section, Length)
  BY <1>1, SamePlace DEF TooLarge
<1>7. Placed'
  BY <1>1, <1>2, <1>6 DEF Placed, FInv
<1>8. /\ Address \in Nat /\ sector \in Nat /\ ReadCount \in Nat /\ File \in Options
  BY <1>1, <1>2, Counts DEF FInv, FlashTypeOK, ReadCount
<1>9. same' => same /\ rx[1] = Data(File)
  BY <1>4, Zenon DEF ReadData
<1>10. same' => \A s \in Extent(Address + sector, ReadCount) \cap Sectors : flash[s] = File
  <2>1. Data(Found(Extent(Address + sector, ReadCount) \cap Sectors)) = Data(File) =>
           Found(Extent(Address + sector, ReadCount) \cap Sectors) = File
    BY DEF Data
  <2> QED
    BY <1>3, <1>8, <1>9, <2>1, FoundIs
<1>11. same' => \A s \in Extent(Address, sector) \cap Sectors : flash[s] = File
  BY <1>1, <1>9 DEF FInv, ReadBack
<1>12. Extent(Address, sector') \subseteq
          Extent(Address, sector) \cup Extent(Address + sector, ReadCount)
  BY <1>1, <1>8 DEF Extent
<1>13. ReadBack'
  BY <1>1, <1>6, <1>10, <1>11, <1>12 DEF ReadBack
<1> QED
  BY <1>1, <1>2, <1>3, <1>5, <1>7, <1>13, GoesOn, StaysInSection DEF Shape

LEMMA ValidateShape ==
    ASSUME RequestAssumption, FInv, Validate
    PROVE  Shape'
<1>1. CASE same
  <2>1. /\ pc = "read" /\ pc' = "section" /\ sector = SectorCount(Length) /\ sector' = 0
        /\ UNCHANGED <<flash, line, fw, rate, request, rx, same>> /\ NextSection
    BY <1>1 DEF Validate, NextSection
  <2>2. Identified /\ Identified' /\ pc \notin Waiting /\ pc' \notin Waiting
    BY <2>1 DEF Identified, Session, Waiting
  <2>3. Exchange' /\ line = <<>>
    BY <2>1, <2>2 DEF FInv, Exchange
  <2>4. \A s \in Extent(Address, SectorCount(Length)) \cap Sectors : flash[s] = File
    BY <1>1, <2>1 DEF FInv, ReadBack
  <2>5. \A s \in Sectors \cap Region(Section, request.bImage, Length) : flash[s] = File
    BY <2>4 DEF Region, Address
  <2>6. DoneFit' /\ DoneSectionsWhole' /\ todo' \subseteq Requested'
    BY <2>1, <2>2, <2>5, NextFits
  <2>7. Placed' /\ ReadBack'
    BY <2>1, <2>6 DEF Placed, ReadBack
  <2> QED
    BY <2>1, <2>2, <2>3, <2>6, <2>7, GoesOn DEF Shape
<1>2. CASE ~same
  BY <1>2, FailedShape DEF Validate, FInv, AtRest
<1> QED
  BY <1>1, <1>2

LEMMA HostShape ==
    ASSUME RequestAssumption, FInv, OpenInterface \/ HostStep \/ Kill \/ KillMidCommand
    PROVE  Shape'
<1>1. CASE Timeout \/ Kill
  BY <1>1, FailedShape DEF Timeout, Kill, FInv, AtRest
<1>2. CASE KillMidCommand
  <2>1. End("failed") /\ fw' = fw /\ (fw = "absent" => line' = line)
    BY <1>2 DEF KillMidCommand, Send
  <2> QED
    BY <2>1, FailedShape DEF FInv, AtRest
<1> QED
  BY <1>1, <1>2, OpenShape, VersionShape, VerifiedShape, JedecShape, ProgramStorageShape, DoneShape,
     EraseShape, EraseAckShape, WriteShape, NothingToWriteShape, WriteAckShape, ReadShape,
     ReadDataShape, ValidateShape
     DEF HostStep
-------------------------------------------------------------------------------
(* The steps of the board.                                                     *)

\* The board never touches the variables of the host; a board that goes away takes the
\* line along.
LEMMA BoardLeavesHost ==
    ASSUME FInv, Board
    PROVE  UNCHANGED host /\ (fw' = "absent" => line' = <<>>)
  BY Zenon DEF Board, FwPrompt, FwAnswers, FwSetsRate, FwMisses, FwStarts, FwCompletesPartial,
     FwJumps, FwFinishes, BoardResets, FwIsLoaded

\* After a session that succeeded the board has at most the jump to the boot ROM before
\* it.
LEMMA OkBoard ==
    ASSUME FInv, Board, pc = "ok"
    PROVE  flash' = flash /\ \A i \in DOMAIN line' : line'[i].op = "jump_bootrom"
<1>1. /\ line \in Seq(Commands)
      /\ fw = "busy" => line # <<>> /\ Head(line).op \in {"erase", "write"}
      /\ \A i \in DOMAIN line : line[i].op = "jump_bootrom"
  BY DEF FInv, FlashTypeOK, AtRest
<1>2. line # <<>> => /\ Head(line).op = "jump_bootrom"
                     /\ \A i \in DOMAIN Tail(line) : Tail(line)[i].op = "jump_bootrom"
  BY <1>1, HeadTailProperties, LenProperties
<1>3. fw # "busy"
  BY <1>1, <1>2
<1>4. CASE FwMisses
  BY <1>2, <1>4 DEF FwMisses
<1>5. CASE FwJumps \/ BoardResets
  BY <1>3, <1>5 DEF FwJumps, BoardResets
<1>6. CASE FwIsLoaded
  BY <1>1, <1>6 DEF FwIsLoaded
<1>7. ~FwAnswers /\ ~FwSetsRate /\ ~FwStarts
  BY <1>2 DEF FwAnswers, FwSetsRate, FwStarts, Heard
<1>8. ~FwFinishes
  BY <1>3 DEF FwFinishes
<1>9. ~FwCompletesPartial
  BY <1>2 DEF FwCompletesPartial, Heard
<1> QED
  BY <1>4, <1>5, <1>6, <1>7, <1>8, <1>9 DEF Board, FwPrompt

LEMMA RestingBoard ==
    ASSUME RequestAssumption, FInv, Board, pc \in Ended
    PROVE  Shape'
<1>1. UNCHANGED host /\ (fw' = "absent" => line' = <<>>)
  BY BoardLeavesHost
<1>2. rx = <<>> /\ todo = {} /\ sector = 0 /\ same
  BY DEF FInv, AtRest
<1>3. rx' = <<>>
  BY <1>2 DEF Board, FwPrompt, FwAnswers, FwSetsRate, FwMisses, FwStarts, FwCompletesPartial,
     FwJumps, FwFinishes, BoardResets, FwIsLoaded, Reply
<1>4. AtRest'
  BY <1>1, <1>2, <1>3, OkBoard DEF AtRest, host
<1>5. DoneSectionsWhole'
  <2>1. CASE pc = "ok"
    BY <1>1, <2>1, OkBoard DEF DoneSectionsWhole, FInv, host, Requested
  <2>2. CASE pc # "ok"
    BY <1>1, <2>2 DEF DoneSectionsWhole, host, Session, Ended, Waiting
  <2> QED
    BY <2>1, <2>2
<1>6. pc' = pc /\ ~Session(pc')
  BY <1>1 DEF host, Session, Ended, Waiting
<1> QED
  BY <1>4, <1>5, <1>6 DEF Shape, Opening, RateAgreed, Exchange, Placed, DoneFit, ReadBack,
     Identified, Ended

LEMMA UnansweredRest ==
    ASSUME NEW commands \in Seq(Commands), commands # <<>>, Unanswered(commands)
    PROVE  /\ Unanswered(Tail(commands))
           /\ Head(commands).op \in Quiet \/
                 (Tail(commands) = <<>> /\ pc = "version" /\ Head(commands).op = "fw_version"
                  /\ Head(commands).rate = request.rate)
<1>1. /\ Tail(commands) \in Seq(Commands) /\ Len(Tail(commands)) = Len(commands) - 1
      /\ \A i \in 1..Len(Tail(commands)) : Tail(commands)[i] = commands[i + 1]
      /\ Len(commands) \in Nat \ {0} /\ Head(commands) = commands[1]
  BY HeadTailProperties, EmptySeq
<1>2. DOMAIN Tail(commands) = 1..Len(Tail(commands)) /\ DOMAIN commands = 1..Len(commands)
  BY <1>1, LenProperties
<1>3. Unanswered(Tail(commands))
  BY <1>1, <1>2 DEF Unanswered
<1>4. Len(commands) = 1 => Tail(commands) = <<>>
  <2> SUFFICES ASSUME Len(commands) = 1 PROVE Tail(commands) = <<>>
    OBVIOUS
  <2>1. Len(Tail(commands)) = 0
    BY <1>1
  <2> QED
    BY <1>1, <2>1, NotEmpty
<1> QED
  BY <1>1, <1>2, <1>3, <1>4 DEF Unanswered

LEMMA UnansweredPartial ==
    ASSUME NEW commands \in Seq(Commands), Unanswered(commands),
           NEW partial \in Commands, partial.op = "partial"
    PROVE  Unanswered(<<partial>> \o commands)
<1>1. <<partial>> \in Seq(Commands) /\ Len(<<partial>>) = 1 /\ <<partial>>[1] = partial
  OBVIOUS
<1>2. /\ <<partial>> \o commands \in Seq(Commands)
      /\ Len(<<partial>> \o commands) = 1 + Len(commands) /\ Len(commands) \in Nat
      /\ \A i \in 1..(1 + Len(commands)) :
            (<<partial>> \o commands)[i] = IF i <= 1 THEN <<partial>>[i] ELSE commands[i - 1]
  BY <1>1, ConcatProperties, LenProperties
<1>3. /\ DOMAIN (<<partial>> \o commands) = 1..(1 + Len(commands))
      /\ DOMAIN commands = 1..Len(commands)
  BY <1>2, LenProperties
<1>4. "partial" \in Quiet
  BY DEF Quiet, Settings
<1> QED
  BY <1>1, <1>2, <1>3, <1>4 DEF Unanswered

LEMMA BoardOnlyAdds ==
    ASSUME FInv, Board, pc \notin Ended
    PROVE  \E answers \in Seq(Answers) : rx' = rx \o answers
<1>1. rx \in Seq(Answers) /\ (fw = "busy" => Head(line).op \in {"erase", "write"})
  BY DEF FInv, FlashTypeOK
<1>2. rx' = rx => rx' = rx \o <<>>
  BY <1>1, ConcatEmptySeq
<1>3. <<>> \in Seq(Answers)
  OBVIOUS
<1>4. \A answers : Reply(answers) => rx' = rx \o answers
  BY DEF Reply
<1>5. CASE FwAnswers
  <2>1. \/ rx' = rx
        \/ Reply(<<Answer("major"), Answer("minor")>>)
        \/ Reply(<<Answer("jedec")>>)
        \/ Reply(<<Data(Found(Extent(Head(line).first, Head(line).count) \cap Sectors))>>)
    BY <1>5 DEF FwAnswers
  <2>2. Found(Extent(Head(line).first, Head(line).count) \cap Sectors) \in Contents \cup {"mixed"}
    BY FoundIs
  <2> QED
    BY <1>2, <1>3, <1>4, <2>1, <2>2, AnswerTypes
<1>6. CASE FwFinishes
  <2>1. PICK kind \in {"erase", "write", "error"} : Reply(<<Answer(kind)>>)
    BY <1>1, <1>6 DEF FwFinishes
  <2> QED
    BY <1>4, <2>1, AnswerTypes
<1>7. CASE FwCompletesPartial
  <2>1. \/ rx' = rx
        \/ \E kind \in {"erase", "write"} : Reply(<<Answer(kind)>>)
        \/ Reply(<<Data("old")>>)
    BY <1>7 DEF FwCompletesPartial
  <2>2. "old" \in Contents
    BY DEF Contents
  <2> QED
    BY <1>2, <1>3, <1>4, <2>1, <2>2, AnswerTypes
<1>8. CASE FwSetsRate \/ FwMisses \/ FwStarts \/ BoardResets \/ FwJumps \/ FwIsLoaded
  BY <1>2, <1>3, <1>8 DEF FwSetsRate, FwMisses, FwStarts, BoardResets, FwJumps, FwIsLoaded
<1> QED
  BY <1>5, <1>6, <1>7, <1>8 DEF Board, FwPrompt

\* An answer that is not the version spoils the session, and so does a command in
\* execution, whose acknowledgement comes first; otherwise nothing on the line is
\* answered but the request for the version.
LEMMA OpeningBoard ==
    ASSUME RequestAssumption, FInv, Board, pc \in {"opened", "version"}
    PROVE  Shape'
<1>1. UNCHANGED host /\ (fw' = "absent" => line' = <<>>)
  BY BoardLeavesHost
<1>2. FlashTypeOK /\ todo = Requested /\ sector = 0 /\ same /\ (Spoilt \/ Clean)
  BY DEF FInv, Opening
<1>3. pc \notin Ended
  BY DEF Ended
<1>4. /\ rx' = rx => rx' = rx
      /\ \A answers \in Seq(Answers) : Reply(answers) => rx' = rx \o answers
  BY <1>2, <1>3 DEF Reply
<1>5. Spoilt' \/ Clean'
  <2>0. pc' = pc /\ request' = request /\ rx \in Seq(Answers) /\ line \in Seq(Commands)
    BY <1>1, <1>2 DEF host, FlashTypeOK
  <2>1. CASE rx # <<>> /\ rx[1].kind # "major"
    <3>1. \E answers \in Seq(Answers) : rx' = rx \o answers
      BY <1>3, BoardOnlyAdds
    <3>2. rx' # <<>> /\ rx'[1] = rx[1]
      BY <2>0, <2>1, <3>1, ConcatProperties
    <3> QED
      BY <2>1, <3>2 DEF Spoilt
  <2>2. CASE fw = "busy" /\ rx = <<>>
    <3>1. CASE FwFinishes
      <4>1. PICK kind \in {"erase", "write", "error"} : Reply(<<Answer(kind)>>)
        BY <1>2, <2>2, <3>1 DEF FwFinishes, FlashTypeOK
      <4>2. rx' = <<Answer(kind)>>
        BY <1>3, <2>0, <2>2, <4>1, AnswerTypes, ReplyAppends
      <4> QED
        BY <4>2 DEF Spoilt, Answer
    <3>2. CASE BoardResets
      BY <2>2, <3>2 DEF BoardResets, Clean, Unanswered
    <3> QED
      BY <2>2, <3>1, <3>2 DEF Board, FwPrompt, FwAnswers, FwSetsRate, FwMisses, FwStarts,
         FwCompletesPartial, FwJumps, FwIsLoaded
  <2>3. CASE Clean
    <3>0. line # <<>> => rx = <<>> /\ Unanswered(line)
      BY <2>3 DEF Clean
    <3>1. line # <<>> => /\ Unanswered(Tail(line))
                         /\ Head(line).op \in Quiet \/
                               (Tail(line) = <<>> /\ pc = "version" /\ Head(line).op = "fw_version"
                                /\ Head(line).rate = request.rate)
      BY <2>0, <3>0, UnansweredRest
    <3>2. CASE FwAnswers
      <4>1. /\ line # <<>> /\ line' = Tail(line) /\ fw' = "idle" /\ rate' = rate
            /\ Head(line).rate = rate
        BY <3>2 DEF FwAnswers, Heard
      <4>2. CASE Head(line).op \in Quiet
        <5>1. rx' = rx
          BY <3>2, <4>2 DEF FwAnswers, Quiet, Settings
        <5> QED
          BY <2>0, <3>0, <3>1, <4>1, <5>1 DEF Clean, Unanswered
      <4>3. CASE Head(line).op = "fw_version" /\ Head(line).op \notin Quiet
        <5>1. Reply(<<Answer("major"), Answer("minor")>>)
          BY <3>2, <4>3 DEF FwAnswers
        <5>2. rx' = <<Answer("major"), Answer("minor")>>
          BY <1>3, <2>0, <3>0, <4>1, <5>1, AnswerTypes, ReplyAppends
        <5>3. Len(rx') = 2
          BY <5>2
        <5> QED
          BY <2>0, <3>1, <4>1, <4>3, <5>3 DEF Clean
      <4> QED
        BY <3>1, <4>1, <4>2, <4>3
    <3>3. CASE FwSetsRate \/ FwMisses
      BY <2>0, <3>0, <3>1, <3>3 DEF FwSetsRate, FwMisses, Heard, Clean, Unanswered
    <3>4. ~FwStarts
      BY <3>1 DEF FwStarts, Heard, Quiet, Settings
    <3>5. CASE FwCompletesPartial
      <4>1. Len(line) >= 2 /\ Head(line).op = "partial" /\ line # <<>> /\ fw' = "idle"
        BY <2>0, <3>5 DEF FwCompletesPartial, Heard
      <4>2. /\ Tail(line) \in Seq(Commands) /\ Len(Tail(line)) >= 1 /\ Head(line) \in Commands
        BY <2>0, <4>1, HeadTailProperties
      <4>3. Tail(line) # <<>>
        BY <4>2, NotEmpty
      <4>4. Tail(Tail(line)) \in Seq(Commands) /\ Unanswered(Tail(Tail(line)))
        BY <3>1, <4>1, <4>2, <4>3, HeadTailProperties, UnansweredRest
      <4>5. CASE line' = <<Head(line)>> \o Tail(Tail(line)) /\ rx' = rx
        <5>1. Unanswered(line')
          BY <4>1, <4>2, <4>4, <4>5, UnansweredPartial
        <5> QED
          BY <2>0, <3>0, <4>1, <4>5, <5>1 DEF Clean, Unanswered
      <4>6. ASSUME NEW kind \in {"erase", "write"}, Reply(<<Answer(kind)>>) PROVE Spoilt'
        <5>1. rx' = <<Answer(kind)>>
          BY <1>3, <2>0, <3>0, <4>1, <4>6, AnswerTypes, ReplyAppends
        <5> QED
          BY <5>1 DEF Spoilt, Answer
      <4>7. CASE Reply(<<Data("old")>>)
        <5>1. "old" \in Contents
          BY DEF Contents
        <5>2. rx' = <<Data("old")>>
          BY <1>3, <2>0, <3>0, <4>1, <4>7, <5>1, AnswerTypes, ReplyAppends
        <5> QED
          BY <5>2 DEF Spoilt, Data
      <4> QED
        BY <3>5, <4>5, <4>6, <4>7 DEF FwCompletesPartial
    <3>6. CASE BoardResets \/ FwJumps
      BY <2>0, <2>3, <3>6 DEF BoardResets, FwJumps, Clean, Unanswered
    <3>7. ~FwFinishes
      BY <2>3 DEF Clean, FwFinishes
    <3>8. ~FwIsLoaded
      BY <1>3 DEF FwIsLoaded
    <3> QED
      BY <3>2, <3>3, <3>4, <3>5, <3>6, <3>7, <3>8 DEF Board, FwPrompt
  <2> QED
    BY <1>2, <2>1, <2>2, <2>3 DEF Spoilt
<1>6. pc' = pc /\ request' = request /\ ~Identified' /\ pc' \notin Ended
  BY <1>1, <1>3 DEF host, Identified
<1>7. AtRest' /\ Opening'
  BY <1>1, <1>2, <1>5, <1>6 DEF AtRest, Opening, host, Requested, Ended
<1>8. DoneSectionsWhole'
  BY <1>1, <1>2 DEF DoneSectionsWhole, host, Requested
<1> QED
  BY <1>6, <1>7, <1>8 DEF Shape, RateAgreed, Exchange, Placed, DoneFit, ReadBack, Identified

\* Once the board is identified, it has at most the host's own command before it: it
\* executes that, misses it, or goes away.
LEMMA OwnBoard ==
    ASSUME RequestAssumption, FInv, Board, Identified
    PROVE  /\ UNCHANGED host /\ (fw' # "absent" => rate' = rate /\ fw # "absent")
           /\ \/ line' = line /\ rx' = rx
              \/ line' = <<>> /\ rx' = rx
              \/ /\ line = <<Own>> /\ rx = <<>> /\ line' = <<>> /\ Len(rx') = 1
                 /\ pc = "read_data" =>
                       /\ flash' = flash
                       /\ rx'[1] = Data(Found(Extent(Address + sector, ReadCount) \cap Sectors))
           /\ \A s \in Sectors : flash'[s] # flash[s] =>
                 pc \in {"erase_ack", "write_ack"} /\ s \in Extent(Own.first, Own.count)
<1>1. FlashTypeOK /\ Exchange
  BY DEF FInv
<1>2. UNCHANGED host
  BY BoardLeavesHost
<1>3. pc \notin Ended
  BY DEF Identified, Session, Ended, Waiting
<1>4. CASE line = <<>>
  <2>1. fw # "busy"
    BY <1>1, <1>4 DEF FlashTypeOK
  <2>2. CASE BoardResets
    BY <1>2, <1>4, <2>1, <2>2 DEF BoardResets
  <2> QED
    BY <1>3, <1>4, <2>1, <2>2 DEF Board, FwPrompt, FwAnswers, FwSetsRate, FwMisses, FwStarts,
       FwCompletesPartial, FwJumps, FwFinishes, FwIsLoaded, Heard
<1>5. CASE line # <<>>
  <2>1. line = <<Own>> /\ rx = <<>> /\ pc \in Waiting
    BY <1>1, <1>5 DEF Exchange
  <2>2. Head(line) = Own /\ Tail(line) = <<>> /\ Len(line) = 1
    BY <2>1, One
  <2>3. pc \in {"jedec", "erase_ack", "write_ack", "read_data"}
    BY <2>1 DEF Identified, Waiting
  <2>4. /\ pc = "jedec" => Own.op = "jedec"
        /\ pc = "erase_ack" => Own.op = "erase"
        /\ pc = "write_ack" => Own.op = "write"
        /\ pc = "read_data" => /\ Own.op = "read" /\ Own.first = Address + sector
                               /\ Own.count = ReadCount
    BY DEF Own, Opcode, Command
  <2>5. \A answers \in Seq(Answers) : Reply(answers) => rx' = answers
    BY <1>1, <1>3, <2>1, ReplyAppends DEF FlashTypeOK
  <2>6. CASE FwAnswers
    <3>1. line' = <<>> /\ UNCHANGED <<flash, fw, rate>>
      BY <2>2, <2>6 DEF FwAnswers
    <3>2. CASE pc = "read_data"
      <4>1. Reply(<<Data(Found(Extent(Address + sector, ReadCount) \cap Sectors))>>)
        BY <2>2, <2>4, <2>6, <3>2 DEF FwAnswers
      <4>4. Found(Extent(Address + sector, ReadCount) \cap Sectors) \in
               Contents \cup {"none", "mixed"}
        BY FoundIs
      <4>5. <<Data(Found(Extent(Address + sector, ReadCount) \cap Sectors))>> \in Seq(Answers)
        BY <4>4, AnswerTypes
      <4>2. rx' = <<Data(Found(Extent(Address + sector, ReadCount) \cap Sectors))>>
        BY <2>5, <4>1, <4>5
      <4>3. Len(rx') = 1 /\ rx'[1] = Data(Found(Extent(Address + sector, ReadCount) \cap Sectors))
        BY <4>2
      <4> QED
        BY <1>2, <2>1, <2>6, <3>1, <4>3 DEF FwAnswers
    <3>3. CASE pc = "jedec"
      <4>1. Reply(<<Answer("jedec")>>)
        BY <2>2, <2>4, <2>6, <3>3 DEF FwAnswers
      <4>2. rx' = <<Answer("jedec")>>
        BY <2>5, <4>1, AnswerTypes
      <4>3. Len(rx') = 1
        BY <4>2
      <4> QED
        BY <1>2, <2>1, <2>6, <3>1, <3>3, <4>3 DEF FwAnswers
    <3> QED
      BY <2>2, <2>3, <2>4, <2>6, <3>2, <3>3 DEF FwAnswers
  <2>7. CASE FwMisses
    BY <1>2, <2>2, <2>7 DEF FwMisses
  <2>8. CASE FwStarts
    BY <1>2, <2>8 DEF FwStarts
  <2>9. CASE FwFinishes
    <3>1. /\ line' = <<>> /\ fw = "busy" /\ rate' = rate /\ pc \in {"erase_ack", "write_ack"}
      BY <1>1, <2>2, <2>3, <2>4, <2>9 DEF FwFinishes, FlashTypeOK
    <3>2. PICK kind \in {"erase", "write", "error"} : Reply(<<Answer(kind)>>)
      BY <1>1, <2>9 DEF FwFinishes, FlashTypeOK
    <3>6. <<Answer(kind)>> \in Seq(Answers)
      BY <3>2, AnswerTypes
    <3>7. rx' = <<Answer(kind)>>
      BY <2>5, <3>2, <3>6
    <3>3. Len(rx') = 1
      BY <3>7
    <3>4. \E content : flash' = Program(Own.first, Own.count, content)
      BY <2>2, <2>9 DEF FwFinishes
    <3>5. \A s \in Sectors : flash'[s] # flash[s] => s \in Extent(Own.first, Own.count)
      BY <3>4 DEF Program
    <3> QED
      BY <1>2, <2>1, <3>1, <3>3, <3>5
  <2>10. CASE BoardResets
    <3>1. line' = <<>> /\ rx' = rx /\ fw' = "absent"
      BY <2>10 DEF BoardResets
    <3>2. CASE fw = "busy"
      <4>1. flash' = Program(Own.first, Own.count, "torn")
        BY <2>2, <2>10, <3>2 DEF BoardResets
      <4>2. pc \in {"erase_ack", "write_ack"}
        BY <1>1, <2>2, <2>3, <2>4, <3>2 DEF FlashTypeOK
      <4> QED
        BY <1>2, <3>1, <4>1, <4>2 DEF Program
    <3>3. CASE fw # "busy"
      BY <1>2, <2>10, <3>1, <3>3 DEF BoardResets
    <3> QED
      BY <3>2, <3>3
  <2>11. ~FwSetsRate /\ ~FwCompletesPartial /\ ~FwJumps /\ ~FwIsLoaded
    BY <1>3, <2>2, <2>3, <2>4 DEF FwSetsRate, FwCompletesPartial, FwJumps, FwIsLoaded
  <2> QED
    BY <2>6, <2>7, <2>8, <2>9, <2>10, <2>11 DEF Board, FwPrompt
<1> QED
  BY <1>4, <1>5

\* The command under way is for sectors of the section, and no section that is done
\* shares any with it.
LEMMA OwnIsInside ==
    ASSUME RequestAssumption, FInv, Identified, pc \in {"erase_ack", "write_ack"}
    PROVE  /\ Extent(Own.first, Own.count) \subseteq Reserved(Section, request.bImage)
           /\ todo # {}
<1>1. CASE pc = "write_ack"
  <2>1. Own.first = WriteAddress /\ Own.count = WriteCount
    BY <1>1 DEF Own, Command
  <2> QED
    BY <1>1, <2>1, WriteCovers, Counts
<1>2. CASE pc = "erase_ack"
  <2>1. Own.first = Address + sector /\ Own.count = 1
    BY <1>2 DEF Own, Command
  <2>2. /\ todo # {} /\ todo \subseteq Requested /\ ~TooLarge(Section, Length)
        /\ request \in Requests /\ sector < SectorCount(Length) /\ sector \in Nat
    BY <1>2 DEF FInv, Placed, FlashTypeOK
  <2>3. SectorCount(Length) \in Nat
    BY <2>2, CurrentSection
  <2>4. 1 \in Nat /\ sector + 1 <= SectorCount(Length)
    BY <2>2, <2>3
  <2> QED
    BY <2>1, <2>2, <2>4, WithinSection
<1> QED
  BY <1>1, <1>2

LEMMA DoneIsApart ==
    ASSUME RequestAssumption, FInv, Identified, todo # {}, NEW i \in Requested \ todo
    PROVE  Reserved(Section, request.bImage) \cap
              Region(RunOrder[i], request.bImage, request.length[Option(RunOrder[i])]) = {}
<1>1. /\ Min(todo) \in todo /\ todo \subseteq Requested /\ Section \in Sections
      /\ request \in Requests
  BY Counts DEF FInv, FlashTypeOK
<1>2. Min(todo) \in DOMAIN RunOrder /\ i \in DOMAIN RunOrder /\ i # Min(todo)
  BY <1>1 DEF Requested
<1>3. \A m, n \in DOMAIN RunOrder : RunOrder[m] = RunOrder[n] => m = n
  BY DEF RunOrder
<1>4. RunOrder[i] \in Sections /\ RunOrder[i] # Section
  BY <1>2, <1>3 DEF Sections, Section
<1>5. /\ request.bImage \in BOOLEAN
      /\ request.length[Option(RunOrder[i])] \in Nat
  BY <1>1 DEF RequestAssumption, Requested
<1>6. ~TooLarge(RunOrder[i], request.length[Option(RunOrder[i])])
  BY DEF FInv, DoneFit
<1>7. Region(RunOrder[i], request.bImage, request.length[Option(RunOrder[i])]) \subseteq
         Reserved(RunOrder[i], request.bImage)
  BY <1>4, <1>5, <1>6, RegionInSection
<1>8. Reserved(Section, request.bImage) \cap Reserved(RunOrder[i], request.bImage) = {}
  BY <1>1, <1>4, <1>5, SectionsDisjoint
<1> QED
  BY <1>7, <1>8

LEMMA IdentifiedBoard ==
    ASSUME RequestAssumption, FInv, Board, Identified
    PROVE  Shape'
<1>1. UNCHANGED host /\ (fw' # "absent" => rate' = rate /\ fw # "absent")
  BY OwnBoard
<1>2. flash \in [Sectors -> Contents] /\ flash' \in [Sectors -> Contents]
  BY BoardTypes DEF FInv, FlashTypeOK
<1>3. \A s \in Sectors : flash'[s] # flash[s] =>
         pc \in {"erase_ack", "write_ack"} /\ s \in Extent(Own.first, Own.count)
  BY OwnBoard
<1>4. pc \notin {"erase_ack", "write_ack"} => flash' = flash
  BY <1>2, <1>3
<1>5. Identified' /\ pc' \notin Ended /\ pc' \notin {"opened", "version"} /\ pc' # "ok"
  BY <1>1 DEF host, Identified, Session, Ended, Waiting
<1>6. UNCHANGED <<pc, request, todo, sector, same>>
  BY <1>1 DEF host
<1>7. /\ Requested' = Requested /\ Section' = Section /\ Length' = Length /\ Emmc' = Emmc
      /\ Address' = Address /\ SectorCount(Length)' = SectorCount(Length) /\ File' = File
      /\ TooLarge(Section, Length)' = TooLarge(Section, Length)
  BY <1>6, SamePlace DEF SectorCount, TooLarge
<1>8. AtRest' /\ Opening'
  BY <1>5, BoardLeavesHost DEF AtRest, Opening
<1>9. RateAgreed'
  BY <1>1, <1>6 DEF FInv, RateAgreed
<1>10. Exchange'
  <2>1. WriteAddress' = WriteAddress /\ WriteCount' = WriteCount /\ ReadCount' = ReadCount
    BY <1>6, <1>7 DEF WriteAddress, WriteCount, ReadCount, AtMost
  <2>2. Own' = Own
    BY <1>6, <1>7, <2>1 DEF Own, Opcode, Command
  <2>3. flash' = flash => Found(Extent(Address + sector, ReadCount) \cap Sectors)' =
                             Found(Extent(Address + sector, ReadCount) \cap Sectors)
    BY <1>6, <1>7, <2>1 DEF Found, Extent
  <2>4. pc = "read_data" => flash' = flash
    BY <1>4
  <2>5. CASE pc \in Waiting
    <3>1. CASE line' = line /\ rx' = rx
      BY <1>6, <2>2, <2>3, <2>4, <2>5, <3>1 DEF FInv, Exchange, Data
    <3>2. CASE line' = <<>> /\ rx' = rx /\ line # <<>>
      <4>1. rx = <<>>
        BY <2>5, <3>2 DEF FInv, Exchange
      <4> QED
        BY <1>6, <2>5, <3>2, <4>1 DEF Exchange
    <3>3. CASE /\ line' = <<>> /\ Len(rx') = 1
               /\ pc = "read_data" =>
                     rx'[1] = Data(Found(Extent(Address + sector, ReadCount) \cap Sectors))
      BY <1>6, <2>3, <2>4, <2>5, <3>3 DEF Exchange, Data
    <3> QED
      BY <3>1, <3>2, <3>3, OwnBoard
  <2>6. CASE pc \notin Waiting
    <3>1. line = <<>> /\ rx = <<>>
      BY <2>6 DEF FInv, Exchange
    <3>2. line' = <<>> /\ rx' = <<>>
      BY <3>1, OwnBoard
    <3> QED
      BY <1>6, <2>6, <3>2 DEF Exchange
  <2> QED
    BY <2>5, <2>6
<1>11. Placed' /\ DoneFit'
  BY <1>6, <1>7 DEF FInv, Placed, DoneFit, Identified
<1>12. ReadBack'
  BY <1>4, <1>6, <1>7 DEF FInv, ReadBack
<1>13. DoneSectionsWhole'
  <2>1. CASE pc \in {"erase_ack", "write_ack"}
    <3> SUFFICES ASSUME request.verify, NEW i \in Requested \ todo,
                        NEW s \in Sectors \cap Region(RunOrder[i], request.bImage,
                                                      request.length[Option(RunOrder[i])])
                 PROVE  flash'[s] = Option(RunOrder[i])
      BY <1>6, <1>7 DEF DoneSectionsWhole
    <3>1. flash[s] = Option(RunOrder[i])
      BY DEF FInv, DoneSectionsWhole, Identified
    <3>2. s \notin Extent(Own.first, Own.count)
      BY <2>1, OwnIsInside, DoneIsApart
    <3> QED
      BY <1>3, <3>1, <3>2
  <2>2. CASE pc \notin {"erase_ack", "write_ack"}
    BY <1>4, <1>6, <1>7, <2>2 DEF FInv, DoneSectionsWhole
  <2> QED
    BY <2>1, <2>2
<1> QED
  BY <1>8, <1>9, <1>10, <1>11, <1>12, <1>13 DEF Shape
-------------------------------------------------------------------------------
LEMMA FInvStep == RequestAssumption /\ FInv /\ [Next]_vars => FInv'
<1> SUFFICES ASSUME RequestAssumption, FInv, [Next]_vars PROVE FInv'
  OBVIOUS
<1>1. CASE OpenInterface \/ HostStep \/ Kill \/ KillMidCommand
  BY <1>1, HostTypes, HostShape DEF FInv, Shape
<1>2. CASE Board
  <2>1. Shape'
    <3>1. pc \in Ended \/ pc \in {"opened", "version"} \/ Identified
      BY DEF FInv, FlashTypeOK, Identified, Session
    <3> QED
      BY <1>2, <3>1, RestingBoard, OpeningBoard, IdentifiedBoard
  <2> QED
    BY <1>2, <2>1, BoardTypes DEF FInv, Shape
<1>3. CASE UNCHANGED vars
  <2>1. UNCHANGED <<flash, line, rx, fw, rate, pc, request, todo, sector, same>>
    BY <1>3 DEF vars, host
  <2>2. FlashTypeOK' /\ AtRest' /\ RateAgreed'
    BY <2>1 DEF FInv, FlashTypeOK, AtRest, RateAgreed, Identified
  <2>3. Opening'
    BY <2>1 DEF FInv, Opening, Spoilt, Clean, Unanswered, Requested
  <2>4. /\ Requested' = Requested /\ Section' = Section /\ Length' = Length /\ Emmc' = Emmc
        /\ Address' = Address /\ SectorCount(Length)' = SectorCount(Length) /\ File' = File
        /\ TooLarge(Section, Length)' = TooLarge(Section, Length)
    BY <2>1, SamePlace DEF SectorCount, TooLarge
  <2>5. WriteAddress' = WriteAddress /\ WriteCount' = WriteCount /\ ReadCount' = ReadCount
    BY <2>1, <2>4 DEF WriteAddress, WriteCount, ReadCount, AtMost
  <2>6. Own' = Own
    BY <2>1, <2>4, <2>5 DEF Own, Opcode, Command
  <2>7. Found(Extent(Address + sector, ReadCount) \cap Sectors)' =
           Found(Extent(Address + sector, ReadCount) \cap Sectors)
    BY <2>1, <2>4, <2>5 DEF Found, Extent
  <2>8. Exchange'
    BY <2>1, <2>6, <2>7 DEF FInv, Exchange, Identified, Data
  <2>9. Placed' /\ DoneFit' /\ ReadBack' /\ DoneSectionsWhole'
    BY <2>1, <2>4 DEF FInv, Placed, DoneFit, ReadBack, DoneSectionsWhole, Identified
  <2> QED
    BY <2>2, <2>3, <2>8, <2>9 DEF FInv
<1> QED
  BY <1>1, <1>2, <1>3 DEF Next, Board

LEMMA FInvInit == RequestAssumption /\ Init => FInv
  BY DEF Init, FInv, FlashTypeOK, AtRest, Opening, RateAgreed, Exchange, Placed, DoneFit,
     ReadBack, DoneSectionsWhole, Identified, Session, Ended, Waiting, Contents

\* The variables keep their types, and the firmware, when it is busy, has the command it
\* executes; addresses and counts that the host sends never become negative.
THEOREM FlashTypes == Spec => []FlashTypeOK
<1>1. FInv => FlashTypeOK
  BY DEF FInv
<1> QED
  BY <1>1, FInvInit, FInvStep, RequestAssumption, PTL DEF Spec

\* A session that gets past the identification talks to the board at the rate it listens
\* to, whatever earlier sessions have set or left on the line (set_baudrate, identify).
THEOREM RatesAgree == Spec => []RateAgreed
<1>1. FInv => RateAgreed
  BY DEF FInv
<1> QED
  BY <1>1, FInvInit, FInvStep, RequestAssumption, PTL DEF Spec

\* A session that verifies keeps every section it has programmed whole, to its end and
\* after it has reported success (program_storage, _program_file).
THEOREM DoneStaysWhole == Spec => []DoneSectionsWhole
<1>1. FInv => DoneSectionsWhole
  BY DEF FInv
<1> QED
  BY <1>1, FInvInit, FInvStep, RequestAssumption, PTL DEF Spec

LEMMA OnlyItsSectionStep ==
    ASSUME RequestAssumption, FInv, [Next]_vars, Identified,
           NEW s \in Sectors, flash'[s] # flash[s]
    PROVE  todo # {} /\ s \in Reserved(Section, request.bImage)
<1>1. Identified
  BY DEF Identified
<1>2. CASE Board
  BY <1>1, <1>2, OwnBoard, OwnIsInside
<1>3. CASE KillMidCommand
  <2>1. ReadyToWrite /\ pc = "erase" /\ flash' = Program(WriteAddress, WriteCount, "torn")
    BY <1>3 DEF KillMidCommand, ReadyToWrite
  <2>2. s \in Extent(WriteAddress, WriteCount)
    BY <2>1 DEF Program
  <2> QED
    BY <1>1, <2>1, <2>2, WriteCovers, Counts
<1>4. CASE OpenInterface \/ HostStep \/ Kill \/ UNCHANGED vars
  BY <1>4 DEF OpenInterface, Opens, HostStep, Kill, GetFwVersion, VerifyFwVersion,
     GetJedecId, JedecId, ProgramStorage, Done, Erase, EraseAck, Write, NothingToWrite,
     WriteAck, Read, ReadData, Validate, Timeout, vars
<1> QED
  BY <1>2, <1>3, <1>4 DEF Next, Board

\* From the identification on, the flash changes in the section that is programmed and
\* nowhere else, also when the board is reset, or the host killed, within a command.
THEOREM OnlyTheSectionChanges == Spec => OnlyItsSection
<1> DEFINE Only == Identified =>
                     \A s \in Sectors : flash'[s] # flash[s] =>
                        todo # {} /\ s \in Reserved(Section, request.bImage)
<1>1. RequestAssumption /\ FInv /\ [Next]_vars => Only
  BY OnlyItsSectionStep
<1>2. FInv /\ [Next]_vars => [Only]_vars
  BY <1>1, RequestAssumption
<1>3. OnlyItsSection <=> [][Only]_vars
  BY DEF OnlyItsSection
<1> QED
  BY <1>2, <1>3, FInvInit, FInvStep, RequestAssumption, PTL DEF Spec

LEMMA AcceptsOwn ==
    ASSUME RequestAssumption, FInv, [Next]_vars, Accepts
    PROVE  fw # "busy" /\ Len(line) = 0 /\ Len(rx') = 0
<1>1. /\ pc \in {"erase_ack", "write_ack", "read_data"} /\ pc' # pc /\ pc' \notin Ended
      /\ Identified /\ pc \in Waiting
  BY DEF Accepts, Session, Waiting, Ended, Identified
<1>2. ~Board
  BY <1>1, BoardLeavesHost DEF host
<1>3. rx # <<>> /\ rx' = Tail(rx)
  BY <1>1, <1>2 DEF Next, vars, host, Board, OpenInterface, Opens, HostStep, Kill,
     KillMidCommand, End, Ended,
     GetFwVersion, VerifyFwVersion, GetJedecId, JedecId, ProgramStorage, Done, Erase, EraseAck,
     Write, ReadyToWrite, NothingToWrite, WriteAck, Read, ReadData, Validate, Timeout
<1>4. line = <<>> /\ Len(rx) = 1 /\ rx \in Seq(Answers)
  BY <1>1, <1>3 DEF FInv, Exchange, FlashTypeOK
<1>5. Len(rx') = 0
  BY <1>3, <1>4, HeadTailProperties
<1>6. fw # "busy"
  BY <1>4 DEF FInv, FlashTypeOK
<1>7. Len(line) = 0
  BY <1>4
<1> QED
  BY <1>5, <1>6, <1>7

\* The host never takes the answer to an earlier command for the one it waits for
\* (erase, write, read).
THEOREM AnswersAreOwn == Spec => AnswerIsOwn
<1> DEFINE Own0 == Accepts => fw # "busy" /\ Len(line) = 0 /\ Len(rx') = 0
<1>1. RequestAssumption /\ FInv /\ [Next]_vars => Own0
  BY AcceptsOwn
<1>2. FInv /\ [Next]_vars => [Own0]_vars
  BY <1>1, RequestAssumption
<1>3. AnswerIsOwn <=> [][Own0]_vars
  BY DEF AnswerIsOwn
<1> QED
  BY <1>2, <1>3, FInvInit, FInvStep, RequestAssumption, PTL DEF Spec
-------------------------------------------------------------------------------
(* A session is one of FlashStore.                                             *)

\* What FlashStore says of a section is what UartFlash does.
LEMMA SameSections ==
    /\ \A r : FS!Asked(r) = {i \in DOMAIN RunOrder : Option(RunOrder[i]) \in DOMAIN r.length}
    /\ \A i : FS!Length(i) = request.length[Option(RunOrder[i])]
    /\ \A i : FS!RunOrder[i] = RunOrder[i] /\ FS!Option(RunOrder[i]) = Option(RunOrder[i])
    /\ \A section, b : FS!Reserved(section, b) = Reserved(section, b)
    /\ \A section, b, length : FS!Region(section, b, length) = Region(section, b, length)
    /\ \A section, length : FS!TooLarge(section, length) = TooLarge(section, length)
    /\ FS!RunOrder = RunOrder
  BY DEF FS!Asked, FS!Length, FS!RunOrder, RunOrder, FS!Option, Option, FS!Reserved, Reserved,
     FS!Region, Region, FS!TooLarge, TooLarge, FS!Extent, Extent, FS!Start, Start,
     FS!StorageOffset, StorageOffset, FS!SectionSize, SectionSize, FS!SectorCount, SectorCount,
     FS!QSPI_SECTOR_SIZE, QSPI_SECTOR_SIZE, FS!STORAGE_A_IMAGE_OFFSET, STORAGE_A_IMAGE_OFFSET,
     FS!STORAGE_B_IMAGE_OFFSET, STORAGE_B_IMAGE_OFFSET

LEMMA StatusIs ==
    /\ pc \in {"opened", "version"} => Status = "opening" /\ ~Identified
    /\ Identified => Status = "programming" /\ ~Pending
    /\ pc \in Ended => Status = pc /\ ~Identified
    /\ ~Identified => (Pending <=> Reaches(line))
    /\ Pending \in BOOLEAN
  BY DEF Status, Identified, Session, Ended, Waiting, Pending

LEMMA CurrentIsMin ==
    ASSUME RequestAssumption, FInv, Identified, todo # {}
    PROVE  FS!Current(Min(todo)) /\ Min(todo) \in DOMAIN RunOrder
<1>1. todo \subseteq DOMAIN RunOrder /\ DOMAIN RunOrder \subseteq Nat
  BY DEF FInv, FlashTypeOK, RunOrder
<1> QED
  BY <1>1, MinIsMember DEF FS!Current

LEMMA SectionIsWork ==
    ASSUME RequestAssumption, FInv, Identified, todo # {},
           NEW s \in Sectors, s \in Reserved(Section, request.bImage)
    PROVE  s \in FS!Work
<1>1. FS!Current(Min(todo)) /\ Min(todo) \in todo
  BY CurrentIsMin DEF FS!Current
<1>2. s \in FS!Reserved(FS!RunOrder[Min(todo)], request.bImage)
  BY SameSections DEF Section
<1> QED
  BY <1>1, <1>2, StatusIs DEF FS!Work

\* A step that leaves alone what FlashStore sees.
LEMMA Stutters ==
    ASSUME UNCHANGED <<flash, request, todo>>, Status' = Status, Pending' = Pending
    PROVE  UNCHANGED FS!vars
  BY DEF FS!vars

LEMMA NothingChanges ==
    ASSUME FInv, UNCHANGED flash, NEW sectors
    PROVE  FS!ChangeOnly(sectors)
  BY DEF FInv, FlashTypeOK, FS!ChangeOnly

\* What the host does on its own in a section, and what it completes.
LEMMA GoesOnStutters ==
    ASSUME Identified, Identified', UNCHANGED <<flash, request, todo>>
    PROVE  UNCHANGED FS!vars
<1>1. Status = "programming" /\ Status' = "programming" /\ ~Pending /\ ~Pending'
  BY StatusIs DEF Status, Pending
<1> QED
  BY <1>1, Stutters DEF Pending

LEMMA NextSectionCompletes ==
    ASSUME RequestAssumption, FInv, Identified, pc \in {"erase", "write_ack", "read"}, NextSection,
           UNCHANGED <<flash, request>>,
           request.verify => \A s \in Sectors \cap Region(Section, request.bImage, Length) :
                                flash[s] = File
    PROVE  FS!Next
<1>1. todo # {} /\ ~TooLarge(Section, Length)
  BY DEF FInv, Placed
<1>2. FS!Current(Min(todo)) /\ Min(todo) \in DOMAIN FS!RunOrder
  BY <1>1, CurrentIsMin, SameSections
<1>3. ~FS!TooLarge(FS!RunOrder[Min(todo)], FS!Length(Min(todo)))
  BY <1>1, SameSections DEF Section, Length, File
<1>4. request.verify => FS!Whole(Min(todo))
  BY SameSections DEF FS!Whole, Section, Length, File
<1>5. Identified' /\ todo' = todo \ {Min(todo)}
  BY DEF NextSection, Identified, Session
<1>6. Status = "programming" /\ Status' = "programming" /\ Pending = FALSE /\ Pending' = FALSE
  BY <1>5, StatusIs DEF Status, Pending
<1>7. FS!Complete(Min(todo))
  BY <1>2, <1>3, <1>4, <1>5, <1>6 DEF FS!Complete
<1> QED
  BY <1>2, <1>7 DEF FS!Next

LEMMA FailedFails ==
    ASSUME FInv, End("failed"), request' = request, Session(pc), FS!ChangeOnly(FS!Work),
           pc \in {"opened", "version"} => line' = line
    PROVE  FS!Next
<1>1. pc' = "failed" /\ todo' = {}
  BY DEF End
<1>2. Status' = "failed" /\ (Pending' <=> Reaches(line'))
  BY <1>1 DEF Status, Pending, Identified, Session, Waiting
<1>3. CASE pc \in {"opened", "version"}
  <2>1. Status = "opening" /\ Pending' = Pending
    BY <1>2, <1>3, StatusIs DEF Reaches, Pending
  <2> QED
    BY <1>1, <1>2, <2>1 DEF FS!Fail, FS!Next
<1>4. CASE pc \notin {"opened", "version"}
  <2>1. Status = "programming" /\ Pending' \in BOOLEAN
    BY <1>4, StatusIs DEF Identified, Pending
  <2> QED
    BY <1>1, <1>2, <2>1 DEF FS!Fail, FS!Next
<1> QED
  BY <1>3, <1>4

\* The commands that open a session, and the question for the version, reach nothing.
LEMMA ReachesMore ==
    ASSUME NEW commands \in Seq(Commands), NEW more \in Seq(Commands)
    PROVE  /\ Reaches(commands \o more) <=> Reaches(commands) \/ Reaches(more)
           /\ commands # <<>> => (Reaches(commands) <=>
                 Head(commands).op \in {"erase", "write", "partial"} \/ Reaches(Tail(commands)))
<1>1. /\ commands \o more \in Seq(Commands) /\ Len(commands) \in Nat /\ Len(more) \in Nat
      /\ Len(commands \o more) = Len(commands) + Len(more)
      /\ \A i \in 1..(Len(commands) + Len(more)) :
            (commands \o more)[i] = IF i <= Len(commands) THEN commands[i]
                                    ELSE more[i - Len(commands)]
  BY ConcatProperties, LenProperties
<1>2. /\ DOMAIN (commands \o more) = 1..(Len(commands) + Len(more))
      /\ DOMAIN commands = 1..Len(commands) /\ DOMAIN more = 1..Len(more)
  BY <1>1, LenProperties
<1>3. \A i \in 1..Len(commands) : (commands \o more)[i] = commands[i]
  BY <1>1
<1>4. \A i \in 1..Len(more) : (commands \o more)[Len(commands) + i] = more[i]
  BY <1>1
<1>5. Reaches(commands \o more) => Reaches(commands) \/ Reaches(more)
  BY <1>1, <1>2 DEF Reaches
<1>6. Reaches(commands) => Reaches(commands \o more)
  BY <1>1, <1>2, <1>3 DEF Reaches
<1>7. Reaches(more) => Reaches(commands \o more)
  <2>1. \A i \in 1..Len(more) : Len(commands) + i \in DOMAIN (commands \o more)
    BY <1>1, <1>2
  <2> QED
    BY <1>2, <1>4, <2>1 DEF Reaches
<1>8. ASSUME commands # <<>>
      PROVE  Reaches(commands) <=>
                Head(commands).op \in {"erase", "write", "partial"} \/ Reaches(Tail(commands))
  <2>1. /\ Tail(commands) \in Seq(Commands) /\ Len(Tail(commands)) = Len(commands) - 1
        /\ \A i \in 1..Len(Tail(commands)) : Tail(commands)[i] = commands[i + 1]
        /\ Len(commands) \in Nat \ {0} /\ Head(commands) = commands[1]
    BY <1>8, HeadTailProperties, EmptySeq
  <2>2. DOMAIN Tail(commands) = 1..(Len(commands) - 1)
    BY <2>1, LenProperties
  <2>3. \A i \in 1..Len(commands) : i = 1 \/ (i - 1 \in 1..(Len(commands) - 1) /\
                                               Tail(commands)[i - 1] = commands[i])
    BY <2>1
  <2>4. Reaches(commands) => commands[1].op \in {"erase", "write", "partial"} \/ Reaches(Tail(commands))
    BY <1>2, <2>2, <2>3 DEF Reaches
  <2>5. commands[1].op \in {"erase", "write", "partial"} => Reaches(commands)
    BY <1>2, <2>1 DEF Reaches
  <2>6. Reaches(Tail(commands)) => Reaches(commands)
    BY <1>2, <2>1, <2>2 DEF Reaches
  <2> QED
    BY <2>1, <2>4, <2>5, <2>6
<1> QED
  BY <1>5, <1>6, <1>7, <1>8

LEMMA OpenStep ==
    ASSUME RequestAssumption, FInv, OpenInterface
    PROVE  FS!Next
<1>1. /\ pc \in Ended /\ pc' = "opened" /\ todo' = Requested' /\ flash' = flash
      /\ request' \in Requests /\ Send(OpeningCommands) /\ line \in Seq(Commands)
  BY DEF OpenInterface, Opens, FInv, FlashTypeOK
<1>2. Status \in {"ok", "failed"} /\ Status' = "opening" /\ ~Identified /\ ~Identified'
  BY <1>1, StatusIs DEF Ended, Status, Identified
<1>3. OpeningCommands \in Seq(Commands) /\ ~Reaches(OpeningCommands)
  BY <1>1, OpeningType DEF Reaches, Settings
<1>4. line' = line \/ line' = line \o OpeningCommands
  BY <1>1 DEF Send
<1>5. Reaches(line') <=> Reaches(line)
  <2>1. Reaches(line \o OpeningCommands) <=> Reaches(line)
    BY <1>1, <1>3, ReachesMore
  <2> QED
    BY <1>4, <2>1
<1>6. Pending' = Pending
  BY <1>2, <1>5 DEF Pending
<1>7. todo' = FS!Asked(request')
  BY <1>1, SameSections DEF Requested
<1> QED
  BY <1>1, <1>2, <1>6, <1>7 DEF FS!Open, FS!Next

LEMMA VersionStep ==
    ASSUME RequestAssumption, FInv, GetFwVersion
    PROVE  UNCHANGED FS!vars
<1>1. /\ pc = "opened" /\ pc' = "version" /\ UNCHANGED <<flash, request, todo>>
      /\ Send(<<Opcode("fw_version")>>) /\ line \in Seq(Commands) /\ request \in Requests
  BY DEF GetFwVersion, Goto, FInv, FlashTypeOK
<1>2. Status = "opening" /\ Status' = "opening" /\ ~Identified /\ ~Identified'
  BY <1>1, StatusIs DEF Status, Identified
<1>3. <<Opcode("fw_version")>> \in Seq(Commands)
  BY <1>1, CommandType DEF Opcode
<1>4. ~Reaches(<<Opcode("fw_version")>>)
  BY DEF Reaches, Opcode, Command
<1>5. line' = line \/ line' = line \o <<Opcode("fw_version")>>
  BY <1>1 DEF Send
<1>6. Reaches(line') <=> Reaches(line)
  <2>1. Reaches(line \o <<Opcode("fw_version")>>) <=> Reaches(line)
    BY <1>1, <1>3, <1>4, ReachesMore
  <2> QED
    BY <1>5, <2>1
<1> QED
  BY <1>1, <1>2, <1>6, Stutters DEF Pending

\* Whoever gets past the identification has emptied the line.
LEMMA VerifyStep ==
    ASSUME RequestAssumption, FInv, VerifyFwVersion
    PROVE  FS!Next
<1>1. pc = "version" /\ Len(rx) >= 2 /\ UNCHANGED <<flash, line, request>>
  BY DEF VerifyFwVersion
<1>2. CASE rx[1].kind = "major" /\ rx[2].kind = "minor"
  <2>1. pc' \in {"section", "identified"} /\ todo' = todo
    BY <1>2 DEF VerifyFwVersion, End
  <2>2. Spoilt \/ Clean
    BY <1>1 DEF FInv, Opening
  <2>3. rx # <<>> /\ rx \in Seq(Answers)
    BY <1>1 DEF FInv, FlashTypeOK
  <2>4. line = <<>>
    BY <1>2, <2>2, <2>3 DEF Spoilt, Clean
  <2>5. ~Pending /\ ~Pending'
    BY <1>1, <2>4 DEF Pending, Reaches
  <2>6. Status = "opening" /\ Status' = "programming"
    BY <1>1, <2>1 DEF Status, Identified, Session, Waiting
  <2> QED
    BY <1>1, <2>1, <2>5, <2>6, StatusIs DEF FS!Begin, FS!Next, Pending
<1>3. CASE ~(rx[1].kind = "major" /\ rx[2].kind = "minor")
  <2>1. End("failed") /\ Session(pc)
    BY <1>1, <1>3 DEF VerifyFwVersion, Session, Waiting
  <2> QED
    BY <1>1, <2>1, FailedFails, NothingChanges
<1> QED
  BY <1>2, <1>3

LEMMA DoneStep ==
    ASSUME RequestAssumption, FInv, Done
    PROVE  FS!Next
<1>1. /\ pc = "section" /\ todo = {} /\ UNCHANGED <<flash, request>>
      /\ Send(IF request.jump THEN <<Opcode("jump_bootrom")>> ELSE <<>>)
      /\ pc' = "ok" /\ todo' = {}
  BY DEF Done, End
<1>2. Identified /\ line = <<>>
  BY <1>1 DEF Identified, Session, FInv, Exchange, Waiting
<1>3. line' = <<>> \/ line' = <<Opcode("jump_bootrom")>>
  BY <1>1, <1>2 DEF Send
<1>4. ~Reaches(line')
  BY <1>3 DEF Reaches, Opcode, Command
<1>5. Pending = FALSE /\ Pending' = FALSE
  BY <1>2, <1>4 DEF Pending
<1>6. Status = "programming" /\ Status' = "ok"
  BY <1>1, <1>2, StatusIs DEF Status, Identified, Session, Waiting
<1> QED
  BY <1>1, <1>5, <1>6 DEF FS!Succeed, FS!Next

LEMMA KillStep ==
    ASSUME RequestAssumption, FInv, KillMidCommand
    PROVE  FS!Next
<1>1. /\ pc \in {"erase", "read"} /\ End("failed") /\ request' = request
      /\ \/ flash' = flash
         \/ ReadyToWrite /\ flash' = Program(WriteAddress, WriteCount, "torn")
  BY DEF KillMidCommand
<1>2. Identified /\ Session(pc) /\ pc \notin {"opened", "version"}
  BY <1>1 DEF Identified, Session
<1>3. CASE flash' = flash
  BY <1>1, <1>2, <1>3, FailedFails, NothingChanges
<1>4. CASE ReadyToWrite /\ flash' = Program(WriteAddress, WriteCount, "torn")
  <2>1. flash \in [Sectors -> Contents] /\ "torn" \in Contents
    BY DEF FInv, FlashTypeOK, Contents
  <2>2. flash' \in [Sectors -> Contents]
    BY <1>4, <2>1, ProgramType
  <2>3. \A s \in Sectors : flash'[s] # flash[s] => s \in Extent(WriteAddress, WriteCount)
    BY <1>4 DEF Program
  <2>4. todo # {} /\ Extent(WriteAddress, WriteCount) \subseteq Reserved(Section, request.bImage)
    BY <1>1, <1>2, <1>4, Counts, WriteCovers DEF ReadyToWrite
  <2>5. \A s \in Sectors \ FS!Work : flash'[s] = flash[s]
    BY <1>2, <2>3, <2>4, SectionIsWork
  <2>6. FS!ChangeOnly(FS!Work)
    BY <2>2, <2>5 DEF FS!ChangeOnly
  <2> QED
    BY <1>1, <1>2, <2>6, FailedFails
<1> QED
  BY <1>1, <1>3, <1>4

\* The rest of the host's steps is its own business, or the end of a section.
LEMMA HostStepMaps ==
    ASSUME RequestAssumption, FInv, OpenInterface \/ HostStep \/ Kill \/ KillMidCommand
    PROVE  [FS!Next]_(FS!vars)
<1>1. ASSUME Session(pc), End("failed"), UNCHANGED <<flash, line, request>> PROVE FS!Next
  BY <1>1, FailedFails, NothingChanges
<1>2. CASE Timeout \/ Kill
  BY <1>1, <1>2 DEF Timeout, Kill, Session
<1>3. CASE GetJedecId \/ JedecId \/ Erase \/ Write \/ Read \/ ReadData
  <2>1. UNCHANGED <<flash, request, todo>>
    BY <1>3 DEF GetJedecId, JedecId, Erase, Write, Read, ReadData, Goto
  <2>2. Identified /\ Identified'
    BY <1>3 DEF GetJedecId, JedecId, Erase, Write, ReadyToWrite, Read, ReadData, Goto, Identified,
       Session, Waiting
  <2> QED
    BY <2>1, <2>2, GoesOnStutters
<1>4. CASE ProgramStorage
  <2>1. Identified /\ Session(pc) /\ UNCHANGED <<flash, line, request>>
    BY <1>4 DEF ProgramStorage, Identified, Session
  <2>2. CASE Goto("erase")
    <3>1. Identified' /\ todo' = todo
      BY <2>2 DEF Goto, Identified, Session
    <3> QED
      BY <2>1, <3>1, GoesOnStutters
  <2> QED
    BY <1>1, <1>4, <2>1, <2>2 DEF ProgramStorage
<1>5. CASE EraseAck
  <2>1. Identified /\ Session(pc) /\ UNCHANGED <<flash, line, request>>
    BY <1>5 DEF EraseAck, Identified, Session, Waiting
  <2>2. CASE pc' = "erase" /\ todo' = todo
    <3>1. Identified'
      BY <2>2 DEF Identified, Session
    <3> QED
      BY <2>1, <2>2, <3>1, GoesOnStutters
  <2> QED
    BY <1>1, <1>5, <2>1, <2>2 DEF EraseAck
<1>6. CASE WriteAck
  <2>1. /\ Identified /\ Session(pc) /\ UNCHANGED <<flash, line, request>>
        /\ pc \in {"erase", "write_ack", "read"}
    BY <1>6 DEF WriteAck, Identified, Session, Waiting
  <2>2. CASE pc' \in {"erase", "read"} /\ todo' = todo
    <3>1. Identified'
      BY <2>2 DEF Identified, Session
    <3> QED
      BY <2>1, <2>2, <3>1, GoesOnStutters
  <2>3. CASE ~request.verify /\ NextSection
    BY <2>1, <2>3, NextSectionCompletes
  <2> QED
    BY <1>1, <1>6, <2>1, <2>2, <2>3 DEF WriteAck
<1>7. CASE Validate
  <2>1. /\ Identified /\ Session(pc) /\ UNCHANGED <<flash, line, request>>
        /\ pc \in {"erase", "write_ack", "read"} /\ pc = "read" /\ sector = SectorCount(Length)
    BY <1>7 DEF Validate, Identified, Session
  <2>2. CASE same
    <3>1. \A s \in Extent(Address, SectorCount(Length)) \cap Sectors : flash[s] = File
      BY <2>1, <2>2 DEF FInv, ReadBack
    <3>2. \A s \in Sectors \cap Region(Section, request.bImage, Length) : flash[s] = File
      BY <3>1 DEF Region, Address
    <3>3. NextSection
      BY <1>7, <2>2 DEF Validate
    <3> QED
      BY <2>1, <3>2, <3>3, NextSectionCompletes
  <2> QED
    BY <1>1, <1>7, <2>1, <2>2 DEF Validate
<1>8. CASE NothingToWrite
  BY <1>8, EmptyIsWhole, NextSectionCompletes
<1> QED
  BY <1>2, <1>3, <1>4, <1>5, <1>6, <1>7, <1>8, OpenStep, VersionStep, VerifyStep, DoneStep, KillStep
     DEF HostStep

\* A board that has nothing before it that could reach the flash leaves it alone.
LEMMA HarmlessBoard ==
    ASSUME RequestAssumption, FInv, Board, ~Reaches(line)
    PROVE  flash' = flash /\ ~Reaches(line')
<1>1. /\ line \in Seq(Commands)
      /\ fw = "busy" => line # <<>> /\ Head(line).op \in {"erase", "write"}
  BY DEF FInv, FlashTypeOK
<1>2. line # <<>> => /\ Head(line).op \notin {"erase", "write", "partial"}
                     /\ ~Reaches(Tail(line))
  BY <1>1, ReachesMore
<1>3. fw # "busy"
  BY <1>1, <1>2
<1>4. ~Reaches(<<>>)
  BY DEF Reaches
<1>5. CASE FwAnswers \/ FwSetsRate \/ FwMisses
  BY <1>2, <1>5 DEF FwAnswers, FwSetsRate, FwMisses, Heard
<1>6. CASE FwStarts \/ FwIsLoaded
  BY <1>6 DEF FwStarts, FwIsLoaded
<1>7. CASE BoardResets \/ FwJumps
  BY <1>3, <1>4, <1>7 DEF BoardResets, FwJumps
<1>8. ~FwFinishes /\ ~FwCompletesPartial
  BY <1>2, <1>3 DEF FwFinishes, FwCompletesPartial, Heard
<1> QED
  BY <1>5, <1>6, <1>7, <1>8 DEF Board, FwPrompt

LEMMA BoardStepMaps ==
    ASSUME RequestAssumption, FInv, Board
    PROVE  [FS!Next]_(FS!vars)
<1>1. UNCHANGED <<pc, request, todo>>
  BY BoardLeavesHost DEF host
<1>2. Identified' = Identified /\ Status' = Status
  BY <1>1 DEF Identified, Status
<1>3. flash \in [Sectors -> Contents] /\ flash' \in [Sectors -> Contents]
  BY BoardTypes DEF FInv, FlashTypeOK
<1>4. CASE Identified
  <2>1. \A s \in Sectors : flash'[s] # flash[s] =>
           todo # {} /\ s \in Reserved(Section, request.bImage)
    BY <1>4, OwnBoard, OwnIsInside
  <2>2. FS!ChangeOnly(FS!Work)
    BY <1>3, <1>4, <2>1, SectionIsWork DEF FS!ChangeOnly
  <2>3. Pending = FALSE /\ Pending' = FALSE
    BY <1>2, <1>4 DEF Pending
  <2> QED
    BY <1>1, <1>2, <2>2, <2>3 DEF FS!Change, FS!Next
<1>5. CASE ~Identified /\ Reaches(line)
  <2>1. pc \in {"opened", "version", "failed", "ok"}
    BY <1>5 DEF FInv, FlashTypeOK, Identified, Session, Ended
  <2>2. pc # "ok"
    BY <1>5 DEF FInv, AtRest, Reaches
  <2>3. Status \in {"opening", "failed"}
    BY <1>5, <2>1, <2>2, StatusIs DEF Ended
  <2>4. Pending /\ Pending' \in BOOLEAN
    BY <1>5 DEF Pending
  <2>5. FS!ChangeOnly(Sectors)
    BY <1>3 DEF FS!ChangeOnly
  <2> QED
    BY <1>1, <1>2, <2>3, <2>4, <2>5 DEF FS!Late, FS!Next
<1>6. CASE ~Identified /\ ~Reaches(line)
  <2>1. flash' = flash /\ ~Reaches(line')
    BY <1>6, HarmlessBoard
  <2>2. Pending = FALSE /\ Pending' = FALSE
    BY <1>6, <2>1 DEF Pending
  <2> QED
    BY <1>1, <1>2, <2>1, <2>2, Stutters
<1> QED
  BY <1>4, <1>5, <1>6

LEMMA StoreStep == RequestAssumption /\ FInv /\ [Next]_vars => [FS!Next]_(FS!vars)
<1> SUFFICES ASSUME RequestAssumption, FInv, [Next]_vars PROVE [FS!Next]_(FS!vars)
  OBVIOUS
<1>1. CASE UNCHANGED vars
  <2>1. UNCHANGED <<flash, line, pc, request, todo>>
    BY <1>1 DEF vars, host
  <2>2. Status' = Status /\ Pending' = Pending
    BY <2>1 DEF Status, Pending, Identified, Reaches
  <2> QED
    BY <2>1, <2>2, Stutters
<1> QED
  BY <1>1, HostStepMaps, BoardStepMaps DEF Next, Board

LEMMA StoreInit == RequestAssumption /\ Init => FS!Init
<1> SUFFICES ASSUME RequestAssumption, Init PROVE FS!Init
  OBVIOUS
<1>1. /\ flash \in [Sectors -> Contents] /\ request \in Requests /\ todo = {}
      /\ pc = "failed" /\ line = <<>>
  BY DEF Init, Contents
<1>2. Status = "failed" /\ Pending = FALSE
  BY <1>1, StatusIs DEF Ended, Pending, Reaches
<1> QED
  BY <1>1, <1>2 DEF FS!Init

\* The tools, the serial line and the recovery firmware together are a store that is open
\* to one session at a time, whatever earlier sessions, resets and failed writes leave.
THEOREM SessionsAreStore == Spec => ImplementsFlashStore
<1>1. FInv /\ [Next]_vars => [FS!Next]_(FS!vars)
  BY StoreStep, RequestAssumption
<1>2. Init => FS!Init
  BY StoreInit, RequestAssumption
<1> QED
  BY <1>1, <1>2, FInvInit, FInvStep, RequestAssumption, PTL
     DEF Spec, FS!Spec, ImplementsFlashStore
===============================================================================

-------------------------------- MODULE ScuBlCfg --------------------------------
(* The SCU boot loader configuration as its tools make it: the builder         *)
(* scu_bootloader_config_manager.py, the editor update_scu_bl_cfg.sh and the   *)
(* check verify_file_crc (VerifyFileCrc), one at a time on the same files.     *)
(* Assumption: a CRC is only equal to the CRC of the same bytes, so it is      *)
(* modelled by the bytes it was computed from.                                 *)
EXTENDS VerifyFileCrc, SequencesExt

CONSTANTS
    Paths,          \* files the tools work on
    NoPath,         \* a file that does not exist
    Unknown,        \* no configuration
    Jsons,          \* descriptions for the builder
    Edits,          \* [field, value, index]: arguments of the editor
    Shipped,        \* the valid description one of the files is built from at first
    Padding,        \* bytes that follow the configuration in a dump of the flash
    Cuts,           \* bound: bytes of a copy that is cut short
    MaxUses         \* bound: uses of builder, editor and dump

ASSUME ToolsAssumption ==
    /\ NoPath \notin Paths /\ Shipped \in Jsons /\ Padding \in Seq(0..255)
    /\ Cuts \subseteq Nat /\ MaxUses \in Nat

\* The arguments the usage foresees: a field, and a name or a number, which has digits.
NumberFields == {"boot_image_mode", "boot_max_retries", "last_valid_desc_index", "debug_logs_enabled"}
ASSUME EditsAssumption ==
    \A edit \in Edits :
       /\ edit.field \in {"boot_image_source", "boot_image_offset"} \cup NumberFields
       /\ edit.field = "boot_image_offset" => edit.value \in Seq(0..15)
       /\ edit.field \in NumberFields => edit.value \in Seq(0..9) \ {<<>>}

VARIABLES
    files,          \* path -> [crc: the bytes it was computed from, data: what follows]
    wanted,         \* path -> the configuration it should hold, or Unknown
    made,           \* contents that a build or an edit has completed
    tool,           \* "idle", "build", "copy", "field", "crc"
    job,            \* the arguments of the tool that runs
    uses,
    checked         \* the file verify_file_crc was last called on, or NoPath

checker == <<length, size, crcGood, at, result, checked>>
cfgVars == <<files, wanted, made, tool, job, uses, checker>>

Empty == [crc |-> <<>>, data |-> <<>>]

FirstBytes(data, n) == SubSeq(data, 1, AtMost(n, Len(data)))

\* dd of=... seek=offset conv=notrunc; data begins at byte 4.
Put(data, offset, bytes) ==
    LET first == offset - 3
        last == first + Len(bytes) - 1
    IN  [i \in 1 .. (IF last > Len(data) THEN last ELSE Len(data)) |->
            IF i \in first..last THEN bytes[i - first + 1]
            ELSE IF i <= Len(data) THEN data[i] ELSE 0]
-------------------------------------------------------------------------------
(* The builder.                                                                *)

\* Faulty variant: the structures are packed.
AlignUpPacked(n, alignment) == n

\* Offsets of the ctypes structures: every member is aligned to its size.
AlignUp(n, alignment) == ((n + alignment - 1) \div alignment) * alignment
SIZE == AlignUp(4, 2)
RETRIES == SIZE + 2
DESCRIPTOR_SIZE == AlignUp(4 + 1 + 1, 4)
DESCRIPTORS == AlignUp(RETRIES + 1, 4)
LAST_VALID == DESCRIPTORS + 4 * DESCRIPTOR_SIZE
DEBUG == LAST_VALID + 1
CONFIG_SIZE == AlignUp(DEBUG + 1, 4)

Source == [bootstrap |-> 0, spi_flash |-> 1, uart |-> 2, pcie |-> 3, emmc0 |-> 4, emmc1 |-> 5]
Mode == [normal |-> 0, remote_update |-> 1, image_mode_max |-> 7]

\* Numbers in texts are sequences of digits; offsets are kept as the four bytes of
\* a little-endian word.  Digits beyond the eighth are refused, unless they are zero.
Significant(digits) == SelectInSeq(digits, LAMBDA d : d # 0)
InRange(digits) == Len(digits) <= 8 \/ Significant(digits) \notin 1 .. (Len(digits) - 8)
Digit(digits, n) == IF n < Len(digits) THEN digits[Len(digits) - n] ELSE 0
Word(digits) == [i \in 1..4 |-> 16 * Digit(digits, 2 * i - 1) + Digit(digits, 2 * i - 2)]

\* parse_and_validate_image_descriptors, validate_additional_parameters.
Valid(json) ==
    /\ Len(json.descriptors) = 4
    /\ \A i \in DOMAIN json.descriptors : LET d == json.descriptors[i] IN
          InRange(d.offset) /\ d.source \in DOMAIN Source /\ d.mode \in DOMAIN Mode
    /\ json.retries \in 0..255
    /\ json.last_valid \in 0..3
    /\ json.debug \in BOOLEAN

\* load_config_from_json: the structure, before it has a CRC.
Config(json) ==
    [offset |-> [i \in 0..3 |-> Word(json.descriptors[i + 1].offset)],
     source |-> [i \in 0..3 |-> Source[json.descriptors[i + 1].source]],
     mode |-> [i \in 0..3 |-> Mode[json.descriptors[i + 1].mode]],
     retries |-> json.retries, last_valid |-> json.last_valid,
     debug |-> IF json.debug THEN 1 ELSE 0]

\* Scu_bl_config_C_struct and Image_descriptor_C_struct: the byte at an offset.
ByteAt(config, offset) ==
    LET n == (offset - DESCRIPTORS) \div DESCRIPTOR_SIZE
        k == (offset - DESCRIPTORS) % DESCRIPTOR_SIZE
    IN  CASE offset = SIZE -> CONFIG_SIZE
          [] offset = RETRIES -> config.retries
          [] offset = LAST_VALID -> config.last_valid
          [] offset = DEBUG -> config.debug
          [] offset \in DESCRIPTORS .. (LAST_VALID - 1) /\ k < 4 -> config.offset[n][k + 1]
          [] offset \in DESCRIPTORS .. (LAST_VALID - 1) /\ k = 4 -> config.source[n]
          [] offset \in DESCRIPTORS .. (LAST_VALID - 1) /\ k = 5 -> config.mode[n]
          [] OTHER -> 0

\* create_scu_bl_config_bin_file.
Built(config) ==
    LET data == [i \in 1 .. (CONFIG_SIZE - 4) |-> ByteAt(config, i + 3)]
    IN  [crc |-> data, data |-> data]
-------------------------------------------------------------------------------
(* The editor.                                                                 *)

OfDescriptor == {"boot_image_source", "boot_image_offset", "boot_image_mode"}

EditorOffset(edit) ==
    CASE edit.field = "boot_image_source" -> edit.index * 8 + 12
      [] edit.field = "boot_image_offset" -> edit.index * 8 + 8
      [] edit.field = "boot_image_mode" -> edit.index * 8 + 13
      [] edit.field = "boot_max_retries" -> 6
      [] edit.field = "last_valid_desc_index" -> 40
      [] edit.field = "debug_logs_enabled" -> 41

EditorSource ==
    [bootstrap |-> 0, spi_flash |-> 1, uart |-> 2, pcie |-> 3, emmc0 |-> 4, emmc1 |-> 5]

\* printf "%x" reads a number with a leading zero as octal, up to the first digit that
\* is not.
Octal(digits) == digits[1] = 0
OctalDigits(digits) == ToSet(digits) \subseteq 0..7
Readable(digits) ==
    IF Octal(digits)
    THEN CHOOSE n \in 0 .. Len(digits) : /\ \A i \in 1..n : digits[i] \in 0..7
                                         /\ n < Len(digits) => digits[n + 1] \notin 0..7
    ELSE Len(digits)
Number(digits) ==
    LET base == IF Octal(digits) THEN 8 ELSE 10
        number[n \in 0 .. Len(digits)] == IF n = 0 THEN 0 ELSE base * number[n - 1] + digits[n]
    IN  number[Readable(digits)]

\* printf "\x..." takes the first two hexadecimal digits, and dd one byte.
FirstByte(n) ==
    IF n > 255 THEN n \div 16 ^ (CHOOSE k \in 1..n : n \div 16 ^ k \in 16..255) ELSE n

\* Pairs of digits at fixed places, of which empty ones vanish; for each that is
\* missing printf writes "\x" itself.
PairByte(digits, n) ==
    IF n = Len(digits) THEN digits[n] ELSE 16 * digits[n] + digits[n + 1]
EditedWord(digits) ==
    LET pairs == AtMost((Len(digits) + 1) \div 2, 4)
    IN  [i \in 1..4 |-> IF i <= pairs THEN PairByte(digits, 2 * (pairs - i) + 1)
                        ELSE IF (i - pairs) % 2 = 1 THEN 92 ELSE 120]

\* The tests of update_field, as far as they go: a range is a pattern of digits.
EditorRefuses(edit) ==
    \/ edit.field \in OfDescriptor /\ edit.index \notin 0..3
    \/ edit.field = "boot_image_source" /\ edit.value \notin DOMAIN EditorSource
    \/ edit.field = "boot_image_mode" /\ ~OctalDigits(edit.value)
    \/ /\ edit.field = "boot_max_retries"
       /\ (Octal(edit.value) => OctalDigits(edit.value)) /\ Number(edit.value) > 255
    \/ edit.field = "last_valid_desc_index" /\ ~(ToSet(edit.value) \subseteq 0..3)
    \/ edit.field = "debug_logs_enabled" /\ ~(ToSet(edit.value) \subseteq 0..1)

EditorBytes(edit) ==
    CASE edit.field = "boot_image_source" -> <<EditorSource[edit.value]>>
      [] edit.field = "boot_image_offset" -> EditedWord(edit.value)
      [] OTHER -> <<FirstByte(Number(edit.value))>>
-------------------------------------------------------------------------------
(* What an edit is for: the configuration of a description with that value.  A *)
(* value the usage does not foresee (a number of several digits, a leading     *)
(* zero, an offset that is not written with eight digits) has no such meaning. *)

Plain(edit) ==
    CASE edit.field = "boot_image_source" -> TRUE
      [] edit.field = "boot_image_offset" -> Len(edit.value) = 8
      [] edit.field = "boot_max_retries" -> Len(edit.value) = 1 \/ ~Octal(edit.value)
      [] OTHER -> Len(edit.value) = 1

Edited(config, edit) ==
    CASE edit.field = "boot_image_source" -> [config EXCEPT !.source[edit.index] = Source[edit.value]]
      [] edit.field = "boot_image_offset" -> [config EXCEPT !.offset[edit.index] = Word(edit.value)]
      [] edit.field = "boot_image_mode" -> [config EXCEPT !.mode[edit.index] = edit.value[1]]
      [] edit.field = "boot_max_retries" -> [config EXCEPT !.retries = Number(edit.value)]
      [] edit.field = "last_valid_desc_index" -> [config EXCEPT !.last_valid = edit.value[1]]
      [] edit.field = "debug_logs_enabled" -> [config EXCEPT !.debug = edit.value[1]]
-------------------------------------------------------------------------------
NoJob == [out |-> NoPath]

\* verify_file_crc is not running on anything, and has nothing to say.
Unchecked ==
    /\ length' = 0 /\ size' = 0 /\ crcGood' = FALSE
    /\ at' = "header" /\ result' = "invalid"
    /\ checked' = NoPath

CfgInit ==
    /\ LET first == CHOOSE path \in Paths : TRUE IN
          /\ files = [path \in Paths |->
                        IF path = first THEN Built(Config(Shipped)) ELSE Empty]
          /\ wanted = [path \in Paths |-> IF path = first THEN Config(Shipped) ELSE Unknown]
    /\ made = {Built(Config(Shipped)).data}
    /\ tool = "idle" /\ job = NoJob /\ uses = 0
    /\ Init /\ checked = NoPath

Begin(out, arguments, label) ==
    /\ tool = "idle" /\ result # "running" /\ uses < MaxUses
    /\ uses' = uses + 1
    /\ tool' = label /\ job' = arguments
    /\ wanted' = [wanted EXCEPT ![out] = Unknown]
    /\ Unchecked
    /\ UNCHANGED made

Finish(configuration) ==
    /\ tool' = "idle" /\ job' = NoJob
    /\ wanted' = [wanted EXCEPT ![job.out] = configuration]

\* run() opens the file for writing before the description is read.
StartBuild(json, out) ==
    /\ Begin(out, [out |-> out, json |-> json], "build")
    /\ files' = [files EXCEPT ![out] = Empty]

Build ==
    /\ tool = "build"
    /\ LET file == Built(Config(job.json)) IN
          \/ ~Valid(job.json) /\ Finish(Unknown) /\ UNCHANGED <<files, made>>
          \/ /\ Valid(job.json) /\ Finish(Config(job.json))
             /\ files' = [files EXCEPT ![job.out] = file]
             /\ made' = made \cup {file.data}
    /\ UNCHANGED <<uses, checker>>

\* dd truncates its output before it reads, and does nothing if there is no input.
StartEdit(edit, in, out) ==
    /\ Begin(out, [edit |-> edit, in |-> in, out |-> out,
                   base |-> IF in \in Paths \ {out} THEN wanted[in] ELSE Unknown], "copy")
    /\ files' = IF in = NoPath THEN files ELSE [files EXCEPT ![out] = Empty]

Copy ==
    /\ tool = "copy"
    /\ files' = IF job.in = NoPath THEN files ELSE [files EXCEPT ![job.out] = files[job.in]]
    /\ tool' = "field"
    /\ UNCHANGED <<wanted, made, job, uses, checker>>

\* A value that is refused leaves the copy.
RefuseEdit ==
    /\ tool = "field" /\ EditorRefuses(job.edit)
    /\ Finish(job.base)
    /\ UNCHANGED <<files, made, uses, checker>>

WriteField ==
    /\ tool = "field" /\ ~EditorRefuses(job.edit)
    /\ files' = [files EXCEPT ![job.out].data =
                    Put(@, EditorOffset(job.edit), EditorBytes(job.edit))]
    /\ tool' = "crc"
    /\ UNCHANGED <<wanted, made, job, uses, checker>>

\* Faulty variant: the old CRC is not left out of what the new one covers.
WriteCrcOfAll ==
    /\ tool = "crc"
    /\ files' = [files EXCEPT ![job.out].crc = @ \o files[job.out].data]
    /\ made' = made \cup {FirstBytes(files[job.out].data, CONFIG_SIZE - 4)}
    /\ Finish(IF job.base # Unknown /\ Plain(job.edit) THEN Edited(job.base, job.edit)
                                                      ELSE Unknown)
    /\ UNCHANGED <<uses, checker>>

\* update_scu_bl_cfg_crc: over the whole file, whatever its size field says.
WriteCrc ==
    /\ tool = "crc"
    /\ files' = [files EXCEPT ![job.out].crc = files[job.out].data]
    /\ made' = made \cup {FirstBytes(files[job.out].data, CONFIG_SIZE - 4)}
    /\ Finish(IF job.base # Unknown /\ Plain(job.edit) THEN Edited(job.base, job.edit)
                                                      ELSE Unknown)
    /\ UNCHANGED <<uses, checker>>

\* Between two steps, or in the middle of the copy or of the CRC.
KillTool ==
    /\ tool # "idle"
    /\ \/ UNCHANGED files
       \/ /\ tool = "copy" /\ job.in \in Paths /\ files[job.in] # Empty
          /\ \E n \in Cuts : files' = [files EXCEPT ![job.out] =
                [files[job.in] EXCEPT !.data = FirstBytes(@, n)]]
       \/ tool = "crc" /\ files' = [files EXCEPT ![job.out].crc = <<>>]
    /\ Finish(Unknown)
    /\ UNCHANGED <<made, uses, checker>>

\* A file is read back from the flash, where other bytes follow the configuration.
Dump(path, out) ==
    /\ wanted[path] # Unknown /\ out # path
    /\ tool = "idle" /\ result # "running" /\ uses < MaxUses
    /\ files' = [files EXCEPT ![out] = [files[path] EXCEPT !.data = @ \o Padding]]
    /\ wanted' = [wanted EXCEPT ![out] = Unknown]
    /\ uses' = uses + 1
    /\ Unchecked
    /\ UNCHANGED <<made, tool, job>>

FileLength(file) == IF file = Empty THEN 0 ELSE 4 + Len(file.data)
SizeField(file) ==
    IF Len(file.data) < 2 THEN 0 ELSE file.data[1] + 256 * file.data[2]

\* verify_file_crc is called on a file.
StartCheck(path) ==
    /\ tool = "idle" /\ result # "running"
    /\ length' = FileLength(files[path])
    /\ size' = SizeField(files[path])
    /\ crcGood' = (files[path].crc = FirstBytes(files[path].data, size' - CRC32_SIZE_BYTES))
    /\ at' = "header" /\ result' = "running"
    /\ checked' = path
    /\ UNCHANGED <<files, wanted, made, tool, job, uses>>

CheckStep == Next /\ UNCHANGED <<files, wanted, made, tool, job, uses, checked>>

CfgNext ==
    \/ \E out \in Paths :
          \/ \E json \in Jsons : StartBuild(json, out)
          \/ \E in \in Paths \cup {NoPath}, edit \in Edits : StartEdit(edit, in, out)
          \/ \E path \in Paths : Dump(path, out)
    \/ Build \/ Copy \/ RefuseEdit \/ WriteField \/ WriteCrc \/ KillTool
    \/ CheckStep
    \/ \E path \in Paths : StartCheck(path)

CfgSpec == CfgInit /\ [][CfgNext]_cfgVars
-------------------------------------------------------------------------------
\* The editor knows the layout and the numbers the builder writes: a file that was
\* built and then edited is, CRC included, the file built from the edited description.
EditorAgreesWithBuilder ==
    \A path \in Paths : wanted[path] # Unknown => files[path] = Built(wanted[path])

\* verify_file_crc never refuses what builder and editor have completed.
CompletedIsValid ==
    checked \in Paths /\ wanted[checked] # Unknown => result # "invalid"

\* What it accepts was completed by the builder or by the editor: no file that one of
\* them has left behind when it was killed, has refused a value, has been given the
\* same file twice or a dump of the flash, is taken for a new configuration.
ValidWasCompleted ==
    checked \in Paths /\ result = "valid" =>
        FirstBytes(files[checked].data, size - CRC32_SIZE_BYTES) \in made
===============================================================================

# Formal model of meta-hailo-soc

TLA+ specifications, TLC runs and TLAPS proofs for the programs of this Yocto layer that have
a state of their own: the scripts that update a Hailo-15 board in the field, the check they
rely on, and the tools that guard the programming of a board.

Paths below are relative to the repository.  `RS` stands for
`meta-hailo-bsp-examples/hailo-swupdate/recipes-bsp/run-swupdate-script/files`, `BT` for
`meta-hailo-bsp/hailo15_board_tools/hailo15_board_tools`.

## 1. The system and its parts

Most of the repository is build input: recipes, machine configuration, kernel fragments and
vendored patches.  The programs are few, and they meet in the flash of the board:

| sectors (4 KiB) | content | written by |
|---|---|---|
| 0-4 | SCU boot loader | board tools |
| 5, 6 | SCU boot loader configuration, two copies, each with a CRC | board tools, `set_sw_image.sh`, `rcS.swupdate`, `init_scu_bl_config.sh` |
| 7 | device configuration | board tools |
| from 0x8000 | image a: SCU firmware, device tree, certificate, U-Boot environment, SPL | board tools, swupdate |
| from 0x80000 | image b (+0x80000), or U-Boot/TF-A | board tools, swupdate |

The boot loader uses copy 1 of the configuration if its CRC holds, else copy 2, and boots the
image at the offset found there.

| component | state | operations | interacts with |
|---|---|---|---|
| `RS/set_sw_image.sh` | the two copies; five files of fixed names in /tmp; the global `return_value` | verify and repair the pair; write, read back and confirm each copy | calls `verify_file_crc`; called by `run_swupdate.sh` and by hand |
| `RS/verify_file_crc.c` | a file, a temporary file | length checks, CRC | called by `set_sw_image.sh` |
| `RS/get_sw_image.sh` | none; reads copy 1 and the device tree | `--boot`, `--next` | called by `run_swupdate.sh`, `rcS.swupdate` |
| `RS/run_swupdate.sh` | the image that does not run | dual mode: install, then switch; single mode: select remote update, reboot | swupdate, `set_sw_image.sh` |
| `rcS.swupdate` | the images, both copies | install, take the board out of remote update mode, reboot | swupdate, `get_sw_image.sh` |
| `sw-description`, `resize_rootfs.sh`, `init_scu_bl_config.sh` | flash, eMMC partitions | handlers of swupdate | called by swupdate |
| lock of `BT/uart_flash_mmc_programming.sh` and `hailo-dma-usage.sh` | the lock file, its inode, descriptor 200, which children inherit | flock, removal, signal handler | other invocations |
| `RS/update_scu_bl_cfg.sh`, `scu_bootloader_config_manager.py` | a configuration file | copy, set one field, recompute the CRC; build | produce what `verify_file_crc` checks and `set_sw_image.sh` writes |
| `BT/storage_programmers/storage_manager.py` and the programs on top | flash sections | check the size, erase, write, verify | a programmer (UART, FTDI, eMMC) |
| `BT/storage_programmers/uart_recovery_manager.py`, `BT/hailo15_emmc_program.py` | a serial stream, its baud rate | opcode protocol with acknowledgements and a 2 s read timeout; flash and eMMC programmer | recovery firmware |
| `BT/uart_boot_fw_loader.py` | RAM regions, a serial stream | four transactions with checksums | boot ROM |
| `BT/uart_flash_mmc_programming.sh` and `.py` | the board being programmed; a pipe | a fixed sequence of steps, some open loop; a wrapper that prints the output | loader, flash program, U-Boot, tee |
| secure boot signing scripts | image files | pad, sign, append, strip | openssl |
| `hailo_noc_perf.sh`, `hailo-dma-usage.sh`, DMA copy example | counters, mappings | configure, sample, release | kernel |

Hard behaviours: power may fail between the erase and the program of a block, between the two
copies and between the scripts; reads, writes and `cp` fail and most statuses are not looked
at; files of /tmp have fixed names and nothing excludes a second invocation; a lock file is
removed while others hold it open; lengths are kept in 8 bits; serial reads time out with part
of the data, and what the board has not executed yet waits for the next session; failures are
caught and printed, or lost on the left of `||`; a pipe lives as long as its last holder.
`PROJECT.json` lists each hazard at its line with the properties that cover it.

What makes each part correct:

* configuration switch: a board that boots keeps booting, the choice changes atomically, exit
  status 0 means both copies are written, a half-finished run is repaired by the next one;
* CRC check: nothing truncated is accepted, every legal configuration is;
* update scripts: the image the next boot selects is whole; remote update mode is entered only
  on request and left after the update;
* lock: one owner, never kept by a dead one, nobody refused for nothing;
* configuration editor and builder: an edit gives what the builder would have built, and
  nothing they leave half done passes the check;
* storage tools: sections do not overlap, only the given section is written, success means
  the data was read back; protocol: request and answer stay in step, a failure is reported;
* boot loader of the recovery firmware: only whole files that fit the RAM are sent, and an
  acknowledged block is in the RAM; board update: success means that everything was sent, and
  wrapper, script and tee never wait for each other.

## 2. Modules

| module | models | role |
|---|---|---|
| `BootSelect` | the promise of `set_sw_image.sh`: an atomic register | abstract specification |
| `BootConfig` | `set_sw_image.sh`, command by command | detailed specification |
| `BootConfigProofs` | theorems about `BootConfig` | proofs |
| `SwUpdate`, `SwUpdateProofs` | the life of a board: boot, updates, power cuts; EXTENDS `BootConfig` | composition and proofs |
| `VerifyFileCrc`, `VerifyFileCrcProofs` | `verify_file_crc.c` | specification and proofs |
| `ScuBlCfg`, `ScuBlCfgProofs` | builder and editor of a configuration, and the check on their files; EXTENDS `VerifyFileCrc` | composition and proofs |
| `StorageLayout` | the sections of `storage_manager.py`, the A/B shift and the size check of `program_storage` | operators |
| `FlashStore` | the promise of the flash and eMMC programs: a store that is open to one session at a time; EXTENDS `StorageLayout` | abstract specification |
| `UartFlash`, `UartFlashProofs` | `hailo15_spi_flash_program` over UART, `hailo15_emmc_program`, the serial line and the recovery firmware; EXTENDS `StorageLayout` | composition and proofs, those about the layout too |
| `RecoveryImage` | the file of the recovery firmware, its checks, and its places in the RAM | operators |
| `UartBootLoader`, `UartBootLoaderProofs` | `uart_boot_fw_loader`, the serial line and the boot ROM; EXTENDS `RecoveryImage` | specification and proofs, those about the file too |
| `BoardUpdate`, `BoardUpdateProofs` | `uart_flash_mmc_programming.sh`, its wrapper, the operator; EXTENDS `UartBootLoader` | composition and proofs |
| `LockFile`, `LockFileProofs` | flock on a file that is also removed | specification and proofs |
| `MC...` | sets of model values for TLC | instances |

### BootConfig

`slots` are the two flash blocks, `tmp` the files of /tmp, `pc`/`arg`/`job`/`buf`/
`return_value` an invocation's place, argument, current call of
`write_and_confirm_scu_bl_cfg_file_to_device`, the buffer of `dd` and the global shell variable;
`leftover` is a history variable, which no action reads: did the invocation find files of a killed one.
There is one action per command that touches one of them:

| action | command |
|---|---|
| `Start` | `main`, after the argument check |
| `ReadCfg1`, `ReadCfg2` | the two `dd` of `verify_existing_scu_bl_cfg_validity` |
| `VerifyCfg1`, `CompareCfgs`, `VerifyCfg2` | `verify_file_crc` and `cmp`, and the repair they call for |
| `Cleanup` | `rm` and the return into `write_scu_bl_cfg_bin` |
| `CopyInput`, `Truncate` | `cp` (and the reset of `return_value`), `truncate` |
| `BeginWrite`, `EndWrite` | `dd` to the flash: erase, then program |
| `ReadBack`, `Confirm`, `RemoveTmp` | `dd` back, `cmp`, `rm` and return |
| `Written1`, `Written2` | the tests of the status after each copy |
| `Kill`, `PowerCut` | a signal; power lost, /tmp empty afterwards |

A block is a member of `Cfgs` (its CRC holds), `Torn` (anything that fails it, as an
interrupted write leaves), or `Zeros`.  Two torn blocks may or may not compare equal, so
`CompareCfgs` and `Confirm` take both branches for them.  A file of /tmp can also be `Absent` or `Empty`.
`Faults` says what may fail: the opening of the flash by `dd`, its reads, its writes, and `cp`; a failure is
silent wherever the script does not look at a status.  `dd` opens its input before it truncates its output, so
`ReadSlot` leaves the file as it was when the open fails, and leaves it empty when the read fails.

The first of these matters to a run that finds the files of a killed one: the readback of the earlier run, still in
/tmp, is then compared with the file that should have been written, and the script confirms a write that has not
taken place.  `config_stale` shows it.  Properties that such a run can break are stated for runs that are `Fresh`:
either the flash can always be opened, or no file was left over when the run began.

Assumptions: a copy is one erase sector, as the 4 KiB layout implies; an interrupted block
never passes its CRC; a `dd` that has started to write finishes when the shell is killed; data is in the
flash when `dd` exits (the block device is flushed at close).

### SwUpdate

Adds `mode` (off, Linux, SWUpdate image, dead), the copy that runs, whether each image copy is
whole, and where `run_swupdate.sh` (`up`) and `rcS.swupdate` (`rcs`) are.  `RunDual`,
`SwupdateWrites`, `SwupdateDone`, `SwupdateFails` are dual mode up to the switch, `SetSwImage` is
any step of `BootConfig` for the invocation it starts, `RunSingle` is single mode.  `PostCheck`,
`PostWrite1`, `PostWrite2` are `post_swupdate_modify_scu_bl_cfg_bin`, whose two raw `dd` do not verify anything.
`get_sw_image.sh --next` does not look at the CRC: `NextOutputs` of a torn copy 1 is either
image.  A board whose selected image is broken is dead: the boot loader tries no other.
`RunDual` starts whenever Linux runs and no other update does: `run_swupdate.sh` writes the copy that is not
running and never looks at the one that is selected, so an update may also be repeated after a switch that failed, was
interrupted, or has not been followed by a reboot.  In these cases (`RebootPending`) swupdate rewrites the selected
image in place, and `SelectedStaysWhole` makes an exception of exactly that; line 31 of the script only tells the
operator to reboot.  A remote update installs any list of copies, one after another, as the
kernel command line asks.  The modes `init-scu-bl` and `init-partitions` of `sw-description` and
`init_scu_bl_config.sh` (which `sw-description` does not call) are not modelled.

### VerifyFileCrc

Lengths are numbers, contents are not modelled: whether the CRC agrees is an input.  `Int8` is
the conversion of the `int8_t` that receives the results of `fread` and `fwrite`.

### ScuBlCfg

A file is its data behind the CRC, byte by byte, and the bytes the CRC was computed from; so a CRC
is right exactly when these are the bytes it is compared with, and the reversals and the
polynomial, which `verify_file_crc.c`, the editor and the builder write out three times, are left
out.  `AlignUp` to `CONFIG_SIZE` compute the layout of the builder's ctypes structures, `ByteAt` the byte
at an offset of them; `EditorOffset` has the numbers of the script.  `StartBuild` opens (and empties) the output, `Build` validates
the description and writes it.  `StartEdit`, `Copy`, `RefuseEdit` or `WriteField`, `WriteCrc` are the
editor; `KillTool` stops either of them anywhere, in the middle of a copy too.  Numbers of an edit
are kept as their digits, because the script looks at digits: its ranges are patterns
(`EditorRefuses`), `printf` reads a leading zero as octal (`Number`), `dd` takes the first byte of what
`printf` makes of a large number, of any length (`FirstByte`), and an offset is cut at fixed places (`EditedWord`).
`Plain` says which values the usage foresees; only for these has `wanted` a configuration.  `Dump` is
a file read from the flash (`read_scu_bl_cfg_file_from_device` reads a whole block), with other bytes
behind the configuration: the editor's CRC covers them, the check does not, so the file is refused.
Builder, editor and check run one at a time.

### StorageLayout and UartFlash

`StorageLayout` has the real offsets and sizes, in sectors of 4 KiB, and the order of `run()`.
`UartFlash` is the session of one run: `OpenInterface`, `GetFwVersion` to `JedecId` are
`open_interface` and `identify`; `ProgramStorage`, `Erase`, `EraseAck`, `Write`, `WriteAck`, `Read`,
`ReadData`, `Validate` are `program_storage` and `_program_file` for the section `run()` has come to: `todo`
holds the places in `RunOrder` of those that are left, and its least one is next.  `line`
is what has been sent and not been executed, `rx` what has been answered and not been read.  A
failure of any kind ends the session (`End`), as every exception ends `run()`; the operator may start
another one at once, with the board as the last one left it.  A session with nothing to program is
the check that `uart_boot_fw_loader.py` makes after loading.

`FlashStore` is what all this promises, with no line and no firmware: a session opens (`Open`), begins to own the store
(`Begin`), changes the section it has come to (`Change`) and completes it (`Complete`), and succeeds or fails.
What a failed session has sent may be executed later (`Late`), until the next one begins.

A command is one element of `line`, although the host sends it in up to four writes: a kill between
them (`KillMidCommand`) leaves the element `"partial"`.  Answers of four bytes are one element too; a
host that reads four bytes and meets an acknowledgement of one fails in both views.
The eMMC programmer differs in three ways: nothing is erased, a file is written in blocks of 64 KiB
(`WriteCount`, each acknowledged) and read back in one piece (`ReadCount`), and `set_baudrate` is sent
when another rate is asked for.  Every command carries the rate it is sent at (`rate`), a session
opens at the default one, and the firmware hears nothing at another rate than its own; that garbage
is never taken for a command is an assumption.  The board keeps the rate when the session ends.  The opening
commands of the next one come at the default rate and go unheard; what follows depends on the rate it asks for.  A
slow session fails to identify the board (`RateAgreed`).  A fast one speaks at the rate of the board from its
first question on and identifies it, although its choice of device, instance and partition was not heard: the board
works on with the one of the earlier session.  The sessions of one behaviour are with the same device, so the model
cannot show the difference; that is a limit of it.

A file may be empty, which the tools do not refuse.  A flash then gets an erasure of no sectors and a write of
no bytes, an eMMC gets nothing (`NothingToWrite`), and in both cases the section counts as programmed.  What is read back
of an empty file for an eMMC, no bytes, is left out.

The firmware is outside the repository; it is taken to execute commands in order, and to need
long for erase and write only: it has dealt with everything else before a read of 2 s times
out or a program is started again (`Settled`).  Without that assumption answers of several sessions
could queue up, and the protocol has no sequence number to tell them apart.  Flash that is written
without having been erased is torn; a write may fail and be acknowledged.  Data that a garbled
read returns does not look like the firmware version.

### LockFile

`path` is the inode the file name refers to, `fd` what each invocation has open, `owner` the
lock of each inode.  `Remove` unlinks the path, `Interrupt` ends the subshell that holds the
descriptor and `TrapFunc` is the handler of the outer shell, which unlinks again.  `child` is the inode
a child holds by the descriptor it has inherited: `Exit`, `Interrupt` (for a child that does not die of the
signal at once, as `tee` and `sz`) and `Kill` may leave it behind (`LeaveToChild`), and the lock with it, until `ChildEnds`.

### RecoveryImage, UartBootLoader and BoardUpdate

`RecoveryImage` computes the slices of the file from its length and its header fields, with
Python's silent cutting of slices, and `Accepted` is
`validate_bin_file_and_create_bin_files`.

`UartBootLoader` has the host's place (`at`, `block`), the frames on the line, the answers not read, and
the RAM.  `LoadFile` and `OpenPort` are the beginning of `load_file`, `ReadMagic` its read of whatever
comes first, `WriteHeader`, `HeaderAck`, `WriteData`, `DataAck` one call of `write_to_uart`, `WriteEnd` the
ten zero bytes, `IdentifyFw` and `ReadVersion` the check at the end of `run`.  A wrong or missing
acknowledgement leads to `uploaded`, as `UploadException` is only printed.  `Checksum` is `calc_checksum`,
computed; that of a header stands for its address and length.  The boot ROM is external: it takes a
header and then as many bytes as announced, acknowledges both on a secure chip, and is lost when a
frame is not what it waits for.  The line may lose a frame, replace a byte of it by `Noise`, or spoil a
header.  `ResetToRom` and `PowerOff` may happen at any time.  Assumption on time (`Slept`): where the
host sleeps instead of reading, the board has taken what was sent.  `Leave` forgets what has been
received, because `serial.Serial` clears it when it opens the port.

`BoardUpdate` follows `main` of the script (`step`), the flash of the board as far as the script
changes it, the pipe to the wrapper, tee and the wrapper.  `From` is the line each step prints first,
which blocks while the pipe is full.  `ProgramFlash` is taken by its promise, `FlashStore`: it succeeds
only with the firmware running, and then the files it was given are in the flash; if it fails, `set -e` ends the
script there.  One of these files, the U-Boot environment, is made on the way by `mkenvimage`, whose status nobody
looks at (`storage_manager.py:137`): a success leaves the flash `"new"`, or `"no_env"`, with everything but that.
`booted` is what the flash held when the board last booted from it, and `received` what the U-Boot was booted from
that has acknowledged the image: together they tell whether an update has reached the board it has programmed.
`LoadUboot` goes on whatever `sz` did, because its function stands on the left of `||` and ends with
`sleep`; `LoadLinuxImage` does not.  `Interrupt` is Ctrl-C at the wrapper; `KillWrapper` leaves the script
without a reader (`BrokenPipe`).  `NoUpdate` guards a new update: the wrapper has returned and tee is gone,
as the lock of `LockFile` demands (tee holds its descriptor).

## 3. Runs

| run | instance | shows |
|---|---|---|
| `config_io` | 1 invocation at a time, 3 configurations, failing opens, reads and writes | `TypeOK`, `IInv`, `OkMeansBothWritten`, `NeverBricked`, `Terminates` (fairness) |
| `config_register` | same, nothing fails but kills and power cuts | `ImplementsBootSelect` (refinement), `FailsOnlyIfUnbootable` |
| `config_stale` | opens and writes of the flash may fail | violation: a write that failed is confirmed by the file of a killed run |
| `config_race` | 2 overlapping invocations | violation: one confirms the other's data |
| `update_modes` | dual and single updates, failing writes | `BoardTypeOK`, `SelectedStaysWhole`, `RemoteOnlyOnRequest`, `PostLeavesRemoteMode` |
| `update_livelock` | no failure but power cuts | violation: remote update mode is not left |
| `scu_cfg` | 2 files, 4 descriptions, 14 edits, 2 uses of a tool; lengths and sizes around every limit | `AcceptsOnlyWhole`, `AcceptsSmall`, `EditorAgreesWithBuilder`, `CompletedIsValid`, `ValidWasCompleted` |
| `crc_max` | lengths and sizes around every limit | violation: sizes above 128 are refused |
| `uart_flash` | 7 requests, 2 of them for an eMMC, 2 with an empty file, fairness | `FlashTypeOK`, `DoneSectionsWhole`, `OnlyItsSection`, `RateAgreed`, `AnswerIsOwn`, `ImplementsFlashStore` (refinement), `Terminates` |
| `board_update` | a good file and 3 bad ones, a secure chip, noise, a pipe of one line, fairness | `LoaderTypeOK`, `SendsOnlyWhole`, `AckedIsStored`, `UpdateTypeOK`, `CompletedMeansSent`, `LoaderEnds`, `UpdateEnds` |
| `lock_owner` | 3 invocations, 6 inodes, symmetric | `LockDiesWithOwner`, `RefusedOnlyIfBusy` |
| `lock_double` | 2 invocations, 4 inodes | violation: two invocations in main |

Why the bounds are enough.  The scripts compare configurations for equality and validity only,
so three (old, new and one left by an earlier run, which are also the three files installed
in /etc) tell all cases apart.  Invocations are repeated without limit: every state an earlier one
can leave is a start of the next.  `config_io` starts from every pair of copies, torn ones
included.  `config_race` needs two processes, as any overlap is one of a pair.  The lengths of
`scu_cfg` and `crc_max` lie on both sides of each constant of the code (6, 8, 128, 132, 512, 1024, 4096,
65535).  `uart_flash` follows sectors 5 to 10, 128 and 129: four sections that touch each other and
are not programmed in the order of their addresses, a file that ends in its second sector, one a
byte too large, an empty one, and image b; a garbled command hits sector 5 or 8 (`Strays`); one session may begin
while a command of the last one is pending (`MaxLine`; with room for two the run passes as well and takes twice as
long).  The eMMC file is one byte longer than a block, so that its second block ends in sector 24; an empty one follows it.  The fast
session does not verify and jumps to the boot ROM: a following slow or fast one meets every rate
the board may have.  Inodes are reused once nobody refers to them: an invocation and its child refer to
one each, so twice as many as invocations are enough.

`scu_cfg` begins with one file built and one empty; two uses of a tool cover an edit after a build, an edit of
an edit, a dump that is edited, and each of them killed.  The edits have for each field a value
that is set and, where the script tests one, a value that is refused, and the odd ones: a short
offset, a mode of five digits, `08`, an index of two digits.  The descriptions are a good one, one with
three descriptors, one with an offset of nine digits, and one with 256 retries.

`board_update` has a chip in a secure life cycle, so the loader is started with and without
`--is-secure-chip` (by the script, always without); without secure chip the host hears nothing and the
loader's part is a subset.  The files are a good one, one with a byte too many, one cut in the code, and one
larger than the RAM; a block has one or two bytes, with 0 among them, which `Noise` may turn into 255.  One answer
may wait when the board is reset (`MaxAnswers`), one line fits the pipe, the smallest that can block.

`CHECK_DEADLOCK FALSE` appears for `SwUpdate`, where a dead board does nothing more, for
`VerifyFileCrc`, which ends, and for `ScuBlCfg`, whose uses are bounded.  Everywhere else a deadlock would be an error.

Fairness.  `FairSpec` assumes weak fairness of the steps of each invocation: the shell executes
commands that wait for nobody.  In `UartFlash` it assumes that the host runs and its reads
time out, and that the firmware answers what needs no time; an erase or a write may take for
ever, and the board may be off.  In `BoardUpdate` script, wrapper and loader run, reads time out, `sz`
gives up in the end, the operator presses Enter when asked, and the board takes or loses what is sent to it.
Nothing is assumed of signals, power, resets, or of what the board answers.

The five violations are disagreements between the code and its own words; `PROJECT.json` quotes
the lines.  In short: the readback that a killed run has left in /tmp confirms a write that failed;
overlapping invocations confirm each other's data; a power cut in the wrong place of
`rcS.swupdate` makes it skip the rewriting and start the remote update again, from copy 2;
`verify_file_crc` refuses whole files above 128 bytes (the real one has 44); removing a lock
file that others hold open lets two invocations run.

## 4. Proofs

`BootConfigProofs` holds for every set of configurations, requests and faults, from
`ConstantsAssumption` (the special block values are distinct and are not configurations).

* `TypeCorrect`: `Spec => []TypeOK`, for any number of invocations.
* `InvariantHolds`: `Spec => []IInv`, for one invocation at a time and a `cp` that works, and of
  invocations that are `Fresh`; the three restrictions are necessary.  `config_race` and
  `config_stale` show the first and the last; without a `cp` that works, blocks of zeros are written, read back and
  confirmed with exit status 0, which is what `config_stale` finds with `"cp"` among its `Faults`.
* `OkIsBothWritten`, `BoardStaysBootable`: the exit status and the bootability of the board, under the
  same three restrictions.
* `RefusesOnlyUnbootable`: `FailsOnlyIfUnbootable`, for one invocation at a time.
* `ScriptIsRegister`: `Spec => BS!Spec`, for one invocation at a time, a `cp` that works and flash that can be
  opened and read (writes may fail).  With failing reads it is false: an unreadable copy 1 is taken for an invalid one and overwritten from copy 2.

`IInv` is needed because neither `OkMeansBothWritten` nor `NeverBricked` is inductive.  It says
what a fresh invocation knows at each point: `FileInv` says which files of /tmp do not exist yet, if an open may
fail (`LeftoverStep` is the lemma that `leftover` does not change under a run); `ReadInv` relates the files of /tmp to the slots they were
read from; `JobInv` says that while a slot is being rewritten the other one is valid, and,
without read faults, that it holds what the boot loader used before; `CopyInv` follows the data
through `cp`, `truncate` and `dd` and says that `return_value = 0` after the confirmation implies that
the slot holds the input; `ReturnInv` carries that to the callers.  The proof has one lemma per
group of actions (`VerifyStep`, `CallStep`, `WriteStep`), joined by `InvStep`.  For the
refinement, `EffectiveStep` shows that each step leaves the configuration the boot loader
uses alone or sets it to the requested one, and `RegisterStep` maps each action to a step of
`BootSelect` or a stutter.  `RefusesOnlyUnbootable` adds `Flawless` to `IInv`: as long as nothing has
failed, every command leaves what the next one needs, so the only way to `"fail"` is the
refusal of two invalid copies.

`SwUpdateProofs` proves the four properties of `SwUpdate`, for one `set_sw_image.sh` at a time, a `cp`
that works and flash that can be opened and read; writes may fail.  `BoardInv` conjoins the `IInv` of `BootConfig`
with `Quiet` (no `set_sw_image.sh` without the script that called it, so its assertions do not
reach into the SWUpdate image), `DualInv` (what swupdate writes is the copy that does not run, and the
image switched to is whole) and `RcsInv` (what `rcS.swupdate` has made of the two copies at each step).
Every step of the board is a step of `set_sw_image.sh`, a stutter for it, or one of the raw writes of
`rcS.swupdate` (`ScriptOrPost`); so the lemmas of `BootConfigProofs` carry `IInv` and `EffectiveStep` over.

`VerifyFileCrcProofs` proves `AcceptsOnlyWhole` and `AcceptsSmall` for every length and size field:
narrowing never turns a shorter length into the expected one (`Int8Shrinks`), because it never
exceeds its argument, and it is the identity up to 127.  `Passed` says what each check has established
for the ones after it.

`ScuBlCfgProofs` proves the five properties of `scu_cfg` for any descriptions, edits (any number of digits,
as `EditsAssumption` says), files, padding and kills.  Its first part is about data.  `Layout` evaluates the
alignment, `DescriptorBytes` and `OtherBytes` say what each of the 44 bytes holds, `PutOverwrites` what `dd` writes;
`EditMatches` concludes, field by field, that writing `EditorBytes` at `EditorOffset` into a built file gives the file
built from the edited description (`OneDigit` and `EightDigits` do the script's arithmetic on digits, for the
values that are `Plain`).  `ToolsInv` has three parts.  `FilesOK`: every file that has a meaning is the built
one, and of every file, whole or not, the size field is absent, zero or 44, and its CRC, if it has any, was
computed from bytes that begin with a completed content.  `AtWork`: the file being written means nothing
and is not being checked, and the editor has done to a file with a meaning exactly the steps before its place.
`Checking`: what `verify_file_crc` knows is true of the file as it is now, with `Passed` of `VerifyFileCrcProofs`.
`ValidWasCompleted` needs the strange parts of `FilesOK`: an accepted file has at least 8 bytes by its size
field, hence 44; the CRC agrees with its 40 bytes of data, hence was computed from 40 bytes that begin with a
completed content, and so is one.

`UartFlashProofs` begins with the layout, for the real numbers: the sections of an image do not overlap
(`SectionsDisjoint`), a file that passes the size check is erased and written inside its
section for every length (`RegionInSection`), and image b leaves image a alone but for the
U-Boot/TF-A section, which begins where image b does (`ImageBKeepsImageA`).  Then it proves every safety
property of `UartFlash`, for any requests, sectors, strays and any `MaxLine`: the bound of the run is not needed.
Its `FInv` follows a session.  `Opening` is the crux: until the version is read, either something that
cannot be a version comes first (`Spoilt`: an erase or a write of an earlier session is being executed or
has just been answered), or nothing on the line is answered but the session's own question, the last of all
(`Clean`); so a session that gets past `verify_fw_version` has an empty line, whatever was left on it, and
talks at the rate of the board (`RateAgreed`).  From there `Exchange` keeps command and answer alternating,
`Placed` and `DoneFit` keep the loops inside sections whose files fit, and `ReadBack` says that what has been
compared so far is in the flash; with `SectionsDisjoint` the sections that are done are out of reach
(`DoneSectionsWhole`).  `OnlyItsSection` and `AnswerIsOwn` are action properties that follow from `FInv` step by step.
`SessionsAreStore` puts all this together: `UartFlash` implements `FlashStore`.  The mapping shows the place of the host
as the status of a session (`Status`), and whether a command that can still reach the flash is on the line (`Pending`).
`VerifyFwVersion` is where a session begins to own the store, and by `Clean` nothing is pending then; `NextSection`
completes a section; what the board does between sessions is `Late` as long as something is pending and
a stutter from then on (`HarmlessBoard`); every other step is a change of the current section or a stutter.

`UartBootLoaderProofs` begins with the file: the places of the blocks in the RAM do not overlap
(`RamRegionsDisjoint`) and a file which passes the checks is complete and fits, for every length
and every value of its fields (`AcceptedIsWhole`): comparing one sum of sizes with the length is enough,
although Python cuts slices silently.  `UploadsAreWhole` carries that through the loader
with the invariant `Checked`: from the opening of the port on, the loader works with a
file it has accepted.  The second part is about `calc_checksum`, a recursive function here: it is well
defined (`SumsExist`), and two blocks that differ in one byte and have the same checksum have bytes there
that are equal modulo 255 (`ChecksumDetects`).  Both are proved from a smallest counterexample (`Smallest`),
since the library's induction theorems cannot be instantiated.  With it `AcknowledgedIsStored` proves
`AckedIsStored` for any files, noise, resets and kills: `LInv` says for each place of the loader what may be on
the line and what the boot ROM waits for (`AtHeader`, `AtHeaderAck`, `AtData`, `AtDataAck`, `AtEnd`), so
that an acknowledgement which is accepted can only be the one of the frame just sent.  `AtHeader` is where it could
go wrong: only the first header may meet a boot ROM that still waits for a block of the session before
(`RomIsReady`).  The noise of the model replaces one byte of a frame; two errors in a block can cancel out in any
checksum of two bytes, and nothing is proved about them.

`BoardUpdateProofs` proves the properties of the update for any files, any noise and a pipe of any
size.  `UInv` conjoins `UpdateTypeOK`, `CompletedMeansSent`, `Drained` (a pipe nobody reads is empty), without
which the next update could begin with lines of the last one, and `FromFlash`: after a successful flash program,
the flash holds what it has written, and a board that has booted from flash since runs that.
`UpdateSendsWhole`, `UpdateLoaderTypes` and `UpdateAckedIsStored` are the theorems of `UartBootLoaderProofs` again, for
the specification in which script, operator and signals start and kill the loader, which is the one the run checks:
each step of the update is a step of the loader, leaves it alone, or boots the board from another source
(`UpdateIsLoader`).

`LockFileProofs` proves `LockDiesWithOwner` and `RefusedOnlyIfBusy` for any number of invocations and
inodes.  Its `IInv` says who can own a lock: `RunnerOwns` (a running invocation owns the lock of the inode it
has open), `ChildKeeps` (so does a child that has outlived its invocation) and `Apart` (the two are not the same
inode, so that the end of one does not release what the other holds).

Every invariant and every action property that a passing run checks is the subject of a theorem.  Only
model-checked is liveness (`Terminates` of `BootConfig` and of `UartFlash`, `LoaderEnds`, `UpdateEnds`), which is
beyond the prover.  What `Number` and `EditedWord` compute for numbers the usage does not foresee is not proved
either, and no property depends on it.

## 5. Not modelled

* The CRC and MD5 algorithms, option parsing, prompts, downloads and logging: no property
  depends on them.
* The boot-success register (`hailo_linux_init.sh`): its reader is firmware outside the repository.
* The FTDI programmer: one blocking call after another into `pyftdi` and `spiflash`, which are outside
  the repository, with no state of its own between them.
* The signing scripts, the NoC measurement and the DMA copy example: programs of one pass.
* Recipes, classes, kas files, patches: declarative.
* `spi_flash_program.py`, which takes a file and any offset: it has no sections to keep to.
* `erase_uboot_env_from_flash`, which nobody calls.
* The way `main` of `hailo15_emmc_program.py` gets to its session: it reads an argument, `bit_mode`
  (line 150), that its parser does not define, and hands the file of image b to `run` in the place of
  `jump_to_boot` (lines 157-160).  `UartFlash` models `run` as its parameters name it.
* More than one device in a behaviour of `UartFlash`; its `erase_chip`, which has no method behind it.
* Two runs of the editor or of the check at a time (they share a temporary file), as `config_race` shows
  that hazard for `set_sw_image.sh`.

## 6. Plan

Done: `BootSelect`, `BootConfig`, `SwUpdate`, `VerifyFileCrc`, `ScuBlCfg`, `LockFile`, `StorageLayout`,
`FlashStore`, `UartFlash` with the eMMC programmer, `RecoveryImage`, `UartBootLoader`, `BoardUpdate`; the theorems
of section 4.

Left, in this order:

1. The steps of `verify_file_crc` inside `BootConfig`, for two checks that share the temporary file.
2. `FwImage` (sizes and layout of signed images), `NocPerf` and `DmaMemcopy` (variables and mappings
   that survive an error path).

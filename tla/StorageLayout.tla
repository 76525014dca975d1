----------------------------- MODULE StorageLayout -----------------------------
(* Where StorageManager and Hailo15FlashManager put things in the flash.       *)
(* Offsets and section sizes are in sectors of 4 KiB (every constant of the    *)
(* source is a multiple of one), lengths of files in bytes.                    *)
EXTENDS Integers, Sequences

QSPI_SECTOR_SIZE == 4096

\* The sections in the order in which run() programs them.
RunOrder == <<"scu_fw", "scu_bl", "scu_bl_config_1", "scu_bl_config_2", "uboot_spl",
              "uboot_env", "customer_certificate", "uboot_device_tree",
              "device_config", "uboot_tfa">>

Sections == {RunOrder[i] : i \in DOMAIN RunOrder}

StorageOffset ==
    [scu_bl |-> 0, scu_bl_config_1 |-> 5, scu_bl_config_2 |-> 6, device_config |-> 7,
     scu_fw |-> 8, uboot_device_tree |-> 64, customer_certificate |-> 79,
     uboot_env |-> 80, uboot_spl |-> 84, uboot_tfa |-> 128]

SectionSize ==
    [scu_bl |-> 5, scu_bl_config_1 |-> 1, scu_bl_config_2 |-> 1, device_config |-> 1,
     scu_fw |-> 56, uboot_device_tree |-> 15, customer_certificate |-> 1,
     uboot_env |-> 4, uboot_spl |-> 44, uboot_tfa |-> 256]

STORAGE_A_IMAGE_OFFSET == 8
STORAGE_B_IMAGE_OFFSET == 128

\* What the caller of run() names: the configuration is one file for two sections.
Option(section) ==
    IF section \in {"scu_bl_config_1", "scu_bl_config_2"} THEN "scu_bl_config" ELSE section

Options == {Option(section) : section \in Sections}

\* The first sector of a section; bImage says whether image b is programmed.
Start(section, bImage) ==
    StorageOffset[section] +
        (IF bImage /\ StorageOffset[section] >= STORAGE_A_IMAGE_OFFSET
         THEN STORAGE_B_IMAGE_OFFSET - STORAGE_A_IMAGE_OFFSET ELSE 0)

\* Length of range(0, length, QSPI_SECTOR_SIZE).
SectorCount(length) == (length + QSPI_SECTOR_SIZE - 1) \div QSPI_SECTOR_SIZE

\* The sectors that a command for count sectors at a sector reaches.
Extent(first, count) == first .. (first + count - 1)

Reserved(section, bImage) == Extent(Start(section, bImage), SectionSize[section])

\* The sectors that erase(offset, length) erases.
Region(section, bImage, length) == Extent(Start(section, bImage), SectorCount(length))

TooLarge(section, length) == SectionSize[section] * QSPI_SECTOR_SIZE < length
===============================================================================

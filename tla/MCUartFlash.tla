------------------------------ MODULE MCUartFlash ------------------------------
(* An instance of UartFlash for TLC.                                           *)
EXTENDS UartFlash, TLC

Flash(bImage, verify, length) ==
    [device |-> "flash", rate |-> "slow", jump |-> FALSE,
     bImage |-> bImage, verify |-> verify, length |-> length]
Blocks(baud, jump, verify, length) ==
    [device |-> "emmc", rate |-> baud, jump |-> jump,
     bImage |-> FALSE, verify |-> verify, length |-> length]

\* Sections 5, 6, 7 and 8 touch each other, and the last one is programmed first; a
\* file that ends in its second sector; one a byte too large for its section; image
\* b; and the session of uart_boot_fw_loader, which only identifies the board.  On an
\* eMMC, a file a byte longer than a block, which ends in sector 24.  An empty file.
MCRequests ==
    {Flash(FALSE, verify, "scu_fw" :> 4097 @@ "device_config" :> 6) : verify \in BOOLEAN} \cup
    {Flash(TRUE, TRUE, "scu_bl_config" :> 44 @@ "scu_fw" :> 1),
     Flash(FALSE, TRUE, <<>>), Flash(FALSE, TRUE, "scu_fw" :> 0 @@ "scu_bl_config" :> 4097),
     Blocks("slow", FALSE, TRUE, "scu_fw" :> 65537 @@ "uboot_env" :> 0),
     Blocks("fast", TRUE, FALSE, "device_config" :> 6)}

MCSectors == 5 .. 10 \cup {24} \cup 128 .. 129
MCStrays == {5, 8}
===============================================================================

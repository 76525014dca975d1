------------------------------ MODULE MCScuBlCfg ------------------------------
(* An instance of ScuBlCfg for TLC, and the files of MCVerifyFileCrc.          *)
EXTENDS ScuBlCfg

CONSTANTS bin, out, none

Descriptor(offset, source, mode) == [offset |-> offset, source |-> source, mode |-> mode]
A == Descriptor(<<1, 0, 0, 0, 0>>, "spi_flash", "normal")
B == Descriptor(<<0, 1, 2, 3, 4, 10, 11, 12, 13>>, "emmc1", "remote_update")
Json(descriptors, retries) ==
    [descriptors |-> descriptors, retries |-> retries, last_valid |-> 3, debug |-> TRUE]

MCShipped == Json(<<A, B, A, B>>, 3)
MCJsons == {MCShipped, Json(<<A, A, A>>, 3),
            Json(<<A, B, A, Descriptor(<<1, 0, 0, 0, 0, 0, 0, 0, 0>>, "uart", "normal")>>, 3),
            Json(<<A, B, A, B>>, 256)}

Edit(field, value, index) == [field |-> field, value |-> value, index |-> index]
MCEdits ==
    {Edit("boot_image_source", "emmc0", 0), Edit("boot_image_source", "usb", 0),
     Edit("boot_image_offset", <<0, 0, 0, 8, 0, 15, 1, 2>>, 3),
     Edit("boot_image_offset", <<8, 0, 0, 0, 0>>, 1),
     Edit("boot_image_mode", <<1>>, 2), Edit("boot_image_mode", <<1>>, -1),
     Edit("boot_image_mode", <<7, 0, 0, 0, 0>>, 0),
     Edit("boot_max_retries", <<2, 5, 5>>, -1), Edit("boot_max_retries", <<2, 5, 6>>, -1),
     Edit("boot_max_retries", <<0, 8>>, -1),
     Edit("last_valid_desc_index", <<2>>, -1), Edit("last_valid_desc_index", <<1, 3>>, -1),
     Edit("debug_logs_enabled", <<0>>, -1), Edit("debug_logs_enabled", <<2>>, -1)}

MCPaths == {bin, out}
MCPadding == <<255, 255, 255, 255>>
MCCuts == {0, 1, 20, 39}

Around(S) == UNION {{n - 4, n - 1, n, n + 1, n + 4} : n \in S}
Lengths == 0..12 \cup {44} \cup Around({128, 256, 260, 512, 516, 1024, 1028, 4096})
Sizes == Lengths \cup {2048, 65532, 65535}
===============================================================================

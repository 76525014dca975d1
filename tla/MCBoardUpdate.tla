----------------------------- MODULE MCBoardUpdate -----------------------------
(* An instance of BoardUpdate for TLC.                                         *)
EXTENDS BoardUpdate, TLC

\* The bytes stand for a block; 0 and 255 are equal modulo 255.
File(length, code_size) ==
    [length |-> length, magic |-> TRUE, header_version |-> 0, code_size |-> code_size,
     key_size |-> 4, content_size |-> 4,
     bytes |-> [code |-> <<7, 0>>, header |-> <<1>>, key |-> <<7>>, content |-> <<0>>]]

\* 24 + 8 + 8 + 4 + 4 bytes; one byte too many; cut in the code; too large.
MCFirmware == File(48, 8)
MCFiles == {MCFirmware, File(49, 8), File(30, 8), File(327721, 327681)}
===============================================================================

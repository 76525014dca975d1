---------------------------- MODULE MCVerifyFileCrc ----------------------------
(* Lengths around every limit of verify_file_crc.c: the header, the real        *)
(* configuration (44), the int8_t limits (128, 256, 512, 1024) and 4 KiB.       *)
EXTENDS VerifyFileCrc

Around(S) == UNION {{n - 4, n - 1, n, n + 1, n + 4} : n \in S}
Lengths == 0..12 \cup {44} \cup Around({128, 256, 260, 512, 516, 1024, 1028, 4096})
Sizes == Lengths \cup {2048, 65532, 65535}
===============================================================================

----------------------------- MODULE RecoveryImage -----------------------------
(* The file uart_boot_fw_loader.py loads: a header, the code, a certificate    *)
(* header, a key certificate and a content certificate, and where its blocks   *)
(* go in the RAM of the board.  Sizes are in bytes.                            *)
EXTENDS Integers, Sequences

FIRMWARE_ADDRESS == 131072              \* 0x20000
HEADER_ADDRESS == 557056                \* 0x88000
KEY_CERTIFICATE_ADDRESS == 557080       \* 0x88018
CONTENT_CERTIFICATE_ADDRESS == 558760   \* 0x886a8
MAX_CODE_RAM_SIZE == 327680             \* 0x50000
MAX_KEY_CERTIFICATE_SIZE == 1680        \* 0x690
MAX_CONTENT_CERTIFICATE_SIZE == 1520    \* 0x5F0

HEADER_SIZE == 24               \* six 32-bit fields
CERTIFICATE_HEADER_SIZE == 8    \* two 32-bit fields

\* The blocks in the order in which load_file writes them.
BlockOrder == <<"code", "header", "key", "content">>
Blocks == {"code", "header", "key", "content"}

Address ==
    [code |-> FIRMWARE_ADDRESS, header |-> HEADER_ADDRESS,
     key |-> KEY_CERTIFICATE_ADDRESS, content |-> CONTENT_CERTIFICATE_ADDRESS]

Capacity ==
    [code |-> MAX_CODE_RAM_SIZE, header |-> HEADER_SIZE,
     key |-> MAX_KEY_CERTIFICATE_SIZE, content |-> MAX_CONTENT_CERTIFICATE_SIZE]

RamRegion(block, count) == Address[block] .. (Address[block] + count - 1)

\* What matters of a file: its length, the fields of its two headers, and whether
\* the magic is one of the two known ones.
HasFields(file) ==
    /\ file.length \in Nat /\ file.magic \in BOOLEAN /\ file.header_version \in Nat
    /\ file.code_size \in Nat /\ file.key_size \in Nat /\ file.content_size \in Nat

AtMost(n, m) == IF n <= m THEN n ELSE m

\* The length of the slice data[first:last] of a file.
Slice(file, first, last) == AtMost(last, file.length) - AtMost(first, file.length)

CertificateHeader(file) == HEADER_SIZE + file.code_size
KeyCertificate(file) == CertificateHeader(file) + CERTIFICATE_HEADER_SIZE
ContentCertificate(file) == KeyCertificate(file) + file.key_size

\* The size of each block by the headers, and the length of the slice that is sent.
Declared(file) ==
    [code |-> file.code_size, header |-> HEADER_SIZE,
     key |-> file.key_size, content |-> file.content_size]

BlockStart(file) ==
    [code |-> HEADER_SIZE, header |-> 0,
     key |-> KeyCertificate(file), content |-> ContentCertificate(file)]

BlockLength(file, block) ==
    LET first == BlockStart(file)[block]
    IN  Slice(file, first, first + Declared(file)[block])

\* validate_bin_file_and_create_bin_files raises nothing; from_buffer_copy does when
\* it gets too few bytes.
Accepted(file) ==
    /\ Slice(file, 0, HEADER_SIZE) = HEADER_SIZE
    /\ file.magic /\ file.header_version = 0
    /\ file.code_size <= MAX_CODE_RAM_SIZE
    /\ Slice(file, CertificateHeader(file), KeyCertificate(file)) = CERTIFICATE_HEADER_SIZE
    /\ file.key_size <= MAX_KEY_CERTIFICATE_SIZE
    /\ file.content_size <= MAX_CONTENT_CERTIFICATE_SIZE
    /\ ContentCertificate(file) + file.content_size = file.length

\* Every slice of a file the loader accepts is as long as its header says, and fits
\* the place it goes to; the slices and the certificate header leave no byte out.
WholeAndFits(file) ==
    /\ \A block \in Blocks :
          /\ BlockLength(file, block) = Declared(file)[block]
          /\ BlockLength(file, block) <= Capacity[block]
    /\ file.length = CERTIFICATE_HEADER_SIZE + BlockLength(file, "header")
          + BlockLength(file, "code") + BlockLength(file, "key") + BlockLength(file, "content")
===============================================================================

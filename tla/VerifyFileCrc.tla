----------------------------- MODULE VerifyFileCrc -----------------------------
(* verify_file_crc.c, which set_sw_image.sh asks whether a copy is valid.  The  *)
(* lengths matter, the bytes do not: whether the CRC of the data agrees with    *)
(* the stored one is an input.  The results of fread and fwrite are kept in an  *)
(* int8_t, so a length is compared with its value modulo 2^8.                   *)
EXTENDS Integers

CONSTANTS
    FileLengths,    \* lengths of the file given, in bytes
    SizeFields      \* values of its 16-bit size field

ASSUME LengthsAssumption ==
    FileLengths \subseteq Nat /\ \A s \in SizeFields : s \in Nat /\ s < 65536

VARIABLES
    length,         \* length of the file
    size,           \* its size field, actual_config_size_bytes
    crcGood,        \* the stored CRC is that of the size - 4 bytes after it
    at,             \* the next check
    result          \* "running", "valid" (exit 0) or "invalid" (exit 1)

vars == <<length, size, crcGood, at, result>>

CRC32_SIZE_BYTES == 4
MIN_CONFIG_SIZE_BYTES == 8
MAX_CONFIG_SIZE_BYTES == 4096

AtMost(n, m) == IF n <= m THEN n ELSE m

\* The conversion of a length to int8_t.
Int8(n) == LET m == n % 256 IN IF m < 128 THEN m ELSE m - 256

dataSize == size - CRC32_SIZE_BYTES
-------------------------------------------------------------------------------
Init ==
    /\ length \in FileLengths
    /\ size \in SizeFields
    /\ crcGood \in BOOLEAN
    /\ at = "header"
    /\ result = "running"

Check(here, next, condition) ==
    /\ result = "running" /\ at = here
    /\ IF condition THEN at' = next /\ UNCHANGED result
                    ELSE result' = "invalid" /\ UNCHANGED at
    /\ UNCHANGED <<length, size, crcGood>>

\* Faulty variants, not used by Next: the length fread returns is not looked at;
\* the smallest size is refused; the two CRCs are not compared.
ReadDataUnchecked == Check("read", "write", TRUE)
CheckSizeStrict ==
    Check("size", "read", /\ size % 4 = 0
                          /\ size > MIN_CONFIG_SIZE_BYTES
                          /\ size <= MAX_CONFIG_SIZE_BYTES)
CompareCrcSkipped ==
    /\ result = "running" /\ at = "compare"
    /\ result' = "valid"
    /\ UNCHANGED <<length, size, crcGood, at>>

\* The 4 bytes of the CRC and the 2 bytes of the size.
ReadHeader == Check("header", "size", length >= 6)

CheckSize ==
    Check("size", "read", /\ size % 4 = 0
                          /\ size >= MIN_CONFIG_SIZE_BYTES
                          /\ size <= MAX_CONFIG_SIZE_BYTES)

\* fread counts 4-byte words, fwrite counts bytes.
ReadData ==
    Check("read", "write",
          Int8(AtMost(dataSize, length - CRC32_SIZE_BYTES) \div 4) = dataSize \div 4)

WriteData == Check("write", "compare", Int8(dataSize) = dataSize)

CompareCrc ==
    /\ result = "running" /\ at = "compare"
    /\ result' = IF crcGood THEN "valid" ELSE "invalid"
    /\ UNCHANGED <<length, size, crcGood, at>>

Next == ReadHeader \/ CheckSize \/ ReadData \/ WriteData \/ CompareCrc

Spec == Init /\ [][Next]_vars
-------------------------------------------------------------------------------
\* A file is only accepted when the bytes its CRC covers are all in the file and
\* the CRC agrees: no length aliases another one in the int8_t.
AcceptsOnlyWhole ==
    result = "valid" => crcGood /\ size % 4 = 0 /\ 8 <= size /\ size <= length

\* Every whole configuration of up to 128 bytes with a good CRC is accepted; the
\* real one has 44.
AcceptsSmall ==
    crcGood /\ size % 4 = 0 /\ size \in 8..128 /\ size <= length => result # "invalid"

\* "actual_config_size_bytes ... is not valid (should be aligned to 4 bytes, min
\* %d, max %d)" with max 0x1000 (verify_file_crc.c:80): every aligned size within
\* the limits is accepted if the file is whole and its CRC good.
AcceptsUpToMax ==
    /\ crcGood /\ size % 4 = 0
    /\ size \in MIN_CONFIG_SIZE_BYTES..MAX_CONFIG_SIZE_BYTES /\ size <= length
    => result # "invalid"
===============================================================================

-------------------------- MODULE VerifyFileCrcProofs --------------------------
(* What verify_file_crc.c accepts, for files of every length.                   *)
EXTENDS VerifyFileCrc, TLAPS

\* A length that survives the conversion to int8_t without a sign was not made
\* larger by it.
LEMMA Int8Shrinks ==
  ASSUME NEW n \in Nat, Int8(n) >= 0
  PROVE  Int8(n) <= n
<1>1. n % 256 \in Nat /\ n % 256 <= n
  OBVIOUS
<1> QED
  BY <1>1 DEF Int8

\* The int8_t comparison of fread's result succeeds only if the file holds all
\* the bytes its size field announces.
LEMMA ReadIsWhole ==
  ASSUME NEW s \in Nat, NEW l \in Nat, s % 4 = 0, s >= 8, l >= 6,
         Int8(AtMost(s - 4, l - 4) \div 4) = (s - 4) \div 4
  PROVE  s <= l
<1> DEFINE m == AtMost(s - 4, l - 4)
<1> DEFINE w == m \div 4
<1>1. m \in Nat /\ m <= s - 4 /\ m <= l - 4
  BY DEF AtMost
<1>2. w \in Nat /\ 4 * w <= m
  BY <1>1
<1>3. (s - 4) \div 4 \in Nat /\ 4 * ((s - 4) \div 4) = s - 4
  OBVIOUS
<1>4. (s - 4) \div 4 <= w
  BY <1>2, <1>3, Int8Shrinks
<1> QED
  BY <1>1, <1>2, <1>3, <1>4

\* What each check has established for the ones after it.
Passed ==
    /\ length \in Nat /\ size \in Nat
    /\ at \in {"header", "size", "read", "write", "compare"}
    /\ at # "header" => length >= 6
    /\ at \in {"read", "write", "compare"} => size % 4 = 0 /\ size >= 8
    /\ at \in {"write", "compare"} => size <= length
    /\ result = "valid" => at = "compare" /\ crcGood

\* Each check preserves what the earlier ones have established.
LEMMA PassedStep == Passed /\ [Next]_vars => Passed'
<1> SUFFICES ASSUME Passed, [Next]_vars PROVE Passed'
  OBVIOUS
<1> USE DEF Passed, Check
<1>1. CASE ReadHeader
  BY <1>1 DEF ReadHeader
<1>2. CASE CheckSize
  BY <1>2 DEF CheckSize, MIN_CONFIG_SIZE_BYTES
<1>3. CASE ReadData
  <2>1. at = "read" /\ result = "running"
    BY <1>3 DEF ReadData
  <2>2. at' = "write" => size <= length
    BY <1>3, <2>1, ReadIsWhole DEF ReadData, dataSize, CRC32_SIZE_BYTES
  <2> QED
    BY <1>3, <2>1, <2>2 DEF ReadData
<1>4. CASE WriteData
  BY <1>4 DEF WriteData
<1>5. CASE CompareCrc
  BY <1>5 DEF CompareCrc
<1>6. CASE UNCHANGED vars
  BY <1>6 DEF vars
<1> QED
  BY <1>1, <1>2, <1>3, <1>4, <1>5, <1>6 DEF Next

\* No truncated file and no wrong CRC is accepted, whatever the lengths: the
\* narrow return type rejects good files but never accepts a bad one.
THEOREM OnlyWholeAccepted == Spec => []AcceptsOnlyWhole
<1>1. Init => Passed
  BY LengthsAssumption DEF Init, Passed
<1>2. Passed => AcceptsOnlyWhole
  BY DEF Passed, AcceptsOnlyWhole
<1> QED
  BY <1>1, <1>2, PassedStep, PTL DEF Spec

\* A length that fits in the int8_t is not changed by it.
LEMMA Int8Keeps ==
  ASSUME NEW n \in 0..127
  PROVE  Int8(n) = n
BY DEF Int8

\* No check refuses a whole configuration of up to 128 bytes with a good CRC.
LEMMA SmallStep == Passed /\ AcceptsSmall /\ [Next]_vars => AcceptsSmall'
<1> SUFFICES ASSUME Passed, AcceptsSmall, [Next]_vars,
                    crcGood', size' % 4 = 0, size' \in 8..128, size' <= length'
             PROVE  result' # "invalid"
  BY DEF AcceptsSmall
<1>1. UNCHANGED <<length, size, crcGood>>
  BY DEF Next, ReadHeader, CheckSize, ReadData, WriteData, CompareCrc, Check, vars
<1>2. /\ length \in Nat /\ crcGood /\ size % 4 = 0 /\ size \in 8..128 /\ size <= length
      /\ result # "invalid"
  BY <1>1 DEF Passed, AcceptsSmall
<1>3. (size - 4) \div 4 \in 0..31 /\ size - 4 \in 0..127
  BY <1>2
<1>4. CASE ReadHeader
  BY <1>2, <1>4 DEF ReadHeader, Check
<1>5. CASE CheckSize
  BY <1>2, <1>5 DEF CheckSize, Check, MIN_CONFIG_SIZE_BYTES, MAX_CONFIG_SIZE_BYTES
<1>6. CASE ReadData
  <2>1. AtMost(size - 4, length - 4) = size - 4
    BY <1>2 DEF AtMost
  <2>2. Int8((size - 4) \div 4) = (size - 4) \div 4
    BY <1>3, Int8Keeps
  <2> QED
    BY <1>2, <1>6, <2>1, <2>2 DEF ReadData, Check, dataSize, CRC32_SIZE_BYTES
<1>7. CASE WriteData
  BY <1>2, <1>3, <1>7, Int8Keeps DEF WriteData, Check, dataSize, CRC32_SIZE_BYTES
<1>8. CASE CompareCrc
  BY <1>2, <1>8 DEF CompareCrc
<1>9. CASE UNCHANGED vars
  BY <1>2, <1>9 DEF vars
<1> QED
  BY <1>4, <1>5, <1>6, <1>7, <1>8, <1>9 DEF Next

\* Every whole configuration of up to 128 bytes with a good CRC is accepted: the
\* int8_t of verify_crc32 does no harm up to there, however long the file is.
THEOREM SmallAccepted == Spec => []AcceptsSmall
<1>1. Init => Passed /\ AcceptsSmall
  BY LengthsAssumption DEF Init, Passed, AcceptsSmall
<1> QED
  BY <1>1, PassedStep, SmallStep, PTL DEF Spec
===============================================================================

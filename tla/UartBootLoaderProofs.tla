-------------------------- MODULE UartBootLoaderProofs --------------------------
(* Proofs about UartBootLoader, for any files, bytes and noise.  The first     *)
(* part is about the file, the second one about the checksum.                  *)
EXTENDS UartBootLoader, WellFoundedInduction, SequenceTheorems, TLAPS

\* No block of the firmware, however long within its limit, reaches the place of
\* another one (the addresses and limits of uart_boot_fw_loader.py:11-17).
THEOREM RamRegionsDisjoint ==
    \A b, c \in Blocks : b # c =>
        RamRegion(b, Capacity[b]) \cap RamRegion(c, Capacity[c]) = {}
BY SMT DEF Blocks, RamRegion, Address, Capacity, FIRMWARE_ADDRESS, HEADER_ADDRESS,
   KEY_CERTIFICATE_ADDRESS, CONTENT_CERTIFICATE_ADDRESS, MAX_CODE_RAM_SIZE,
   MAX_KEY_CERTIFICATE_SIZE, MAX_CONTENT_CERTIFICATE_SIZE, HEADER_SIZE

\* A slice inside the file has the length asked for (Python's data[first:last]).
LEMMA SliceInside ==
    ASSUME NEW file, HasFields(file), NEW first \in Nat, NEW count \in Nat,
           first + count <= file.length
    PROVE  Slice(file, first, first + count) = count
BY SMT DEF Slice, AtMost, HasFields

\* The comparison of the sum of the sizes with the length of the file is enough for
\* every slice (validate_bin_file_and_create_bin_files): what is accepted is whole.
THEOREM AcceptedIsWhole ==
    ASSUME NEW file, HasFields(file), Accepted(file)
    PROVE  WholeAndFits(file)
<1> USE DEF HEADER_SIZE, CERTIFICATE_HEADER_SIZE
<1>1. /\ file.length \in Nat /\ file.code_size \in Nat
      /\ file.key_size \in Nat /\ file.content_size \in Nat
    BY DEF HasFields
<1>2. ContentCertificate(file) + file.content_size = file.length
    BY DEF Accepted
<1>3. ASSUME NEW b \in Blocks
      PROVE  BlockLength(file, b) = Declared(file)[b]
  <2> DEFINE first == BlockStart(file)[b]
             count == Declared(file)[b]
  <2>1. first \in Nat /\ count \in Nat /\ first + count <= file.length
      BY <1>1, <1>2, SMT DEF Blocks, BlockStart, Declared, ContentCertificate, KeyCertificate,
                             CertificateHeader
  <2> HIDE DEF first, count
  <2>2. Slice(file, first, first + count) = count
      BY <2>1, SliceInside
  <2> QED
      BY <2>2 DEF BlockLength, first, count
<1>4. \A b \in Blocks : Declared(file)[b] <= Capacity[b]
    BY SMT DEF Accepted, Blocks, Declared, Capacity, MAX_CODE_RAM_SIZE,
       MAX_KEY_CERTIFICATE_SIZE, MAX_CONTENT_CERTIFICATE_SIZE
<1>5. file.length = CERTIFICATE_HEADER_SIZE + Declared(file).header + Declared(file).code
                    + Declared(file).key + Declared(file).content
    BY <1>1, <1>2, SMT DEF Declared, ContentCertificate, KeyCertificate, CertificateHeader
<1>6. "code" \in Blocks /\ "header" \in Blocks /\ "key" \in Blocks /\ "content" \in Blocks
    BY DEF Blocks
<1> QED
    BY <1>3, <1>4, <1>5, <1>6 DEF WholeAndFits
-------------------------------------------------------------------------------
(* The checksum.  Induction on the bytes is done with a smallest counterexample. *)

Below == {p \in Nat \X Nat : p[1] < p[2]}

LEMMA Smallest ==
    ASSUME NEW S, S \subseteq Nat, S # {}
    PROVE  \E n \in S : n = 0 \/ (n \in Nat /\ n - 1 \in Nat /\ n - 1 \notin S)
<1>1. IsWellFoundedOn(Below, Nat)
  BY NatLessThanWellFounded DEF OpToRel, Below
<1>2. PICK n \in S : \A m \in Nat : <<m, n>> \in Below => m \notin S
  BY <1>1, WFMin
<1>3. n = 0 \/ (n - 1 \in Nat /\ <<n - 1, n>> \in Below)
  BY SMT DEF Below
<1> QED
  BY <1>2, <1>3

\* The partial sums.
IsSums(sums, data, n) ==
    sums = [k \in 0..n |-> IF k = 0 THEN <<0, 0>> ELSE Add(sums[k - 1], data[k])]

LEMMA SumsExist ==
    ASSUME NEW data \in Seq(Byte)
    PROVE  \E sums : IsSums(sums, data, Len(data))
<1> DEFINE S == {n \in 0..Len(data) : ~ \E sums : IsSums(sums, data, n)}
<1>0. Len(data) \in 0..Len(data)
  BY SMT
<1> SUFFICES ASSUME S # {} PROVE FALSE
  BY <1>0
<1>1. PICK n \in S : n = 0 \/ (n \in Nat /\ n - 1 \in Nat /\ n - 1 \notin S)
  <2>1. S \subseteq Nat
    BY SMT
  <2> HIDE DEF S
  <2> QED
    BY <2>1, Smallest
<1>2. n # 0
  <2>1. IsSums([k \in 0..0 |-> <<0, 0>>], data, 0)
    BY SMT DEF IsSums
  <2> QED
    BY <2>1
<1>3. PICK f : IsSums(f, data, n - 1)
  BY <1>1, <1>2, SMT
<1> DEFINE g == [k \in 0..n |-> IF k < n THEN f[k] ELSE Add(f[n - 1], data[n])]
<1>5. n \in Nat \ {0}
  BY <1>1, <1>2, SMT
<1>4. IsSums(g, data, n)
  <2>1. \A k \in 0..n : k < n => g[k] = f[k]
    BY <1>5
  <2>2. \A k \in 0..n : g[k] = IF k = 0 THEN <<0, 0>> ELSE Add(g[k - 1], data[k])
    <3> SUFFICES ASSUME NEW k \in 0..n
                 PROVE  g[k] = IF k = 0 THEN <<0, 0>> ELSE Add(g[k - 1], data[k])
      OBVIOUS
    <3>1. CASE k = n
      <4>1. g[n - 1] = f[n - 1] /\ g[n] = Add(f[n - 1], data[n])
        BY <1>5, <2>1
      <4> HIDE DEF g
      <4> QED
        BY <3>1, <4>1, <1>5
    <3>2. CASE k < n
      <4>1. f[k] = IF k = 0 THEN <<0, 0>> ELSE Add(f[k - 1], data[k])
        <5>1. k \in 0 .. n - 1
          BY <1>5, <3>2
        <5>2. f = [j \in 0 .. n - 1 |-> IF j = 0 THEN <<0, 0>> ELSE Add(f[j - 1], data[j])]
          BY <1>3 DEF IsSums
        <5> QED
          BY <5>1, <5>2
      <4>2. g[k] = f[k] /\ (k # 0 => g[k - 1] = f[k - 1])
        BY <1>5, <2>1, <3>2
      <4> HIDE DEF g
      <4> QED
        BY <4>1, <4>2
    <3> QED
      BY <3>1, <3>2, <1>5
  <2>3. g = [k \in 0..n |-> g[k]]
    OBVIOUS
  <2> HIDE DEF g
  <2> QED
    BY <2>2, <2>3 DEF IsSums
<1> QED
  BY <1>1, <1>4

LEMMA ChecksumIsLast ==
    ASSUME NEW data \in Seq(Byte)
    PROVE  \E sums : IsSums(sums, data, Len(data)) /\ Checksum(data) = sums[Len(data)]
<1> DEFINE sums[n \in 0 .. Len(data)] == IF n = 0 THEN <<0, 0>> ELSE Add(sums[n - 1], data[n])
<1>1. Checksum(data) = sums[Len(data)]
  BY DEF Checksum
<1>2. IsSums(sums, data, Len(data))
  BY SumsExist DEF IsSums
<1> QED
  BY <1>1, <1>2

Sums == (0..254) \X (0..254)

LEMMA Remainder == \A x \in Nat : x % 255 \in 0..254
BY SMT

\* x and y are d apart, up to multiples of 255.
Apart(x, y, d) == \E q \in Int : x - y = d + 255 * q

LEMMA Quotient == \A x \in Nat : \E q \in Int : x % 255 = x - 255 * q
BY SMT

LEMMA ApartBegins ==
    ASSUME NEW x \in Nat, NEW y \in Nat, NEW z \in Nat
    PROVE  Apart((x + y) % 255, (x + z) % 255, y - z)
<1>1. PICK u \in Int : (x + y) % 255 = x + y - 255 * u
  BY Quotient
<1>2. PICK v \in Int : (x + z) % 255 = x + z - 255 * v
  BY Quotient
<1>3. ((x + y) % 255) - ((x + z) % 255) = (y - z) + 255 * (v - u)
  BY <1>1, <1>2
<1> SUFFICES \E q \in Int : ((x + y) % 255) - ((x + z) % 255) = (y - z) + 255 * q
  BY DEF Apart
<1> WITNESS v - u \in Int
<1> QED
  BY <1>3

LEMMA ApartRemains ==
    ASSUME NEW x \in Nat, NEW y \in Nat, NEW d \in Int, NEW z \in Nat, Apart(x, y, d)
    PROVE  Apart((x + z) % 255, (y + z) % 255, d)
<1>1. PICK u \in Int : (x + z) % 255 = x + z - 255 * u
  BY Quotient
<1>2. PICK v \in Int : (y + z) % 255 = y + z - 255 * v
  BY Quotient
<1>3. PICK q \in Int : x - y = d + 255 * q
  BY DEF Apart
<1>4. ((x + z) % 255) - ((y + z) % 255) = d + 255 * (q + v - u)
  BY <1>1, <1>2, <1>3
<1> SUFFICES \E r \in Int : ((x + z) % 255) - ((y + z) % 255) = d + 255 * r
  BY DEF Apart
<1> WITNESS q + v - u \in Int
<1> QED
  BY <1>4

LEMMA ApartEnds ==
    ASSUME NEW y \in Byte, NEW z \in Byte, \E x \in Nat : Apart(x, x, y - z)
    PROVE  z % 255 = y % 255
BY SMT DEF Apart, Byte

LEMMA AddType ==
    ASSUME NEW s \in Sums, NEW b \in Byte
    PROVE  Add(s, b) \in Sums /\ Add(s, b)[1] = (s[1] + b) % 255
<1>1. s[1] \in 0..254 /\ s[2] \in 0..254
  BY DEF Sums
<1>2. s[1] + b \in Nat
  BY <1>1, SMT DEF Byte
<1> DEFINE sum1 == (s[1] + b) % 255
<1>3. sum1 \in 0..254
  BY <1>2, Remainder
<1> HIDE DEF sum1
<1>4. sum1 + s[2] \in Nat
  BY <1>1, <1>3, SMT
<1>5. (sum1 + s[2]) % 255 \in 0..254
  BY <1>4, Remainder
<1>6. Add(s, b) = <<sum1, (sum1 + s[2]) % 255>>
  BY DEF Add, sum1
<1>7. Add(s, b)[1] = sum1
  BY <1>6
<1>8. \A x, y \in 0..254 : <<x, y>> \in Sums
  BY DEF Sums
<1>9. Add(s, b) \in Sums
  BY <1>3, <1>5, <1>6, <1>8, Zenon
<1> QED
  BY <1>7, <1>9 DEF sum1

LEMMA ByteDifference == \A x, y \in Byte : x - y \in Int
BY SMT DEF Byte

LEMMA ByteOf ==
    ASSUME NEW data \in Seq(Byte), NEW k \in 1 .. Len(data)
    PROVE  data[k] \in Byte /\ data[k] \in Nat
<1>1. data[k] \in Byte
  BY ElementOfSeq
<1>2. \A x \in Byte : x \in Nat
  BY SMT DEF Byte
<1> QED
  BY <1>1, <1>2, Zenon

LEMMA SumOf == ASSUME NEW s \in Sums PROVE s[1] \in 0..254 /\ s[1] \in Nat
<1>1. s[1] \in 0..254
  BY DEF Sums
<1>2. \A x \in 0..254 : x \in Nat
  BY SMT
<1> QED
  BY <1>1, <1>2, Zenon

LEMMA SumsType ==
    ASSUME NEW data \in Seq(Byte), NEW sums, IsSums(sums, data, Len(data))
    PROVE  \A n \in 0 .. Len(data) : sums[n] \in Sums
<1> DEFINE S == {n \in 0 .. Len(data) : sums[n] \notin Sums}
<1> SUFFICES ASSUME S # {} PROVE FALSE
  OBVIOUS
<1>1. PICK n \in S : n = 0 \/ (n \in Nat /\ n - 1 \in Nat /\ n - 1 \notin S)
  <2>1. S \subseteq Nat
    BY SMT
  <2> HIDE DEF S
  <2> QED
    BY <2>1, Smallest
<1>2. \A k \in 0 .. Len(data) : sums[k] = IF k = 0 THEN <<0, 0>> ELSE Add(sums[k - 1], data[k])
  BY DEF IsSums
<1>3. n # 0
  BY <1>1, <1>2 DEF Sums
<1>4. n \in 1 .. Len(data) /\ n - 1 \in 0 .. Len(data)
  BY <1>1, <1>3
<1>5. sums[n - 1] \in Sums /\ sums[n] = Add(sums[n - 1], data[n]) /\ sums[n] \notin Sums
  BY <1>1, <1>2, <1>4
<1> HIDE DEF S
<1>6. data[n] \in Byte
  BY <1>4, ByteOf
<1>7. Add(sums[n - 1], data[n]) \in Sums
  BY <1>5, <1>6, AddType, Zenon
<1> QED
  BY <1>5, <1>7, Zenon

LEMMA SumsStep ==
    ASSUME NEW data \in Seq(Byte), NEW sums, IsSums(sums, data, Len(data)), NEW k \in 1 .. Len(data)
    PROVE  sums[k] = Add(sums[k - 1], data[k])
<1>1. k \in 0 .. Len(data) /\ k # 0
  BY SMT
<1>2. sums = [j \in 0 .. Len(data) |-> IF j = 0 THEN <<0, 0>> ELSE Add(sums[j - 1], data[j])]
  BY DEF IsSums
<1> QED
  BY <1>1, <1>2

LEMMA ChecksumType ==
    ASSUME NEW data \in Seq(Byte)
    PROVE  Checksum(data) \in Sums
<1>1. Len(data) \in 0 .. Len(data)
  BY SMT
<1> QED
  BY <1>1, ChecksumIsLast, SumsType

LEMMA ChecksumDetects ==
    ASSUME NEW data \in Seq(Byte), NEW i \in DOMAIN data, NEW b \in Byte,
           Checksum([data EXCEPT ![i] = b]) = Checksum(data)
    PROVE  b % 255 = data[i] % 255
<1> DEFINE other == [data EXCEPT ![i] = b]
           L == Len(data)
<1>1. /\ other \in Seq(Byte) /\ Len(other) = L /\ other[i] = b
      /\ \A k \in 1..L : k # i => other[k] = data[k]
  OBVIOUS
<1>2. i \in 1..L /\ L \in Nat /\ data[i] \in Byte
  OBVIOUS
<1>3. PICK s : IsSums(s, data, L) /\ Checksum(data) = s[L]
  BY ChecksumIsLast
<1> HIDE DEF other
<1>4. PICK t : IsSums(t, other, L) /\ Checksum(other) = t[L]
  BY <1>1, ChecksumIsLast
<1>5. \A k \in 0..L : s[k] \in Sums /\ t[k] \in Sums
  BY <1>1, <1>3, <1>4, SumsType
<1>6. \A k \in 1..L : s[k] = Add(s[k - 1], data[k])
  BY <1>3, SumsStep
<1>17. \A k \in 1..L : t[k] = Add(t[k - 1], other[k])
  BY <1>1, <1>4, SumsStep
<1>13. \A k \in 1..L : /\ data[k] \in Byte /\ data[k] \in Nat
                       /\ other[k] \in Byte /\ other[k] \in Nat
  BY <1>1, ByteOf
<1>15. data[i] - b \in Int
  BY <1>2, ByteDifference, Zenon
<1>7. s[0] = t[0]
  BY <1>1, <1>2, <1>3, <1>4 DEF IsSums
<1> HIDE DEF L
\* Before the byte the sums are equal; from there on the first ones differ by as much
\* as the bytes.
<1> DEFINE D(k) == IF k < i THEN s[k] = t[k] ELSE Apart(s[k][1], t[k][1], data[i] - b)
           S == {k \in 0..L : ~D(k)}
<1>8. S = {}
  <2> SUFFICES ASSUME S # {} PROVE FALSE
    OBVIOUS
  <2>1. PICK n \in S : n = 0 \/ (n \in Nat /\ n - 1 \in Nat /\ n - 1 \notin S)
    <3>1. S \subseteq Nat
      BY <1>2, SMT
    <3> HIDE DEF S
    <3> QED
      BY <3>1, Smallest
  <2>2. D(0)
    BY <1>2, <1>7
  <2>3. n \in 1..L /\ n - 1 \in 0..L /\ D(n - 1) /\ ~D(n)
    <3> HIDE DEF D
    <3> QED
      BY <1>2, <2>1, <2>2
  <2>4. s[n] = Add(s[n - 1], data[n]) /\ t[n] = Add(t[n - 1], other[n])
    BY <1>6, <1>17, <2>3
  <2> HIDE DEF S
  <2>5. s[n - 1] \in Sums /\ data[n] \in Byte /\ data[n] \in Nat
    BY <1>2, <1>5, <1>13, <2>3
  <2>12. t[n - 1] \in Sums /\ other[n] \in Byte /\ other[n] \in Nat
    BY <1>2, <1>5, <1>13, <2>3
  <2>6. s[n][1] = (s[n - 1][1] + data[n]) % 255 /\ s[n - 1][1] \in Nat
    <3>1. Add(s[n - 1], data[n])[1] = (s[n - 1][1] + data[n]) % 255
      BY <2>5, AddType, Zenon
    <3>2. s[n - 1][1] \in Nat
      BY <2>5, SumOf, Zenon
    <3> QED
      BY <2>4, <3>1, <3>2, Zenon
  <2>7. t[n][1] = (t[n - 1][1] + other[n]) % 255 /\ t[n - 1][1] \in Nat
    <3>1. Add(t[n - 1], other[n])[1] = (t[n - 1][1] + other[n]) % 255
      BY <2>12, AddType, Zenon
    <3>2. t[n - 1][1] \in Nat
      BY <2>12, SumOf, Zenon
    <3> QED
      BY <2>4, <3>1, <3>2, Zenon
  <2>8. CASE n < i
    <3>1. s[n - 1] = t[n - 1] /\ data[n] = other[n]
      BY <1>1, <1>2, <2>3, <2>8
    <3> QED
      BY <2>3, <2>4, <2>8, <3>1
  <2>9. CASE n = i
    <3>1. s[n - 1] = t[n - 1] /\ other[n] = b
      BY <1>1, <1>2, <2>3, <2>9
    <3>2. Apart((s[n - 1][1] + data[n]) % 255, (s[n - 1][1] + other[n]) % 255, data[n] - other[n])
      BY <2>5, <2>6, <2>12, ApartBegins, Zenon
    <3>3. Apart(s[n][1], t[n][1], data[i] - b)
      BY <2>6, <2>7, <2>9, <3>1, <3>2, Zenon
    <3> QED
      BY <1>2, <2>3, <2>9, <3>3
  <2>10. CASE n > i
    <3>1. other[n] = data[n]
      BY <1>1, <1>2, <2>3, <2>10
    <3>2. Apart(s[n - 1][1], t[n - 1][1], data[i] - b)
      BY <1>2, <2>3, <2>10
    <3>3. Apart((s[n - 1][1] + data[n]) % 255, (t[n - 1][1] + data[n]) % 255, data[i] - b)
      <4>1. s[n - 1][1] \in Nat /\ t[n - 1][1] \in Nat /\ data[n] \in Nat
        BY <2>5, <2>6, <2>7, Zenon
      <4> QED
        BY <1>15, <4>1, <3>2, ApartRemains, Zenon
    <3>4. Apart(s[n][1], t[n][1], data[i] - b)
      BY <2>6, <2>7, <3>1, <3>3, Zenon
    <3> QED
      BY <1>2, <2>3, <2>10, <3>4
  <2> QED
    BY <1>2, <2>3, <2>8, <2>9, <2>10
<1>9. D(L)
  <2>1. L \in 0..L
    BY <1>2, SMT
  <2> HIDE DEF D
  <2> QED
    BY <1>8, <2>1
<1>10. s[L] = t[L]
  BY <1>3, <1>4 DEF other
<1>11. L \in 0..L
  BY <1>2, SMT
<1>12. s[L] \in Sums
  BY <1>5, <1>11
<1>14. s[L][1] \in Nat
  BY <1>12, SumOf, Zenon
<1>16. Apart(s[L][1], s[L][1], data[i] - b)
  BY <1>2, <1>9, <1>10
<1> QED
  <2>1. data[i] \in Byte /\ b \in Byte
    BY <1>2, Zenon
  <2>2. \E x \in Nat : Apart(x, x, data[i] - b)
    BY <1>14, <1>16, Zenon
  <2> QED
    BY <2>1, <2>2, ApartEnds, Zenon
-------------------------------------------------------------------------------
(* The loader.                                                                 *)

\* From the start on the loader works with one of the files, and from the opening of
\* the port on with one it has accepted.
Checked ==
    /\ LoaderRuns => request.file \in Files
    /\ at \in {"open"} \cup Uploading => Accepted(request.file)

LEMMA CheckedStep == Checked /\ [LoaderNext]_loaderVars => Checked'
<1> SUFFICES ASSUME Checked, [LoaderNext]_loaderVars PROVE Checked'
  OBVIOUS
<1> USE DEF Checked, LoaderRuns, LoaderEnded, Uploading, Goto, Leave
<1>1. ASSUME NEW file \in Files, NEW secure \in BOOLEAN, StartLoader(file, secure)
      PROVE  Checked'
  BY <1>1 DEF StartLoader
<1>2. CASE LoadFile
  BY <1>2 DEF LoadFile
<1>3. CASE OpenPort
  BY <1>3 DEF OpenPort
<1>4. CASE ReadMagic
  BY <1>4 DEF ReadMagic
<1>5. CASE WriteHeader
  BY <1>5 DEF WriteHeader
<1>6. CASE HeaderAck
  BY <1>6 DEF HeaderAck
<1>7. CASE WriteData
  BY <1>7 DEF WriteData, NextBlock
<1>8. CASE DataAck
  BY <1>8 DEF DataAck, NextBlock
<1>9. CASE WriteEnd
  BY <1>9 DEF WriteEnd
<1>10. CASE IdentifyFw
  BY <1>10 DEF IdentifyFw
<1>11. CASE ReadVersion
  BY <1>11 DEF ReadVersion
<1>12. CASE Timeout
  BY <1>12 DEF Timeout, Reading
<1>13. CASE KillLoader
  BY <1>13 DEF KillLoader
<1>14. CASE RomStep
  BY <1>14 DEF RomStep, RomHeader, RomData, RomEnd, RomLosesStep, FwAnswers, BoardIgnores,
     Consume, loader
<1>15. CASE ResetToRom
  BY <1>15 DEF ResetToRom, loader
<1>16. CASE PowerOff
  BY <1>16 DEF PowerOff, loader
<1>17. CASE UNCHANGED loaderVars
  BY <1>17 DEF loaderVars, loader
<1> QED
  BY <1>1, <1>2, <1>3, <1>4, <1>5, <1>6, <1>7, <1>8, <1>9, <1>10, <1>11, <1>12, <1>13, <1>14,
     <1>15, <1>16, <1>17 DEF LoaderNext, LoaderStep

\* A file that has been accepted is whole and fits.
LEMMA CheckedIsWhole == Checked => SendsOnlyWhole
<1> SUFFICES ASSUME Checked, at \in Uploading PROVE WholeAndFits(request.file)
  BY DEF SendsOnlyWhole
<1>1. request.file \in Files /\ Accepted(request.file)
  BY DEF Checked, LoaderRuns, LoaderEnded, Uploading
<1>2. HasFields(request.file)
  BY <1>1, LoaderAssumption
<1> QED
  BY <1>1, <1>2, AcceptedIsWhole

\* Whatever the board and the line do, the loader uploads only complete files whose
\* blocks fit their places (validate_bin_file_and_create_bin_files, load_file).
THEOREM UploadsAreWhole == LoaderSpec => []SendsOnlyWhole
<1>1. LoaderInit => Checked
  BY DEF LoaderInit, Checked, LoaderRuns, LoaderEnded, Uploading
<1> QED
  BY <1>1, CheckedIsWhole, CheckedStep, PTL DEF LoaderSpec
-------------------------------------------------------------------------------
(* Types.                                                                      *)

Frames ==
    [kind : {"header", "data", "end", "identify"}, name : Blocks \cup {"spoilt"}, data : Seq(Byte)]

Boards == {"off", "rom", "data", "lost", "recovery"} \cup Systems

\* A port is read only in a session with --is-secure-chip, but for the version of the
\* firmware, and a file begins with its first block.
HostTypes ==
    /\ at \in LoaderEnded \cup Reading \cup Uploading \cup {"start", "open", "uploaded"}
    /\ request.file \in Files /\ request.secure \in BOOLEAN
    /\ block \in 1..4
    /\ at \in {"magic", "header_ack", "data_ack"} => request.secure
    /\ at \in {"start", "open", "magic"} => block = 1
    /\ ~Listening => rx = <<>>

BoardTypes ==
    /\ board \in Boards
    /\ ram \in [Blocks -> Seq(Byte)]
    /\ line \in Seq(Frames)
    /\ rx \in Seq(Answers)

Types == HostTypes /\ BoardTypes

LEMMA Order ==
    /\ DOMAIN BlockOrder = 1..4 /\ Len(BlockOrder) = 4
    /\ \A n \in 1..4 : BlockOrder[n] \in Blocks
    /\ \A m, n \in 1..4 : m # n => BlockOrder[m] # BlockOrder[n]
BY DEF BlockOrder, Blocks

LEMMA TypesSuffice == Types => LoaderTypeOK
BY Order DEF Types, HostTypes, BoardTypes, LoaderTypeOK, Boards

LEMMA One == ASSUME NEW x PROVE Tail(<<x>>) = <<>> /\ Head(<<x>>) = x /\ Len(<<x>>) = 1
OBVIOUS

LEMMA Ends ==
    ASSUME NEW S, NEW q \in Seq(S), q # <<>>
    PROVE  Head(q) \in S /\ Tail(q) \in Seq(S)
OBVIOUS

LEMMA Chosen == (CHOOSE file \in Files : TRUE) \in Files
BY LoaderAssumption, Zenon

LEMMA FileBytes ==
    ASSUME NEW file \in Files, NEW b \in Blocks
    PROVE  file.bytes[b] \in Seq(Byte)
BY LoaderAssumption, Zenon

LEMMA EmptyRam == Nothing \in [Blocks -> Seq(Byte)]
BY DEF Nothing

\* What the board may receive of a frame.
Arriving(kind, name, data) == {Frame(kind, name, data)} \cup Noisy(Frame(kind, name, data))

OneNoised(data, sent) ==
    data = sent \/ \E i \in DOMAIN sent, b \in Noise : data = [sent EXCEPT ![i] = b]

MayArrive(f, kind, name, data) ==
    /\ f = Frame(kind, f.name, f.data)
    /\ f.kind = kind
    /\ f.name = name \/ (kind = "header" /\ f.name = "spoilt")
    /\ OneNoised(f.data, data)

\* What becomes of a frame on the way: its kind remains, only a header loses its name,
\* and at most one byte is another one.
LEMMA Arrives ==
    ASSUME NEW kind, NEW name, NEW data \in Seq(Byte),
           NEW f \in Arriving(kind, name, data)
    PROVE  MayArrive(f, kind, name, data)
<1> USE DEF MayArrive, OneNoised
<1>1. Frame(kind, name, data) = [kind |-> kind, name |-> name, data |-> data]
  BY DEF Frame
<1>2. CASE f = Frame(kind, name, data)
  BY <1>1, <1>2
<1>3. ASSUME NEW i \in DOMAIN data, NEW b \in Noise,
             f = [kind |-> kind, name |-> name, data |-> [data EXCEPT ![i] = b]]
      PROVE  f = Frame(kind, f.name, f.data) /\ f.kind = kind /\ f.name = name
             /\ f.data = [data EXCEPT ![i] = b]
  <2> DEFINE d == [data EXCEPT ![i] = b]
  <2>1. f = [kind |-> kind, name |-> name, data |-> d]
    BY <1>3
  <2> HIDE DEF d
  <2>2. f.kind = kind /\ f.name = name /\ f.data = d
    BY <2>1
  <2> QED
    BY <2>1, <2>2 DEF Frame, d
<1>4. CASE kind = "header" /\ f = [kind |-> kind, name |-> "spoilt", data |-> data]
  BY <1>4 DEF Frame
<1>5. \/ f = Frame(kind, name, data)
      \/ \E i \in DOMAIN data, b \in Noise :
            f = [kind |-> kind, name |-> name, data |-> [data EXCEPT ![i] = b]]
      \/ kind = "header" /\ f = [kind |-> kind, name |-> "spoilt", data |-> data]
  BY <1>1 DEF Noisy, Arriving
<1> QED
  BY <1>2, <1>3, <1>4, <1>5, Zenon

LEMMA ArrivesTyped ==
    ASSUME NEW kind \in {"header", "data", "end", "identify"}, NEW name \in Blocks,
           NEW data \in Seq(Byte),
           NEW f \in Arriving(kind, name, data)
    PROVE  f \in Frames
<1>1. MayArrive(f, kind, name, data)
  BY Arrives
<1>2. \A i \in DOMAIN data, b \in Noise : [data EXCEPT ![i] = b] \in Seq(Byte)
  BY LoaderAssumption
<1>3. f.data \in Seq(Byte)
  BY <1>1, <1>2, Zenon DEF MayArrive, OneNoised
<1>4. f.name \in Blocks \cup {"spoilt"}
  BY <1>1, Zenon DEF MayArrive
<1> QED
  BY <1>1, <1>3, <1>4 DEF MayArrive, Frame, Frames

LEMMA SendTypes ==
    ASSUME line \in Seq(Frames), NEW kind \in {"header", "data", "end", "identify"},
           NEW name \in Blocks, NEW data \in Seq(Byte), Send(Frame(kind, name, data))
    PROVE  line' \in Seq(Frames)
<1>1. PICK f \in Arriving(kind, name, data) : line' \in {line, line \o <<f>>}
  BY DEF Send, Arriving
<1>2. f \in Frames
  BY <1>1, ArrivesTyped
<1>3. line \o <<f>> \in Seq(Frames)
  BY <1>2
<1> QED
  BY <1>1, <1>3

LEMMA ReplyTypes ==
    ASSUME rx \in Seq(Answers), NEW answer \in Answers, Reply(answer)
    PROVE  rx' \in Seq(Answers) /\ (~Listening => rx' = <<>>)
<1>1. rx \o <<answer>> \in Seq(Answers) /\ <<>> \in Seq(Answers)
  OBVIOUS
<1> QED
  BY <1>1 DEF Reply

LEMMA AnswerKinds ==
    /\ Magic \in Answers /\ FwVersion \in Answers /\ Ack(<<"other">>) \in Answers
    /\ \A b \in Blocks : Ack(HeaderSum(b)) \in Answers
    /\ \A sum \in Sums : Ack(sum) \in Answers
BY DEF Answers, Magic, FwVersion, Ack, Sums

\* The host.
LEMMA HostKeepsTypes ==
    ASSUME Types,
           \/ LoaderStep \/ KillLoader
           \/ \E file \in Files, secure \in BOOLEAN : StartLoader(file, secure)
    PROVE  Types'
<1> USE DEF Types
<1>1. board' \in Boards /\ ram' \in [Blocks -> Seq(Byte)]
  BY DEF BoardTypes, LoaderStep, KillLoader, StartLoader, LoadFile, OpenPort, ReadMagic,
     WriteHeader, HeaderAck, WriteData, DataAck, WriteEnd, IdentifyFw, ReadVersion, Timeout
<1>2. Name \in Blocks /\ Bytes \in Seq(Byte) /\ <<>> \in Seq(Byte)
  BY Order, FileBytes DEF HostTypes, Name, Bytes
<1>3. line' \in Seq(Frames)
  <2>1. line \in Seq(Frames)
    BY DEF BoardTypes
  <2>2. "code" \in Blocks
    BY DEF Blocks
  <2>3. WriteHeader => line' \in Seq(Frames)
    BY <1>2, <2>1, SendTypes DEF WriteHeader
  <2>4. WriteData => line' \in Seq(Frames)
    BY <1>2, <2>1, SendTypes DEF WriteData
  <2>5. WriteEnd \/ IdentifyFw => line' \in Seq(Frames)
    BY <1>2, <2>1, <2>2, SendTypes DEF WriteEnd, IdentifyFw, EndTransaction, Identify
  <2> QED
    BY <2>1, <2>3, <2>4, <2>5 DEF LoaderStep, KillLoader, StartLoader, LoadFile, OpenPort,
       ReadMagic, HeaderAck, DataAck, ReadVersion, Timeout
<1>4. rx' \in Seq(Answers)
  <2>1. rx \in Seq(Answers) /\ <<>> \in Seq(Answers) /\ (rx # <<>> => Tail(rx) \in Seq(Answers))
    BY Ends DEF BoardTypes
  <2> QED
    BY <2>1 DEF LoaderStep, KillLoader, StartLoader, LoadFile, OpenPort, ReadMagic, WriteHeader,
       HeaderAck, WriteData, DataAck, WriteEnd, IdentifyFw, ReadVersion, Timeout, Leave
<1>5. request' \in {request, NoRequest} \/
      \E file \in Files, secure \in BOOLEAN : request' = [file |-> file, secure |-> secure]
  BY DEF LoaderStep, KillLoader, StartLoader, LoadFile, OpenPort, ReadMagic, WriteHeader,
     HeaderAck, WriteData, DataAck, WriteEnd, IdentifyFw, ReadVersion, Timeout, Leave, Goto,
     NextBlock
<1>6. request'.file \in Files /\ request'.secure \in BOOLEAN
  <2>1. NoRequest.file \in Files /\ NoRequest.secure \in BOOLEAN
    <3>1. NoRequest.file = (CHOOSE file \in Files : TRUE) /\ NoRequest.secure = FALSE
      BY Zenon DEF NoRequest
    <3> QED
      BY <3>1, Chosen, Zenon
  <2>2. ASSUME NEW file \in Files, NEW secure \in BOOLEAN,
               request' = [file |-> file, secure |-> secure]
        PROVE  request'.file \in Files /\ request'.secure \in BOOLEAN
    BY <2>2, Zenon
  <2>3. request.file \in Files /\ request.secure \in BOOLEAN
    BY DEF HostTypes
  <2> QED
    BY <1>5, <2>1, <2>2, <2>3, Zenon
<1>7. block' \in 1..4
  BY Order DEF HostTypes, LoaderStep, KillLoader, StartLoader, LoadFile, OpenPort, ReadMagic,
     WriteHeader, HeaderAck, WriteData, DataAck, WriteEnd, IdentifyFw, ReadVersion, Timeout,
     Leave, Goto, NextBlock
<1>8. HostTypes'
  BY <1>6, <1>7 DEF HostTypes, LoaderStep, KillLoader, StartLoader, LoadFile, OpenPort, ReadMagic,
     WriteHeader, HeaderAck, WriteData, DataAck, WriteEnd, IdentifyFw, ReadVersion, Timeout,
     Leave, Goto, NextBlock, Listening, LoaderEnded, Reading, Uploading, LoaderRuns
<1> QED
  BY <1>1, <1>3, <1>4, <1>8 DEF BoardTypes

\* The board answers, or is reset, or boots something else: what is left of the host
\* does not change.
BootsElsewhere ==
    /\ board' \in {"off"} \cup Systems
    /\ \/ UNCHANGED <<ram, line>>
       \/ ram' = Nothing /\ line' = <<>>
    /\ UNCHANGED <<rx, loader>>

BoardMoves == RomStep \/ ResetToRom \/ PowerOff \/ BootsElsewhere

LEMMA BoardKeepsTypes ==
    ASSUME Types, BoardMoves
    PROVE  Types'
<1>1. UNCHANGED loader
  BY DEF BoardMoves, RomStep, RomHeader, RomData, RomEnd, RomLosesStep, FwAnswers, BoardIgnores,
     Consume, ResetToRom, PowerOff, BootsElsewhere
<1>2. /\ board \in Boards /\ ram \in [Blocks -> Seq(Byte)] /\ line \in Seq(Frames)
      /\ rx \in Seq(Answers) /\ HostTypes
  BY DEF Types, BoardTypes
<1>3. line # <<>> => Head(line) \in Frames /\ Tail(line) \in Seq(Frames)
  BY <1>2, Ends
<1>4. line' \in Seq(Frames)
  <2>1. <<>> \in Seq(Frames)
    OBVIOUS
  <2>2. (line # <<>> /\ line' = Tail(line)) \/ line' = <<>> \/ line' = line
    BY Zenon DEF BoardMoves, RomStep, RomHeader, RomData, RomEnd, RomLosesStep, FwAnswers,
       BoardIgnores, Consume, ResetToRom, PowerOff, BootsElsewhere
  <2> QED
    BY <1>2, <1>3, <2>1, <2>2, Zenon
<1>5. line # <<>> => Head(line).data \in Seq(Byte)
  BY <1>3 DEF Frames
<1>6. ram' \in [Blocks -> Seq(Byte)]
  <2>1. RomData => ram' \in [Blocks -> Seq(Byte)]
    <3>1. RomData => ram' = [ram EXCEPT ![Head(line).name] = Head(line).data] /\ line # <<>>
      BY DEF RomData, Consume
    <3> DEFINE d == Head(line).data
    <3>2. line # <<>> => d \in Seq(Byte)
      BY <1>5
    <3>3. RomData => ram' = [ram EXCEPT ![Head(line).name] = d] /\ line # <<>>
      BY <3>1
    <3> HIDE DEF d
    <3> QED
      BY <1>2, <3>2, <3>3
  <2> QED
    BY <1>2, <2>1, EmptyRam DEF BoardMoves, RomStep, RomHeader, RomEnd, RomLosesStep, FwAnswers,
       BoardIgnores, ResetToRom, PowerOff, BootsElsewhere
<1>7. board' \in Boards
  BY <1>2 DEF BoardMoves, RomStep, RomHeader, RomData, RomEnd, RomLosesStep, FwAnswers,
     BoardIgnores, ResetToRom, PowerOff, BootsElsewhere, Boards
<1>8. rx' \in Seq(Answers) /\ (~Listening => rx' = <<>>)
  <2>1. ~Listening => rx = <<>>
    BY <1>2 DEF HostTypes
  <2>3. UNCHANGED rx => rx' \in Seq(Answers) /\ (~Listening => rx' = <<>>)
    BY <1>2, <2>1
  <2>4. \A answer \in Answers :
           Reply(answer) => rx' \in Seq(Answers) /\ (~Listening => rx' = <<>>)
    BY <1>2, ReplyTypes
  <2>5. RomHeader => UNCHANGED rx \/ \E answer \in Answers : Reply(answer)
    <3>1. RomHeader => Head(line).name \in Blocks /\ Acknowledge(HeaderSum(Head(line).name))
      BY Zenon DEF RomHeader
    <3> QED
      BY <3>1, AnswerKinds, Zenon DEF Acknowledge
  <2>6. RomData => UNCHANGED rx \/ \E answer \in Answers : Reply(answer)
    <3>1. RomData => line # <<>> /\ Acknowledge(Checksum(Head(line).data))
      BY Zenon DEF RomData, Consume
    <3>2. RomData => Checksum(Head(line).data) \in Sums
      BY <1>5, <3>1, ChecksumType, Zenon
    <3> QED
      BY <3>1, <3>2, AnswerKinds, Zenon DEF Acknowledge
  <2>7. RomEnd \/ BoardIgnores \/ PowerOff \/ BootsElsewhere => UNCHANGED rx
    BY Zenon DEF RomEnd, BoardIgnores, PowerOff, BootsElsewhere
  <2>8. RomLosesStep \/ FwAnswers \/ ResetToRom
           => UNCHANGED rx \/ \E answer \in Answers : Reply(answer)
    BY AnswerKinds, Zenon DEF RomLosesStep, FwAnswers, ResetToRom
  <2> QED
    BY <2>3, <2>4, <2>5, <2>6, <2>7, <2>8, Zenon DEF BoardMoves, RomStep
<1>9. HostTypes'
  BY <1>1, <1>2, <1>8 DEF HostTypes, loader, Listening
<1> QED
  BY <1>4, <1>6, <1>7, <1>8, <1>9 DEF Types, BoardTypes

LEMMA TypesStep == Types /\ [LoaderNext]_loaderVars => Types'
<1>1. ASSUME Types, UNCHANGED loaderVars PROVE Types'
  BY <1>1 DEF loaderVars, loader, Types, HostTypes, BoardTypes, Listening
<1> QED
  BY <1>1, HostKeepsTypes, BoardKeepsTypes DEF LoaderNext, BoardMoves

LEMMA TypesInit == LoaderInit => Types
<1> SUFFICES ASSUME LoaderInit PROVE Types
  OBVIOUS
<1>1. NoRequest.file \in Files /\ NoRequest.secure = FALSE
  <2>1. NoRequest.file = (CHOOSE file \in Files : TRUE) /\ NoRequest.secure = FALSE
    BY Zenon DEF NoRequest
  <2> QED
    BY <2>1, Chosen, Zenon
<1>2. BoardTypes
  BY EmptyRam DEF LoaderInit, BoardTypes, Boards
<1>3. HostTypes
  <2>1. request.file \in Files /\ request.secure \in BOOLEAN
    BY <1>1, Zenon DEF LoaderInit
  <2>2. at = "error" /\ block = 1 /\ rx = <<>>
    BY Zenon DEF LoaderInit
  <2> QED
    BY <2>1, <2>2 DEF HostTypes, LoaderEnded
<1> QED
  BY <1>2, <1>3 DEF Types

\* The variables of loader, line and board keep their types, and no answer is left where
\* nobody will read it.
THEOREM LoaderTypes == LoaderSpec => []LoaderTypeOK
  BY TypesInit, TypesStep, TypesSuffice, PTL DEF LoaderSpec
-------------------------------------------------------------------------------
(* What the acknowledgements of a secure chip tell.                            *)

\* The board is where an upload needs it, and has not been reset without the host
\* being about to read so.
Undisturbed == board \in {"rom", "data"} /\ \A i \in DOMAIN rx : rx[i] # Magic

Stored(n) ==
    \A i \in 1..n : SameModulo255(ram[BlockOrder[i]], request.file.bytes[BlockOrder[i]])

Quiet == line = <<>> /\ rx = <<>>

\* Only the first header may meet a ROM that still waits for a block.
RomIsReady == block > 1 => board = "rom"

\* Where host, line and board are, step for step.
AtHeader == Stored(block - 1) /\ Quiet /\ RomIsReady

AtHeaderAck ==
    /\ Stored(block - 1)
    /\ \/ rx = <<>> /\ RomIsReady /\ \E f : line = <<f>> /\ MayArrive(f, "header", Name, <<>>)
       \/ Quiet
       \/ line = <<>> /\ rx = <<Ack(HeaderSum(Name))>> /\ board = "data"

AtData == Stored(block - 1) /\ Quiet /\ board = "data"

AtDataAck ==
    /\ Stored(block - 1)
    /\ \/ rx = <<>> /\ board = "data" /\ \E f : line = <<f>> /\ MayArrive(f, "data", Name, Bytes)
       \/ Quiet
       \/ /\ line = <<>> /\ rx = <<Ack(Checksum(ram[Name]))>> /\ board = "rom"
          /\ OneNoised(ram[Name], Bytes)

AtEnd == Stored(block) /\ Quiet

AllMagic == \A i \in DOMAIN rx : rx[i] = Magic

Acknowledged ==
    SecureChip /\ request.secure =>
    /\ at = "magic" => line = <<>> /\ AllMagic
    /\ Undisturbed =>
       /\ at = "header" => AtHeader
       /\ at = "header_ack" => AtHeaderAck
       /\ at = "data" => AtData
       /\ at = "data_ack" => AtDataAck
       /\ at = "end" => AtEnd

LInv == Types /\ Acknowledged

\* A checksum that is that of the file tells one noised byte from the one sent, modulo 255.
LEMMA ChecksumTells ==
    ASSUME NEW data, NEW sent \in Seq(Byte), OneNoised(data, sent), Checksum(data) = Checksum(sent)
    PROVE  SameModulo255(data, sent)
<1>1. CASE data = sent
  BY <1>1, Zenon DEF SameModulo255
<1>2. ASSUME NEW i \in DOMAIN sent, NEW b \in Noise, data = [sent EXCEPT ![i] = b]
      PROVE  SameModulo255(data, sent)
  <2>1. b \in Byte
    BY LoaderAssumption
  <2>5. Checksum([sent EXCEPT ![i] = b]) = Checksum(sent)
    BY <1>2, Zenon
  <2>2. b % 255 = sent[i] % 255
    BY <2>1, <2>5, ChecksumDetects, Zenon
  <2>3. /\ DOMAIN data = DOMAIN sent /\ data[i] = b
        /\ \A j \in DOMAIN sent : j # i => data[j] = sent[j]
    BY <1>2
  <2>4. data \in Seq(Byte) /\ Len(data) = Len(sent)
    BY <1>2, <2>1
  <2> QED
    BY <2>2, <2>3, <2>4, Zenon DEF SameModulo255
<1> QED
  BY <1>1, <1>2, Zenon DEF OneNoised

\* What is on the line after a frame is sent on an empty one.
LEMMA SentOnEmpty ==
    ASSUME line = <<>>, NEW kind, NEW name, NEW data \in Seq(Byte),
           Send(Frame(kind, name, data))
    PROVE  line' = <<>> \/ \E f : line' = <<f>> /\ MayArrive(f, kind, name, data)
<1>1. PICK f \in Arriving(kind, name, data) : line' \in {line, line \o <<f>>}
  BY DEF Send, Arriving
<1>2. MayArrive(f, kind, name, data)
  BY Arrives
<1>3. line' = <<>> \/ line' = <<f>>
  BY <1>1
<1> QED
  BY <1>2, <1>3, Zenon

\* What is stored remains so while file and RAM do.
LEMMA StoredRemains ==
    ASSUME NEW n, request' = request, ram' = ram, Stored(n)
    PROVE  Stored(n)'
BY DEF Stored

LEMMA NextStored ==
    ASSUME Types, Stored(block - 1), SameModulo255(ram[Name], Bytes)
    PROVE  Stored(block)
<1>1. \A i \in 1..block : i = block \/ i \in 1..(block - 1)
  BY DEF Types, HostTypes
<1> QED
  BY <1>1 DEF Stored, Name, Bytes

\* Receiving a block leaves the earlier ones alone.
LEMMA OthersStored ==
    ASSUME Types, Stored(block - 1), NEW d, ram' = [ram EXCEPT ![Name] = d], UNCHANGED loader
    PROVE  Stored(block - 1)' /\ ram'[Name] = d
<1>1. Name \in Blocks /\ \A i \in 1..(block - 1) : BlockOrder[i] \in Blocks /\ BlockOrder[i] # Name
  BY Order DEF Name, Types, HostTypes
<1>2. ram \in [Blocks -> Seq(Byte)]
  BY DEF Types, BoardTypes
<1>3. \A i \in 1..(block - 1) : ram'[BlockOrder[i]] = ram[BlockOrder[i]]
  BY <1>1, <1>2
<1> QED
  BY <1>1, <1>2, <1>3 DEF Stored, loader

Stages == {"magic", "header", "header_ack", "data", "data_ack", "end"}

LEMMA NoStage == at' \notin Stages => Acknowledged'
BY DEF Stages, Acknowledged

\* Answers but the magic are left alone; the host is in a secure session.
LEMMA Ordinary ==
    /\ \A sum : Ack(sum) # Magic
    /\ \A s, t : Ack(s) = Ack(t) => s = t
<1>1. \A sum : Ack(sum).first = 85 /\ Ack(sum).sum = sum
  BY DEF Ack
<1>2. Magic.first = 0
  BY DEF Magic
<1> QED
  BY <1>1, <1>2

LEMMA ReadsOne ==
    ASSUME rx \in Seq(Answers), rx # <<>>
    PROVE  /\ Head(rx) # Magic /\ (\A i \in DOMAIN Tail(rx) : Tail(rx)[i] # Magic)
              => \A i \in DOMAIN rx : rx[i] # Magic
           /\ AllMagic /\ Tail(rx) # <<>> => \E i \in DOMAIN Tail(rx) : Tail(rx)[i] = Magic
<1>1. Len(rx) \in Nat \ {0} /\ Head(rx) = rx[1] /\ Len(Tail(rx)) = Len(rx) - 1
      /\ DOMAIN rx = 1..Len(rx) /\ DOMAIN Tail(rx) = 1..Len(Tail(rx))
      /\ \A i \in 1..Len(Tail(rx)) : Tail(rx)[i] = rx[i + 1]
  OBVIOUS
<1>2. ASSUME Head(rx) # Magic, \A i \in DOMAIN Tail(rx) : Tail(rx)[i] # Magic,
             NEW i \in DOMAIN rx
      PROVE  rx[i] # Magic
  <2>1. CASE i = 1
    BY <1>1, <1>2, <2>1
  <2>2. CASE i # 1
    <3>1. i - 1 \in 1..Len(Tail(rx)) /\ (i - 1) + 1 = i
      BY <1>1, <2>2
    <3> QED
      BY <1>1, <1>2, <3>1
  <2> QED
    BY <2>1, <2>2
<1>3. ASSUME AllMagic, Tail(rx) # <<>> PROVE 1 \in DOMAIN Tail(rx) /\ Tail(rx)[1] = Magic
  <2>1. Len(Tail(rx)) # 0
    BY <1>1, <1>3
  <2>2. 1 \in 1..Len(Tail(rx)) /\ 1 + 1 \in 1..Len(rx)
    BY <1>1, <2>1
  <2> QED
    BY <1>1, <1>3, <2>2 DEF AllMagic
<1> QED
  BY <1>2, <1>3, Zenon

Secure == SecureChip /\ request.secure

LEMMA OpenPortAcked == LInv /\ OpenPort => Acknowledged'
<1> SUFFICES ASSUME LInv, OpenPort PROVE Acknowledged'
  OBVIOUS
<1>1. rx' = <<>> /\ line' = <<>> /\ (at' = "magic" \/ at' = "header") /\ UNCHANGED request
      /\ (request.secure => at' = "magic")
  BY DEF OpenPort, Slept, Leave, LoaderEnded, Goto
<1>2. AllMagic'
  BY <1>1 DEF AllMagic
<1> QED
  BY <1>1, <1>2 DEF Acknowledged

LEMMA FirstHeader ==
    ASSUME LInv, Secure, at = "magic",
           at' = "header" /\ UNCHANGED <<board, ram, line, request, block>>,
           Undisturbed' => rx' = <<>>
    PROVE  Acknowledged'
<1>1. line = <<>> /\ block = 1
  BY DEF LInv, Acknowledged, Secure, Types, HostTypes
<1>2. Stored(block - 1)' /\ RomIsReady'
  BY <1>1 DEF Stored, RomIsReady
<1> QED
  BY <1>1, <1>2 DEF Acknowledged, AtHeader, Quiet

LEMMA ReadMagicAcked == LInv /\ ReadMagic => Acknowledged'
<1> SUFFICES ASSUME LInv, ReadMagic PROVE Acknowledged'
  OBVIOUS
<1>1. /\ at = "magic" /\ rx # <<>> /\ rx' = Tail(rx)
      /\ at' = "header" /\ UNCHANGED <<board, ram, line, request, block>>
  BY DEF ReadMagic, Goto
<1>2. CASE Secure
  <2>1. AllMagic /\ rx \in Seq(Answers)
    BY <1>1, <1>2 DEF LInv, Acknowledged, Secure, Types, BoardTypes
  <2>2. Undisturbed' => rx' = <<>>
    BY <1>1, <2>1, ReadsOne DEF Undisturbed
  <2> QED
    BY <1>1, <1>2, <2>2, FirstHeader
<1>3. CASE ~Secure
  BY <1>1, <1>3 DEF Secure, Acknowledged
<1> QED
  BY <1>2, <1>3

LEMMA TimeoutAcked == LInv /\ Timeout => Acknowledged'
<1> SUFFICES ASSUME LInv, Timeout PROVE Acknowledged'
  OBVIOUS
<1>1. /\ rx = <<>> /\ rx' = <<>> /\ UNCHANGED <<board, ram, line>>
      /\ \/ at = "magic" /\ at' = "header" /\ UNCHANGED <<request, block>>
         \/ at' \in {"error", "uploaded"}
  BY DEF Timeout, Leave, Goto, LoaderEnded
<1>2. CASE at' \in {"error", "uploaded"}
  BY <1>2, NoStage DEF Stages
<1>3. CASE at = "magic" /\ at' = "header" /\ UNCHANGED <<request, block>>
  <2>1. CASE Secure
    BY <1>1, <1>3, <2>1, FirstHeader
  <2>2. CASE ~Secure
    BY <1>3, <2>2 DEF Secure, Acknowledged
  <2> QED
    BY <2>1, <2>2
<1> QED
  BY <1>1, <1>2, <1>3

LEMMA WriteHeaderAcked == LInv /\ WriteHeader => Acknowledged'
<1> SUFFICES ASSUME LInv, WriteHeader PROVE Acknowledged'
  OBVIOUS
<1>1. /\ at = "header" /\ at' \in {"header_ack", "data"}
      /\ (request.secure => at' = "header_ack")
      /\ UNCHANGED <<board, ram, rx, request, block>>
      /\ Send(Frame("header", Name, <<>>))
  BY DEF WriteHeader, Goto
<1> SUFFICES ASSUME Secure, Undisturbed' PROVE AtHeaderAck'
  BY <1>1 DEF Acknowledged, Secure
<1>2. AtHeader
  BY <1>1 DEF LInv, Acknowledged, Secure, Undisturbed
<1>3. Stored(block - 1)'
  BY <1>1, <1>2 DEF AtHeader, Stored
<1>4. line' = <<>> \/ \E f : line' = <<f>> /\ MayArrive(f, "header", Name, <<>>)
  <2>1. line = <<>> /\ <<>> \in Seq(Byte)
    BY <1>2 DEF AtHeader, Quiet
  <2> QED
    BY <1>1, <2>1, SentOnEmpty, Zenon
<1>5. rx' = <<>> /\ RomIsReady' /\ Name' = Name
  BY <1>1, <1>2 DEF AtHeader, Quiet, RomIsReady, Name
<1> QED
  BY <1>3, <1>4, <1>5 DEF AtHeaderAck, Quiet

LEMMA HeaderAckAcked == LInv /\ HeaderAck => Acknowledged'
<1> SUFFICES ASSUME LInv, HeaderAck PROVE Acknowledged'
  OBVIOUS
<1>1. /\ at = "header_ack" /\ rx # <<>> /\ UNCHANGED <<board, ram, line>>
      /\ \/ /\ Head(rx) = Ack(HeaderSum(Name)) /\ rx' = Tail(rx)
            /\ at' = "data" /\ UNCHANGED <<request, block>>
         \/ at' = "uploaded"
  BY DEF HeaderAck, Goto, Leave, LoaderEnded
<1>2. CASE at' = "uploaded"
  BY <1>2, NoStage DEF Stages
<1>3. CASE /\ Head(rx) = Ack(HeaderSum(Name)) /\ rx' = Tail(rx)
           /\ at' = "data" /\ UNCHANGED <<request, block>>
  <2> SUFFICES ASSUME Secure, Undisturbed' PROVE AtData'
    BY <1>3 DEF Acknowledged, Secure
  <2>1. Undisturbed
    <3>1. rx \in Seq(Answers)
      BY DEF LInv, Types, BoardTypes
    <3> QED
      BY <1>1, <1>3, <3>1, ReadsOne, Ordinary DEF Undisturbed
  <2>2. AtHeaderAck
    BY <1>1, <2>1 DEF LInv, Acknowledged, Secure
  <2>3. line = <<>> /\ board = "data" /\ \E x : rx = <<x>>
    BY <1>1, <2>2 DEF AtHeaderAck, Quiet
  <2>4. rx' = <<>>
    BY <1>3, <2>3, One
  <2>5. Stored(block - 1)'
    BY <1>1, <1>3, <2>2 DEF AtHeaderAck, Stored
  <2> QED
    BY <1>1, <2>3, <2>4, <2>5 DEF AtData, Quiet
<1> QED
  BY <1>1, <1>2, <1>3

LEMMA WriteDataAcked == LInv /\ WriteData => Acknowledged'
<1> SUFFICES ASSUME LInv, WriteData PROVE Acknowledged'
  OBVIOUS
<1>1. /\ at = "data" /\ UNCHANGED <<board, ram, rx, request>>
      /\ (request.secure => at' = "data_ack" /\ UNCHANGED block)
      /\ Send(Frame("data", Name, Bytes))
  BY DEF WriteData, Goto, NextBlock
<1> SUFFICES ASSUME Secure, Undisturbed' PROVE AtDataAck'
  BY <1>1 DEF Acknowledged, Secure
<1>2. AtData /\ UNCHANGED block
  BY <1>1 DEF LInv, Acknowledged, Secure, Undisturbed
<1>3. Stored(block - 1)'
  BY <1>1, <1>2 DEF AtData, Stored
<1>4. line' = <<>> \/ \E f : line' = <<f>> /\ MayArrive(f, "data", Name, Bytes)
  <2>1. line = <<>>
    BY <1>2 DEF AtData, Quiet
  <2>2. Bytes \in Seq(Byte)
    BY Order, FileBytes DEF LInv, Types, HostTypes, Name, Bytes
  <2> QED
    BY <1>1, <2>1, <2>2, SentOnEmpty, Zenon
<1>5. rx' = <<>> /\ board' = "data" /\ Name' = Name /\ Bytes' = Bytes
  BY <1>1, <1>2 DEF AtData, Quiet, Name, Bytes
<1> QED
  BY <1>3, <1>4, <1>5 DEF AtDataAck, Quiet

LEMMA DataAckAcked == LInv /\ DataAck => Acknowledged'
<1> SUFFICES ASSUME LInv, DataAck PROVE Acknowledged'
  OBVIOUS
<1>1. /\ at = "data_ack" /\ rx # <<>> /\ UNCHANGED <<board, ram, line>>
      /\ \/ /\ Head(rx) = Ack(Checksum(Bytes)) /\ rx' = Tail(rx) /\ UNCHANGED request
            /\ \/ at' = "header" /\ block' = block + 1
               \/ at' = "end" /\ UNCHANGED block
         \/ at' = "uploaded"
  BY DEF DataAck, NextBlock, Leave, LoaderEnded, Goto
<1>2. CASE at' = "uploaded"
  BY <1>2, NoStage DEF Stages
<1>3. CASE /\ Head(rx) = Ack(Checksum(Bytes)) /\ rx' = Tail(rx) /\ UNCHANGED request
           /\ \/ at' = "header" /\ block' = block + 1
              \/ at' = "end" /\ UNCHANGED block
  <2> SUFFICES ASSUME Secure, Undisturbed'
               PROVE  (at' = "header" => AtHeader') /\ (at' = "end" => AtEnd')
    BY <1>3 DEF Acknowledged, Secure
  <2>1. Undisturbed
    <3>1. rx \in Seq(Answers)
      BY DEF LInv, Types, BoardTypes
    <3> QED
      BY <1>1, <1>3, <3>1, ReadsOne, Ordinary DEF Undisturbed
  <2>2. AtDataAck
    BY <1>1, <2>1 DEF LInv, Acknowledged, Secure
  <2>3. line = <<>> /\ board = "rom" /\ rx = <<Ack(Checksum(ram[Name]))>>
        /\ OneNoised(ram[Name], Bytes)
    BY <1>1, <2>2 DEF AtDataAck, Quiet
  <2>4. rx' = <<>>
    BY <1>3, <2>3, One
  <2>5. Checksum(ram[Name]) = Checksum(Bytes)
    BY <1>3, <2>3, One, Ordinary
  <2>6. Bytes \in Seq(Byte)
    BY Order, FileBytes DEF LInv, Types, HostTypes, Name, Bytes
  <2>7. Stored(block)
    BY <2>2, <2>3, <2>5, <2>6, ChecksumTells, NextStored DEF AtDataAck, LInv
  <2>8. CASE at' = "header" /\ block' = block + 1
    <3>1. block' - 1 = block
      BY <2>8 DEF LInv, Types, HostTypes
    <3>2. Stored(block - 1)'
      BY <1>1, <1>3, <2>7, <3>1 DEF Stored
    <3> QED
      BY <1>1, <2>3, <2>4, <2>8, <3>2 DEF AtHeader, Quiet, RomIsReady
  <2>9. CASE at' = "end" /\ UNCHANGED block
    <3>1. Stored(block)'
      BY <1>1, <1>3, <2>7, <2>9 DEF Stored
    <3> QED
      BY <1>1, <2>3, <2>4, <2>9, <3>1 DEF AtEnd, Quiet
  <2> QED
    BY <1>3, <2>8, <2>9
<1> QED
  BY <1>1, <1>2, <1>3

LEMMA HostAcked ==
    ASSUME LInv,
           \/ LoaderStep \/ KillLoader
           \/ \E file \in Files, secure \in BOOLEAN : StartLoader(file, secure)
    PROVE  Acknowledged'
<1>1. LoadFile \/ WriteEnd \/ IdentifyFw \/ ReadVersion \/ KillLoader => at' \notin Stages
  BY DEF LoadFile, WriteEnd, IdentifyFw, ReadVersion, KillLoader, Leave, Goto, LoaderEnded, Stages
<1>2. (\E file \in Files, secure \in BOOLEAN : StartLoader(file, secure)) => at' \notin Stages
  BY DEF StartLoader, Stages
<1> QED
  BY <1>1, <1>2, NoStage, OpenPortAcked, ReadMagicAcked, TimeoutAcked, WriteHeaderAcked,
     HeaderAckAcked, WriteDataAcked, DataAckAcked DEF LoaderStep

\* The board.
LEMMA ReplyKeeps ==
    ASSUME rx \in Seq(Answers), NEW answer, Listening, Reply(answer)
    PROVE  /\ (\A i \in DOMAIN rx' : rx'[i] # Magic)
              => answer # Magic /\ \A i \in DOMAIN rx : rx[i] # Magic
           /\ AllMagic /\ answer = Magic => AllMagic'
           /\ rx = <<>> => rx' = <<answer>>
<1>1. rx' = rx \o <<answer>>
  BY DEF Reply
<1>2. /\ \A i \in DOMAIN rx : i \in DOMAIN rx' /\ rx'[i] = rx[i]
      /\ Len(rx) + 1 \in DOMAIN rx' /\ rx'[Len(rx) + 1] = answer
      /\ \A i \in DOMAIN rx' : i \in DOMAIN rx \/ i = Len(rx) + 1
  BY <1>1
<1>3. rx = <<>> => rx' = <<answer>>
  BY <1>1
<1> QED
  BY <1>2, <1>3, Zenon DEF AllMagic

\* While the host waits for the magic or goes on, nothing is consumed but what it has sent.
LEMMA SecureListens == Types /\ Secure /\ at \in Stages => Listening
BY DEF Secure, Stages, Listening, Uploading

LEMMA MagicAcked ==
    ASSUME LInv, BoardMoves, Secure, at = "magic"
    PROVE  line' = <<>> /\ AllMagic'
<1>1. line = <<>> /\ AllMagic /\ rx \in Seq(Answers) /\ Listening
  BY SecureListens DEF LInv, Acknowledged, Secure, Types, BoardTypes, Stages
<1>2. \/ ResetToRom
      \/ UNCHANGED rx /\ (line' = line \/ line' = <<>>)
  BY <1>1 DEF BoardMoves, RomStep, RomHeader, RomData, RomEnd, RomLosesStep, FwAnswers,
     BoardIgnores, Consume, PowerOff, BootsElsewhere
<1>3. CASE ResetToRom
  BY <1>1, <1>3, ReplyKeeps DEF ResetToRom, Secure
<1>4. CASE UNCHANGED rx /\ (line' = line \/ line' = <<>>)
  BY <1>1, <1>4 DEF AllMagic
<1> QED
  BY <1>2, <1>3, <1>4

LEMMA MovesAway ==
    ASSUME LInv, BoardMoves, Secure, at \in Stages, Undisturbed'
    PROVE  RomHeader \/ RomData
<1>1. rx \in Seq(Answers) /\ Listening
  BY SecureListens DEF LInv, Types, BoardTypes
<1>2. ~ResetToRom
  BY <1>1, ReplyKeeps DEF ResetToRom, Secure, Undisturbed
<1>3. ~(RomEnd \/ RomLosesStep \/ FwAnswers \/ BoardIgnores \/ PowerOff \/ BootsElsewhere)
  BY DEF RomEnd, RomLosesStep, FwAnswers, BoardIgnores, PowerOff, BootsElsewhere, Undisturbed,
     Systems
<1> QED
  BY <1>2, <1>3 DEF BoardMoves, RomStep

\* Only at these two places is something on the line.
LEMMA OnTheLine ==
    ASSUME LInv, Secure, Undisturbed, at \in Stages \ {"magic"}, line # <<>>
    PROVE  \/ at = "header_ack" /\ AtHeaderAck
           \/ at = "data_ack" /\ AtDataAck
BY DEF LInv, Acknowledged, Secure, Stages, AtHeader, AtData, AtEnd, Quiet

LEMMA RomHeaderAcked ==
    ASSUME LInv, RomHeader, Secure, at \in Stages \ {"magic"}, Undisturbed'
    PROVE  at = "header_ack" /\ AtHeaderAck'
<1>1. /\ board = "rom" /\ board' = "data" /\ line # <<>> /\ line' = Tail(line)
      /\ UNCHANGED <<ram, at, request, block>>
      /\ Head(line).kind = "header" /\ Head(line).name \in Blocks
      /\ Reply(Ack(HeaderSum(Head(line).name)))
  BY DEF RomHeader, Consume, loader, Acknowledge, Secure
<1>2. rx \in Seq(Answers) /\ Listening
  BY SecureListens DEF LInv, Types, BoardTypes
<1>3. Undisturbed
  BY <1>1, <1>2, ReplyKeeps DEF Undisturbed
<1>4. \/ at = "header_ack" /\ AtHeaderAck
      \/ at = "data_ack" /\ AtDataAck
  BY <1>1, <1>3, OnTheLine
<1>5. at = "header_ack" /\ AtHeaderAck
  BY <1>1, <1>4 DEF AtDataAck, Quiet
<1>6. PICK f : line = <<f>> /\ MayArrive(f, "header", Name, <<>>)
  BY <1>1, <1>5 DEF AtHeaderAck, Quiet
<1>7. rx = <<>>
  BY <1>1, <1>5 DEF AtHeaderAck, Quiet
<1>8. Head(line) = f /\ line' = <<>>
  BY <1>1, <1>6, One
<1>9. "spoilt" \notin Blocks
  BY DEF Blocks
<1>10. Head(line).name = Name
  BY <1>1, <1>6, <1>8, <1>9 DEF MayArrive
<1>11. rx' = <<Ack(HeaderSum(Name))>>
  BY <1>1, <1>2, <1>7, <1>10, ReplyKeeps
<1>12. Stored(block - 1)' /\ Name' = Name
  BY <1>1, <1>5 DEF AtHeaderAck, Stored, Name
<1> QED
  BY <1>1, <1>5, <1>8, <1>11, <1>12 DEF AtHeaderAck

LEMMA RomDataAcked ==
    ASSUME LInv, RomData, Secure, at \in Stages \ {"magic"}, Undisturbed'
    PROVE  at = "data_ack" /\ AtDataAck'
<1>1. /\ board = "data" /\ board' = "rom" /\ line # <<>> /\ line' = Tail(line)
      /\ UNCHANGED <<at, request, block>>
      /\ Head(line).kind = "data"
      /\ ram' = [ram EXCEPT ![Head(line).name] = Head(line).data]
      /\ Reply(Ack(Checksum(Head(line).data)))
  BY DEF RomData, Consume, loader, Acknowledge, Secure
<1>2. rx \in Seq(Answers) /\ Listening
  BY SecureListens DEF LInv, Types, BoardTypes
<1>3. Undisturbed
  BY <1>1, <1>2, ReplyKeeps DEF Undisturbed
<1>4. \/ at = "header_ack" /\ AtHeaderAck
      \/ at = "data_ack" /\ AtDataAck
  BY <1>1, <1>3, OnTheLine
<1>5. at = "data_ack" /\ AtDataAck
  <2> SUFFICES ASSUME AtHeaderAck PROVE FALSE
    BY <1>4
  <2>1. PICK f : line = <<f>> /\ MayArrive(f, "header", Name, <<>>)
    BY <1>1 DEF AtHeaderAck, Quiet
  <2>2. Head(line).kind = "header"
    BY <2>1, One DEF MayArrive
  <2> QED
    BY <1>1, <2>2
<1>6. PICK f : line = <<f>> /\ MayArrive(f, "data", Name, Bytes)
  BY <1>1, <1>5 DEF AtDataAck, Quiet
<1>7. rx = <<>>
  BY <1>1, <1>5 DEF AtDataAck, Quiet
<1>8. Head(line) = f /\ line' = <<>> /\ f.name = Name /\ OneNoised(f.data, Bytes)
  BY <1>1, <1>6, One DEF MayArrive
<1>9. ram' = [ram EXCEPT ![Name] = f.data]
  BY <1>1, <1>8, Zenon
<1>10. Stored(block - 1)' /\ ram'[Name] = f.data
  BY <1>1, <1>5, <1>9, OthersStored DEF LInv, AtDataAck, loader
<1>11. rx' = <<Ack(Checksum(f.data))>>
  BY <1>1, <1>2, <1>7, <1>8, ReplyKeeps
<1>12. Name' = Name /\ Bytes' = Bytes
  BY <1>1 DEF Name, Bytes
<1>13. (rx = <<Ack(Checksum(ram[Name]))>> /\ OneNoised(ram[Name], Bytes))'
  BY <1>8, <1>10, <1>11, <1>12
<1> QED
  BY <1>1, <1>5, <1>8, <1>10, <1>13 DEF AtDataAck

LEMMA BoardAcked ==
    ASSUME LInv, BoardMoves
    PROVE  Acknowledged'
<1>1. UNCHANGED <<at, request, block>>
  BY DEF BoardMoves, RomStep, RomHeader, RomData, RomEnd, RomLosesStep, FwAnswers, BoardIgnores,
     Consume, ResetToRom, PowerOff, BootsElsewhere, loader
<1> SUFFICES ASSUME Secure, at \in Stages PROVE Acknowledged'
  BY <1>1, NoStage DEF Secure, Acknowledged
<1>2. CASE at = "magic"
  BY <1>1, <1>2, MagicAcked DEF Acknowledged
<1>3. CASE at # "magic" /\ ~Undisturbed'
  BY <1>1, <1>3 DEF Acknowledged
<1>4. CASE at # "magic" /\ Undisturbed'
  <2>1. CASE RomHeader
    BY <1>1, <1>4, <2>1, RomHeaderAcked DEF Acknowledged
  <2>2. CASE RomData
    BY <1>1, <1>4, <2>2, RomDataAcked DEF Acknowledged
  <2> QED
    BY <1>4, <2>1, <2>2, MovesAway
<1> QED
  BY <1>2, <1>3, <1>4

LEMMA StillAcked == LInv /\ UNCHANGED loaderVars => LInv'
BY DEF LInv, loaderVars, loader, Types, HostTypes, BoardTypes, Listening, Acknowledged,
   AllMagic, Undisturbed, AtHeader, AtHeaderAck, AtData, AtDataAck, AtEnd, Quiet, RomIsReady,
   Stored, Name, Bytes

LEMMA LInvStep == LInv /\ [LoaderNext]_loaderVars => LInv'
<1>1. LInv /\ LoaderNext => Types'
  BY TypesStep DEF LInv
<1>2. LInv /\ LoaderNext => Acknowledged'
  BY HostAcked, BoardAcked DEF LoaderNext, BoardMoves
<1> QED
  BY <1>1, <1>2, StillAcked DEF LInv

LEMMA LInvInit == LoaderInit => LInv
<1>1. LoaderInit => Acknowledged
  BY DEF LoaderInit, Acknowledged
<1> QED
  BY <1>1, TypesInit DEF LInv

LEMMA LInvSuffices == LInv => AckedIsStored
<1> SUFFICES ASSUME LInv, Secure, Awaiting, board \in {"rom", "data"}, rx = <<>>
             PROVE  \A i \in 1 .. (IF at = "end" THEN block ELSE block - 1) :
                       SameModulo255(ram[BlockOrder[i]], request.file.bytes[BlockOrder[i]])
  BY DEF AckedIsStored, Secure
<1>1. Undisturbed
  BY DEF Undisturbed
<1> QED
  BY <1>1 DEF LInv, Acknowledged, Secure, Awaiting, AtHeader, AtEnd, Stored

\* On a secure chip every block the loader has been acknowledged is in the RAM as it is in
\* the file, modulo 255: for any files, any noise that changes a byte of a frame, and
\* any resets of the board that the host has not heard of yet (write_to_uart).
THEOREM AcknowledgedIsStored == LoaderSpec => []AckedIsStored
  BY LInvInit, LInvStep, LInvSuffices, PTL DEF LoaderSpec
===============================================================================

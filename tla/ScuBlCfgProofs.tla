----------------------------- MODULE ScuBlCfgProofs -----------------------------
(* Proofs about ScuBlCfg, for any descriptions, edits, files, dumps and kills. *)
EXTENDS ScuBlCfg, VerifyFileCrcProofs

(* The layout: where builder and editor put the members.                       *)

\* The offsets that follow from the alignment of the members.
LEMMA Layout ==
    /\ SIZE = 4 /\ RETRIES = 6 /\ DESCRIPTOR_SIZE = 8 /\ DESCRIPTORS = 8
    /\ LAST_VALID = 40 /\ DEBUG = 41 /\ CONFIG_SIZE = 44
BY SMT DEF SIZE, RETRIES, DESCRIPTOR_SIZE, DESCRIPTORS, LAST_VALID, DEBUG, CONFIG_SIZE, AlignUp

\* A descriptor has four bytes of offset, a source, a mode, and two bytes nobody uses.
InDescriptor(c, n, k) ==
    IF k < 4 THEN c.offset[n][k + 1]
    ELSE IF k = 4 THEN c.source[n] ELSE IF k = 5 THEN c.mode[n] ELSE 0

\* The byte k of descriptor n is where its eight bytes begin, and k.
LEMMA DescriptorBytes ==
    ASSUME NEW c, NEW n \in 0..3, NEW k \in 0..7
    PROVE  ByteAt(c, 8 * n + 8 + k) = InDescriptor(c, n, k)
<1> DEFINE o == 8 * n + 8 + k
<1>1. o \in 8..39 /\ (o - 8) \div 8 = n /\ (o - 8) % 8 = k
  BY SMT
<1> HIDE DEF o
<1>2. ByteAt(c, o) = InDescriptor(c, n, k)
  BY <1>1, Layout DEF ByteAt, InDescriptor
<1> QED
  BY <1>2 DEF o

\* The bytes outside the descriptors: size, retries, the two last members and the gaps.
LEMMA OtherBytes ==
    ASSUME NEW c
    PROVE  /\ ByteAt(c, 4) = 44 /\ ByteAt(c, 5) = 0 /\ ByteAt(c, 6) = c.retries
           /\ ByteAt(c, 7) = 0 /\ ByteAt(c, 40) = c.last_valid /\ ByteAt(c, 41) = c.debug
           /\ ByteAt(c, 42) = 0 /\ ByteAt(c, 43) = 0
BY Layout DEF ByteAt

\* Every byte is one of these or of a descriptor.
LEMMA Places ==
    ASSUME NEW i \in 1..40
    PROVE  \/ i + 3 \in {4, 5, 6, 7, 40, 41, 42, 43}
           \/ \E n \in 0..3, k \in 0..7 : i + 3 = 8 * n + 8 + k
<1>1. CASE i + 3 \in 8..39
  <2> DEFINE n == (i - 5) \div 8
             k == (i - 5) % 8
  <2>1. n \in 0..3 /\ k \in 0..7 /\ i + 3 = 8 * n + 8 + k
    BY <1>1, SMT
  <2> QED
    BY <2>1
<1> QED
  BY <1>1

(* Sequences as functions: their lengths, prefixes, and what dd writes.         *)

IsBytes(data) == Len(data) \in Nat /\ data = [i \in 1 .. Len(data) |-> data[i]]

\* A function on 1..n is a sequence of length n.
LEMMA BytesOfFunction ==
    ASSUME NEW n \in Nat, NEW f, f = [i \in 1..n |-> f[i]]
    PROVE  Len(f) = n /\ IsBytes(f)
<1>1. Len(f) = n
  BY SMT
<1> QED
  BY <1>1 DEF IsBytes

\* What has the shape of a sequence is one.
LEMMA BytesAreSeq ==
    ASSUME NEW d, IsBytes(d)
    PROVE  d \in Seq({d[i] : i \in 1 .. Len(d)})
<1> DEFINE S == {d[i] : i \in 1 .. Len(d)}
<1>1. d \in [1 .. Len(d) -> S]
  BY DEF IsBytes
<1>2. Len(d) \in Nat
  BY DEF IsBytes
<1> HIDE DEF S
<1> QED
  BY <1>1, <1>2

\* A file of a whole configuration is not the empty one.
LEMMA NotEmpty ==
    ASSUME NEW d, Len(d) = 40
    PROVE  d # <<>>
<1>1. Len(<<>>) = 0 /\ 0 # 40
  OBVIOUS
<1> QED
  BY <1>1, Zenon

\* A prefix is a file of its own.
LEMMA FirstBytesAre ==
    ASSUME NEW d, IsBytes(d), NEW n \in Nat
    PROVE  /\ FirstBytes(d, n) = [i \in 1 .. AtMost(n, Len(d)) |-> d[i]]
           /\ Len(FirstBytes(d, n)) = AtMost(n, Len(d))
           /\ IsBytes(FirstBytes(d, n))
<1> DEFINE m == AtMost(n, Len(d))
           f == FirstBytes(d, n)
<1>1. m \in Nat /\ m <= Len(d)
  BY DEF IsBytes, AtMost
<1>2. f = [i \in 1 .. m |-> d[i]]
  BY <1>1, BytesAreSeq DEF FirstBytes
<1> HIDE DEF m, f
<1>3. f = [i \in 1 .. m |-> f[i]]
  BY <1>2
<1>4. Len(f) = m /\ IsBytes(f)
  BY <1>1, <1>3, BytesOfFunction
<1> QED
  BY <1>2, <1>4 DEF m, f

\* All the bytes of a file are the file.
LEMMA FirstOfAll ==
    ASSUME NEW d, IsBytes(d), NEW n \in Nat, n = Len(d)
    PROVE  FirstBytes(d, n) = d
<1>1. AtMost(n, Len(d)) = Len(d)
  BY DEF AtMost
<1>2. FirstBytes(d, n) = [i \in 1 .. Len(d) |-> d[i]]
  BY <1>1, FirstBytesAre
<1> QED
  BY <1>2 DEF IsBytes

\* What the builder writes: forty bytes, and their CRC.
LEMMA BuiltBytes ==
    ASSUME NEW c
    PROVE  /\ Built(c) = [crc |-> Built(c).data, data |-> Built(c).data]
           /\ Built(c).data = [i \in 1..40 |-> ByteAt(c, i + 3)]
           /\ Len(Built(c).data) = 40 /\ IsBytes(Built(c).data)
<1>1. /\ Built(c) = [crc |-> Built(c).data, data |-> Built(c).data]
      /\ Built(c).data = [i \in 1..40 |-> ByteAt(c, i + 3)]
  BY Layout DEF Built
<1> DEFINE d == Built(c).data
<1> HIDE DEF d
<1>2. d = [i \in 1..40 |-> d[i]]
  BY <1>1 DEF d
<1>3. Len(d) = 40 /\ IsBytes(d)
  BY <1>2, BytesOfFunction
<1> QED
  BY <1>1, <1>3 DEF d

\* dd leaves alone what is before the bytes it writes.
LEMMA PutBytes ==
    ASSUME NEW d, IsBytes(d), NEW o \in Nat, o >= 6, NEW b, IsBytes(b),
           NEW p, p = Put(d, o, b)
    PROVE  /\ IsBytes(p)
           /\ Len(p) >= Len(d)
           /\ \A i \in 1..2 : i <= Len(p) => p[i] = IF i <= Len(d) THEN d[i] ELSE 0
<1> DEFINE l == o - 3 + Len(b) - 1
           m == IF l > Len(d) THEN l ELSE Len(d)
<1>1. Len(d) \in Nat /\ Len(b) \in Nat
  BY DEF IsBytes
<1>2. p = [i \in 1 .. m |-> IF i \in (o - 3) .. l THEN b[i - (o - 3) + 1]
                            ELSE IF i <= Len(d) THEN d[i] ELSE 0]
  BY DEF Put
<1>3. m \in Nat /\ m >= Len(d)
  BY <1>1
<1> HIDE DEF l, m
<1>4. p = [i \in 1 .. m |-> p[i]]
  BY <1>2
<1>5. Len(p) = m /\ IsBytes(p)
  BY <1>3, <1>4, BytesOfFunction
<1>6. \A i \in 1..2 : i <= m => p[i] = IF i <= Len(d) THEN d[i] ELSE 0
  BY <1>1, <1>2, <1>3
<1> QED
  BY <1>3, <1>5, <1>6

\* p is d with the bytes b at the offset o, and of the same length.
Overwritten(p, d, o, b) ==
    p = [i \in 1 .. Len(d) |-> IF i \in (o - 3) .. (o - 4 + Len(b)) THEN b[i - (o - 3) + 1] ELSE d[i]]

\* When they end within the file, that is all dd does.
LEMMA PutOverwrites ==
    ASSUME NEW d, NEW o \in Nat, NEW b, Len(b) \in Nat, Len(d) \in Nat, o - 4 + Len(b) <= Len(d)
    PROVE  Overwritten(Put(d, o, b), d, o, b)
<1> DEFINE l == o - 3 + Len(b) - 1
<1>1. l = o - 4 + Len(b) /\ ~(l > Len(d))
  OBVIOUS
<1>2. Put(d, o, b) = [i \in 1 .. (IF l > Len(d) THEN l ELSE Len(d)) |->
                         IF i \in (o - 3) .. l THEN b[i - (o - 3) + 1]
                         ELSE IF i <= Len(d) THEN d[i] ELSE 0]
  BY DEF Put
<1> HIDE DEF l
<1>3. Put(d, o, b) = [i \in 1 .. Len(d) |-> IF i \in (o - 3) .. l THEN b[i - (o - 3) + 1] ELSE d[i]]
  BY <1>1, <1>2
<1> QED
  BY <1>1, <1>3 DEF Overwritten

(* What an edit means, and what the editor does for it.                         *)

Members == {"offset", "source", "mode", "retries", "last_valid", "debug"}

IsConfig(c) ==
    /\ DOMAIN c = Members
    /\ DOMAIN c.offset = 0..3 /\ DOMAIN c.source = 0..3 /\ DOMAIN c.mode = 0..3

\* e is c with the bytes b at the offset o.
Differs(e, c, o, b) ==
    \A j \in 4..43 :
       ByteAt(e, j) = IF j \in o .. (o + Len(b) - 1) THEN b[j - o + 1] ELSE ByteAt(c, j)

\* Writing the bytes in which two configurations differ makes the one of the other.
LEMMA PutMatches ==
    ASSUME NEW c, NEW e, NEW o \in 6..43, NEW b, IsBytes(b), o + Len(b) <= 44, Differs(e, c, o, b)
    PROVE  Put(Built(c).data, o, b) = Built(e).data
<1> DEFINE d == Built(c).data
           p == Put(d, o, b)
<1>1. /\ IsBytes(d) /\ Len(d) = 40 /\ d = [i \in 1..40 |-> ByteAt(c, i + 3)]
      /\ Built(e).data = [i \in 1..40 |-> ByteAt(e, i + 3)]
  BY BuiltBytes
<1>2. Len(b) \in Nat /\ o \in Nat /\ o >= 6
  <2>1. Len(b) \in Nat
    BY Zenon DEF IsBytes
  <2>2. o \in Nat /\ o >= 6
    OBVIOUS
  <2> QED
    BY <2>1, <2>2
<1> HIDE DEF d
<1>3. o - 4 + Len(b) <= Len(d) /\ Len(d) \in Nat
  BY <1>1, <1>2
<1>4. Overwritten(p, d, o, b)
  BY <1>2, <1>3, PutOverwrites
<1> HIDE DEF p
<1>5. p = [i \in 1..40 |-> IF i \in (o - 3) .. (o - 4 + Len(b)) THEN b[i - (o - 3) + 1] ELSE d[i]]
  BY <1>1, <1>4 DEF Overwritten
<1>6. \A i \in 1..40 : ByteAt(e, i + 3) = IF i \in (o - 3) .. (o - 4 + Len(b)) THEN b[i - (o - 3) + 1] ELSE d[i]
  <2> TAKE i \in 1..40
  <2>1. i + 3 \in 4..43
    OBVIOUS
  <2>2. ByteAt(e, i + 3) = IF i + 3 \in o .. (o + Len(b) - 1) THEN b[(i + 3) - o + 1] ELSE ByteAt(c, i + 3)
    BY <2>1 DEF Differs
  <2>3. (i + 3 \in o .. (o + Len(b) - 1)) <=> (i \in (o - 3) .. (o - 4 + Len(b)))
    BY <1>2
  <2>4. (i + 3) - o + 1 = i - (o - 3) + 1
    BY <1>2
  <2>5. d[i] = ByteAt(c, i + 3)
    BY <1>1
  <2> QED
    BY <2>2, <2>3, <2>4, <2>5
<1>7. p = Built(e).data
  BY <1>1, <1>5, <1>6
<1> QED
  BY <1>7 DEF p, d

\* The same of one descriptor, and of one of the other members.
InDescriptorDiffers(e, c, m, l, b) ==
    /\ e.retries = c.retries /\ e.last_valid = c.last_valid /\ e.debug = c.debug
    /\ \A n \in 0..3, k \in 0..7 :
          InDescriptor(e, n, k) = IF n = m /\ k \in l .. (l + Len(b) - 1) THEN b[k - l + 1]
                                  ELSE InDescriptor(c, n, k)

OneMemberDiffers(e, c, o, v) ==
    /\ e.offset = c.offset /\ e.source = c.source /\ e.mode = c.mode
    /\ e.retries = IF o = 6 THEN v ELSE c.retries
    /\ e.last_valid = IF o = 40 THEN v ELSE c.last_valid
    /\ e.debug = IF o = 41 THEN v ELSE c.debug

\* Two configurations that differ within a descriptor differ in those bytes.
LEMMA DescriptorDiffers ==
    ASSUME NEW c, NEW e, NEW m \in 0..3, NEW l \in 0..5, NEW b, IsBytes(b), l + Len(b) <= 6,
           InDescriptorDiffers(e, c, m, l, b)
    PROVE  Differs(e, c, 8 * m + 8 + l, b)
<1> DEFINE o == 8 * m + 8 + l
<1>0. Len(b) \in Nat
  BY DEF IsBytes
<1> SUFFICES ASSUME NEW j \in 4..43
             PROVE  ByteAt(e, j) = IF j \in o .. (o + Len(b) - 1) THEN b[j - o + 1] ELSE ByteAt(c, j)
  BY DEF Differs
<1>1. CASE j \in {4, 5, 6, 7, 40, 41, 42, 43}
  <2>1. j \notin o .. (o + Len(b) - 1)
    BY <1>0, <1>1
  <2>2. ByteAt(e, j) = ByteAt(c, j)
    BY <1>1, OtherBytes DEF InDescriptorDiffers
  <2> QED
    BY <2>1, <2>2
<1>2. CASE \E n \in 0..3, k \in 0..7 : j = 8 * n + 8 + k
  <2>1. PICK n \in 0..3, k \in 0..7 : j = 8 * n + 8 + k
    BY <1>2
  <2>2. ByteAt(e, j) = InDescriptor(e, n, k) /\ ByteAt(c, j) = InDescriptor(c, n, k)
    BY <2>1, DescriptorBytes
  <2>3. (j \in o .. (o + Len(b) - 1)) <=> (n = m /\ k \in l .. (l + Len(b) - 1))
    BY <1>0, <2>1, SMT
  <2>4. n = m => j - o + 1 = k - l + 1
    BY <2>1, SMT
  <2>5. InDescriptor(e, n, k) = IF n = m /\ k \in l .. (l + Len(b) - 1) THEN b[k - l + 1]
                                ELSE InDescriptor(c, n, k)
    BY DEF InDescriptorDiffers
  <2> HIDE DEF o
  <2> QED
    BY <2>2, <2>3, <2>4, <2>5
<1>3. j - 3 \in 1..40 /\ (j - 3) + 3 = j
  OBVIOUS
<1> QED
  BY <1>1, <1>2, <1>3, Places

\* Two configurations that differ in another member differ in its byte.
LEMMA MemberDiffers ==
    ASSUME NEW c, NEW e, NEW o \in {6, 40, 41}, NEW v, OneMemberDiffers(e, c, o, v)
    PROVE  Differs(e, c, o, <<v>>)
<1>0. Len(<<v>>) = 1 /\ <<v>>[1] = v
  OBVIOUS
<1> SUFFICES ASSUME NEW j \in 4..43
             PROVE  ByteAt(e, j) = IF j = o THEN v ELSE ByteAt(c, j)
  BY <1>0 DEF Differs
<1>1. CASE j \in {4, 5, 6, 7, 40, 41, 42, 43}
  BY <1>1, OtherBytes DEF OneMemberDiffers
<1>2. CASE \E n \in 0..3, k \in 0..7 : j = 8 * n + 8 + k
  <2>1. PICK n \in 0..3, k \in 0..7 : j = 8 * n + 8 + k
    BY <1>2
  <2>2. ByteAt(e, j) = InDescriptor(e, n, k) /\ ByteAt(c, j) = InDescriptor(c, n, k)
    BY <2>1, DescriptorBytes
  <2>3. InDescriptor(e, n, k) = InDescriptor(c, n, k)
    BY DEF InDescriptor, OneMemberDiffers
  <2>4. j # o
    BY <2>1
  <2> QED
    BY <2>2, <2>3, <2>4
<1>3. j - 3 \in 1..40 /\ (j - 3) + 3 = j
  OBVIOUS
<1> QED
  BY <1>1, <1>2, <1>3, Places

\* A number of at most two hexadecimal digits is written as it is.
LEMMA OneByte ==
    ASSUME NEW n, ~(n > 255)
    PROVE  FirstByte(n) = n
BY Zenon DEF FirstByte

\* A number of one digit is that digit.
LEMMA OneDigit ==
    ASSUME NEW d \in 0..9, OctalDigits(<<d>>) \/ d # 0
    PROVE  Number(<<d>>) = d
<1> DEFINE s == <<d>>
           base == IF Octal(s) THEN 8 ELSE 10
           number[n \in 0 .. Len(s)] == IF n = 0 THEN 0 ELSE base * number[n - 1] + s[n]
<1>1. Len(s) = 1 /\ s[1] = d
  OBVIOUS
<1>2. Readable(s) = 1
  <2>1. CASE d = 0
    <3> DEFINE Reads(n) == /\ \A i \in 1..n : s[i] \in 0..7
                           /\ n < 1 => s[n + 1] \notin 0..7
    <3>1. \A n \in 0..1 : Reads(n) <=> n = 1
      BY <2>1
    <3>2. Octal(s)
      BY <1>1, <2>1 DEF Octal
    <3> HIDE DEF s
    <3>3. Readable(s) = CHOOSE n \in 0..1 : Reads(n)
      BY <1>1, <3>2 DEF Readable
    <3> HIDE DEF Reads
    <3>4. \E n \in 0..1 : Reads(n)
      BY <3>1
    <3>5. /\ (CHOOSE n \in 0..1 : Reads(n)) \in 0..1
          /\ Reads(CHOOSE n \in 0..1 : Reads(n))
      BY <3>4, Zenon
    <3> QED
      BY <3>1, <3>3, <3>5, Zenon
  <2>2. CASE d # 0
    BY <1>1, <2>2 DEF Readable, Octal
  <2> QED
    BY <2>1, <2>2
<1>3. base \in Nat
  OBVIOUS
<1>4. Number(s) = number[1]
  BY <1>2 DEF Number
<1>5. number = [n \in 0..1 |-> IF n = 0 THEN 0 ELSE base * number[n - 1] + s[n]]
  <2> DEFINE f == [n \in 0..1 |-> IF n = 0 THEN 0 ELSE d]
  <2> HIDE DEF base
  <2>1. f = [n \in 0..1 |-> IF n = 0 THEN 0 ELSE base * f[n - 1] + s[n]]
    BY <1>3
  <2> QED
    BY <1>1, <2>1
<1> HIDE DEF number, base, s
<1>6. number[0] = 0
  BY <1>5
<1>7. number[1] = base * number[0] + s[1]
  BY <1>5
<1> QED
  BY <1>1, <1>3, <1>4, <1>6, <1>7 DEF s

\* Eight digits are the four bytes of their word.
LEMMA EightDigits ==
    ASSUME NEW s \in Seq(0..15), Len(s) = 8
    PROVE  EditedWord(s) = Word(s) /\ IsBytes(EditedWord(s)) /\ Len(EditedWord(s)) = 4
<1>1. AtMost((Len(s) + 1) \div 2, 4) = 4
  BY DEF AtMost
<1>2. EditedWord(s) = [i \in 1..4 |-> PairByte(s, 2 * (4 - i) + 1)]
  BY <1>1 DEF EditedWord
<1>3. \A i \in 1..4 : PairByte(s, 2 * (4 - i) + 1) = 16 * Digit(s, 2 * i - 1) + Digit(s, 2 * i - 2)
  <2> TAKE i \in 1..4
  <2>1. /\ 2 * (4 - i) + 1 = 8 - (2 * i - 1) /\ (2 * (4 - i) + 1) + 1 = 8 - (2 * i - 2)
        /\ 2 * (4 - i) + 1 # 8 /\ 2 * i - 1 < 8 /\ 2 * i - 2 < 8
    BY SMT
  <2> QED
    BY <2>1 DEF PairByte, Digit
<1>4. EditedWord(s) = Word(s)
  BY <1>2, <1>3 DEF Word
<1> DEFINE w == EditedWord(s)
<1> HIDE DEF w
<1>5. w = [i \in 1..4 |-> w[i]]
  BY <1>2 DEF w
<1>6. Len(w) = 4 /\ IsBytes(w)
  BY <1>5, BytesOfFunction
<1> QED
  BY <1>4, <1>6 DEF w

\* The offset of an edit that is not refused, and the bytes written there.
LEMMA EditPlace ==
    ASSUME NEW edit \in Edits, ~EditorRefuses(edit)
    PROVE  /\ EditorOffset(edit) \in 6..43
           /\ IsBytes(EditorBytes(edit))
<1>1. edit.field \in OfDescriptor => edit.index \in 0..3
  BY DEF EditorRefuses
<1>2. edit.field \in {"boot_image_source", "boot_image_offset"} \cup NumberFields
  BY EditsAssumption
<1>3. EditorOffset(edit) \in 6..43
  BY <1>1, <1>2 DEF EditorOffset, OfDescriptor, NumberFields
<1>4. \A v : IsBytes(<<v>>)
  BY DEF IsBytes
<1>5. \A s : IsBytes(EditedWord(s))
  <2> TAKE s
  <2> DEFINE w == EditedWord(s)
  <2>1. w = [i \in 1..4 |-> w[i]]
    BY DEF EditedWord
  <2> HIDE DEF w
  <2>2. IsBytes(w)
    BY <2>1, BytesOfFunction
  <2> QED
    BY <2>2 DEF w
<1> QED
  BY <1>2, <1>3, <1>4, <1>5 DEF EditorBytes, NumberFields

\* Editing the file of a configuration, but for its CRC, gives the file of the edited one.
LEMMA EditMatches ==
    ASSUME NEW c, IsConfig(c), NEW edit \in Edits, ~EditorRefuses(edit), Plain(edit)
    PROVE  /\ IsConfig(Edited(c, edit))
           /\ Put(Built(c).data, EditorOffset(edit), EditorBytes(edit)) = Built(Edited(c, edit)).data
<1> DEFINE e == Edited(c, edit)
           o == EditorOffset(edit)
           b == EditorBytes(edit)
           m == edit.index
<1>0. o \in 6..43 /\ IsBytes(b)
  BY EditPlace
<1>1. edit.field \in {"boot_image_source", "boot_image_offset"} \cup NumberFields
  BY EditsAssumption
<1>2. edit.field \in OfDescriptor => m \in 0..3
  BY DEF EditorRefuses
<1> SUFFICES IsConfig(e) /\ o + Len(b) <= 44 /\ Differs(e, c, o, b)
  <2> HIDE DEF e, o, b
  <2>1. ASSUME IsConfig(e), o + Len(b) <= 44, Differs(e, c, o, b)
        PROVE  Put(Built(c).data, o, b) = Built(e).data
    BY <1>0, <2>1, PutMatches
  <2> QED
    BY <2>1 DEF e, o, b
<1>3. CASE edit.field = "boot_image_source"
  <2>1. /\ o = 8 * m + 8 + 4 /\ b = <<Source[edit.value]>>
        /\ e = [c EXCEPT !.source[m] = Source[edit.value]]
        /\ m \in 0..3
    BY <1>2, <1>3 DEF EditorOffset, EditorBytes, Edited, OfDescriptor, EditorSource, Source
  <2> DEFINE v == Source[edit.value]
  <2> HIDE DEF e, o, b, m, v
  <2>2. /\ IsConfig(e)
        /\ e.retries = c.retries /\ e.last_valid = c.last_valid /\ e.debug = c.debug
        /\ e.offset = c.offset /\ e.mode = c.mode
        /\ \A n \in 0..3 : e.source[n] = IF n = m THEN v ELSE c.source[n]
    BY <2>1 DEF IsConfig, Members, v
  <2>3. b = <<v>> /\ Len(b) = 1 /\ b[1] = v
    BY <2>1 DEF v
  <2>4. InDescriptorDiffers(e, c, m, 4, b)
    BY <2>2, <2>3 DEF InDescriptorDiffers, InDescriptor
  <2>5. Differs(e, c, 8 * m + 8 + 4, b)
    <3>1. 4 \in 0..5 /\ 4 + Len(b) <= 6 /\ m \in 0..3 /\ IsBytes(b)
      BY <1>0, <2>1, <2>3, <2>4
    <3> QED
      BY <2>4, <3>1, DescriptorDiffers, Zenon
  <2> QED
    BY <2>1, <2>2, <2>3, <2>5
<1>4. CASE edit.field = "boot_image_offset"
  <2>0. edit.value \in Seq(0..15) /\ Len(edit.value) = 8
    BY <1>4, EditsAssumption DEF Plain
  <2>1. /\ o = 8 * m + 8 /\ b = Word(edit.value) /\ Len(b) = 4
        /\ e = [c EXCEPT !.offset[m] = Word(edit.value)]
        /\ m \in 0..3
    BY <1>2, <1>4, <2>0, EightDigits DEF EditorOffset, EditorBytes, Edited, OfDescriptor
  <2> DEFINE v == Word(edit.value)
  <2> HIDE DEF e, o, b, m, v
  <2>2. /\ IsConfig(e)
        /\ e.retries = c.retries /\ e.last_valid = c.last_valid /\ e.debug = c.debug
        /\ e.source = c.source /\ e.mode = c.mode
        /\ \A n \in 0..3 : e.offset[n] = IF n = m THEN v ELSE c.offset[n]
    BY <2>1 DEF IsConfig, Members, v
  <2>3. b = v
    BY <2>1 DEF v
  <2>4. InDescriptorDiffers(e, c, m, 0, b)
    BY <2>1, <2>2, <2>3 DEF InDescriptorDiffers, InDescriptor
  <2>5. Differs(e, c, 8 * m + 8 + 0, b)
    <3>1. 0 \in 0..5 /\ 0 + Len(b) <= 6 /\ m \in 0..3 /\ IsBytes(b)
      BY <1>0, <2>1, <2>4
    <3> QED
      BY <2>4, <3>1, DescriptorDiffers, Zenon
  <2>6. 8 * m + 8 + 0 = o
    BY <2>1
  <2> QED
    BY <2>1, <2>2, <2>5, <2>6
<1>5. CASE edit.field = "boot_image_mode"
  <2>0. edit.value \in Seq(0..9) /\ Len(edit.value) = 1 /\ OctalDigits(edit.value)
    BY <1>5, EditsAssumption DEF Plain, EditorRefuses, NumberFields
  <2> DEFINE v == edit.value[1]
  <2>7. edit.value = <<v>> /\ v \in 0..9
    BY <2>0
  <2>8. Number(edit.value) = v
    BY <2>0, <2>7, OneDigit
  <2>1. /\ o = 8 * m + 8 + 5 /\ b = <<v>>
        /\ e = [c EXCEPT !.mode[m] = v]
        /\ m \in 0..3
    <3>1. FirstByte(v) = v
      BY <2>7, OneByte
    <3> QED
      BY <1>2, <1>5, <2>7, <2>8, <3>1 DEF EditorOffset, EditorBytes, Edited, OfDescriptor
  <2> HIDE DEF e, o, b, m, v
  <2>2. /\ IsConfig(e)
        /\ e.retries = c.retries /\ e.last_valid = c.last_valid /\ e.debug = c.debug
        /\ e.offset = c.offset /\ e.source = c.source
        /\ \A n \in 0..3 : e.mode[n] = IF n = m THEN v ELSE c.mode[n]
    BY <2>1 DEF IsConfig, Members
  <2>3. b = <<v>> /\ Len(b) = 1 /\ b[1] = v
    BY <2>1
  <2>4. InDescriptorDiffers(e, c, m, 5, b)
    BY <2>2, <2>3 DEF InDescriptorDiffers, InDescriptor
  <2>5. Differs(e, c, 8 * m + 8 + 5, b)
    <3>1. 5 \in 0..5 /\ 5 + Len(b) <= 6 /\ m \in 0..3 /\ IsBytes(b)
      BY <1>0, <2>1, <2>3, <2>4
    <3> QED
      BY <2>4, <3>1, DescriptorDiffers, Zenon
  <2> QED
    BY <2>1, <2>2, <2>3, <2>5
<1>6. CASE edit.field = "boot_max_retries"
  <2> DEFINE v == Number(edit.value)
  <2>0. FirstByte(v) = v
    <3>1. CASE Octal(edit.value) => OctalDigits(edit.value)
      <4>1. ~(v > 255)
        BY <1>6, <3>1 DEF EditorRefuses
      <4> QED
        BY <4>1, OneByte
    <3>2. CASE Octal(edit.value) /\ ~OctalDigits(edit.value)
      <4>1. Len(edit.value) = 1
        BY <1>6, <3>2 DEF Plain
      <4>2. edit.value[1] = 0 /\ edit.value = <<0>>
        BY <1>6, <3>2, <4>1, EditsAssumption DEF Octal, NumberFields
      <4>3. OctalDigits(<<0>>)
        BY DEF OctalDigits, ToSet
      <4> QED
        BY <3>2, <4>2, <4>3
    <3> QED
      BY <3>1, <3>2
  <2>1. o = 6 /\ b = <<v>> /\ e = [c EXCEPT !.retries = v]
    BY <1>6, <2>0 DEF EditorOffset, EditorBytes, Edited
  <2> HIDE DEF e, o, b, v
  <2>2. IsConfig(e) /\ OneMemberDiffers(e, c, o, v)
    BY <2>1 DEF IsConfig, Members, OneMemberDiffers
  <2>3. Len(b) = 1
    BY <2>1
  <2>4. Differs(e, c, o, <<v>>)
    BY <2>1, <2>2, MemberDiffers
  <2> QED
    BY <2>1, <2>2, <2>3, <2>4
<1>7. CASE edit.field \in {"last_valid_desc_index", "debug_logs_enabled"}
  <2>0. edit.value \in Seq(0..9) /\ Len(edit.value) = 1 /\ ToSet(edit.value) \subseteq 0..3
    <3>1. 0..1 \subseteq 0..3
      OBVIOUS
    <3> QED
      BY <1>7, <3>1, EditsAssumption DEF Plain, EditorRefuses, NumberFields
  <2> DEFINE v == edit.value[1]
  <2>7. edit.value = <<v>> /\ v \in 0..9 /\ v \in ToSet(edit.value)
    BY <2>0 DEF ToSet
  <2>9. OctalDigits(<<v>>)
    <3>1. ToSet(edit.value) \subseteq 0..7
      BY <2>0
    <3> QED
      BY <2>7, <3>1 DEF OctalDigits
  <2>8. Number(edit.value) = v /\ FirstByte(v) = v
    <3>1. FirstByte(v) = v
      BY <2>7, OneByte
    <3> QED
      BY <2>7, <2>9, <3>1, OneDigit
  <2>1. /\ o \in {40, 41} /\ b = <<v>>
        /\ e = IF o = 40 THEN [c EXCEPT !.last_valid = v] ELSE [c EXCEPT !.debug = v]
    BY <1>7, <2>8 DEF EditorOffset, EditorBytes, Edited
  <2> HIDE DEF e, o, b, v
  <2>2. IsConfig(e) /\ OneMemberDiffers(e, c, o, v)
    BY <2>1 DEF IsConfig, Members, OneMemberDiffers
  <2>3. Len(b) = 1
    BY <2>1
  <2>4. Differs(e, c, o, <<v>>)
    BY <2>1, <2>2, MemberDiffers
  <2> QED
    BY <2>1, <2>2, <2>3, <2>4
<1> QED
  BY <1>1, <1>3, <1>4, <1>5, <1>6, <1>7 DEF NumberFields

\* A description is a configuration.
LEMMA ConfigIsConfig ==
    ASSUME NEW json
    PROVE  IsConfig(Config(json))
BY DEF Config, IsConfig, Members
-------------------------------------------------------------------------------
(* The files the tools may leave behind.                                        *)

\* No tool writes into the size field but the builder, and a CRC was computed from bytes
\* that begin with a content that was completed.
FileOK(f, contents) ==
    /\ f = [crc |-> f.crc, data |-> f.data]
    /\ IsBytes(f.data)
    /\ f.crc = <<>> \/ FirstBytes(f.crc, CONFIG_SIZE - 4) \in contents
    /\ Len(f.data) >= 1 => f.data[1] \in {0, CONFIG_SIZE}
    /\ Len(f.data) >= 2 => f.data[2] = 0

\* A file that has been opened for writing.
LEMMA EmptyOK ==
    ASSUME NEW contents
    PROVE  FileOK(Empty, contents)
BY DEF FileOK, Empty, IsBytes

\* A file the builder has written.
LEMMA BuiltOK ==
    ASSUME NEW c, NEW contents, Built(c).data \in contents
    PROVE  FileOK(Built(c), contents)
<1> DEFINE f == Built(c)
<1>1. /\ f = [crc |-> f.data, data |-> f.data]
      /\ f.data = [i \in 1..40 |-> ByteAt(c, i + 3)]
      /\ Len(f.data) = 40 /\ IsBytes(f.data)
  BY BuiltBytes
<1>2. f.data[1] = 44 /\ f.data[2] = 0
  BY <1>1, OtherBytes
<1> HIDE DEF f
<1>3. FirstBytes(f.data, 40) = f.data
  BY <1>1, FirstOfAll
<1>4. f.crc = f.data
  BY <1>1
<1>5. f = [crc |-> f.crc, data |-> f.data]
  BY <1>1, <1>4
<1>6. CONFIG_SIZE = 44 /\ CONFIG_SIZE - 4 = 40
  BY Layout
<1>7. f.data \in contents
  BY DEF f
<1>8. FileOK(f, contents)
  BY <1>1, <1>2, <1>3, <1>4, <1>5, <1>6, <1>7 DEF FileOK
<1> QED
  BY <1>8 DEF f

\* What was completed before stays completed.
LEMMA MoreContents ==
    ASSUME NEW f, NEW contents, NEW more, FileOK(f, contents), contents \subseteq more
    PROVE  FileOK(f, more)
BY DEF FileOK

\* A copy that is cut short.
LEMMA CutOK ==
    ASSUME NEW f, NEW contents, FileOK(f, contents), NEW n \in Nat
    PROVE  FileOK([f EXCEPT !.data = FirstBytes(@, n)], contents)
<1> DEFINE g == [f EXCEPT !.data = FirstBytes(@, n)]
           d == FirstBytes(f.data, n)
<1>1. g = [crc |-> f.crc, data |-> d]
  BY DEF FileOK
<1>2. /\ d = [i \in 1 .. AtMost(n, Len(f.data)) |-> f.data[i]]
      /\ Len(d) = AtMost(n, Len(f.data)) /\ IsBytes(d)
  BY FirstBytesAre DEF FileOK
<1>3. AtMost(n, Len(f.data)) \in Nat /\ AtMost(n, Len(f.data)) <= Len(f.data) /\ Len(f.data) \in Nat
  BY DEF AtMost, FileOK, IsBytes
<1> HIDE DEF g, d
<1>4. \A i \in 1..2 : i <= Len(d) => d[i] = f.data[i] /\ i <= Len(f.data)
  BY <1>2, <1>3
<1>5. /\ Len(d) >= 1 => d[1] \in {0, CONFIG_SIZE}
      /\ Len(d) >= 2 => d[2] = 0
  BY <1>4 DEF FileOK
<1>6. FileOK(g, contents)
  BY <1>1, <1>2, <1>5 DEF FileOK
<1> QED
  BY <1>6 DEF g

\* A file with a new field.
LEMMA PutOK ==
    ASSUME NEW f, NEW contents, FileOK(f, contents), NEW o \in Nat, o >= 6, NEW b, IsBytes(b)
    PROVE  FileOK([f EXCEPT !.data = Put(@, o, b)], contents)
<1> DEFINE g == [f EXCEPT !.data = Put(@, o, b)]
           d == Put(f.data, o, b)
<1>1. g = [crc |-> f.crc, data |-> d]
  BY DEF FileOK
<1>2. /\ IsBytes(d)
      /\ \A i \in 1..2 : i <= Len(d) => d[i] = IF i <= Len(f.data) THEN f.data[i] ELSE 0
  BY PutBytes DEF FileOK
<1>3. Len(f.data) \in Nat
  BY DEF FileOK, IsBytes
<1> HIDE DEF g, d
<1>5. /\ Len(d) >= 1 => d[1] \in {0, CONFIG_SIZE}
      /\ Len(d) >= 2 => d[2] = 0
  BY <1>2, <1>3 DEF FileOK, IsBytes
<1>6. FileOK(g, contents)
  BY <1>1, <1>2, <1>5 DEF FileOK
<1> QED
  BY <1>6 DEF g

\* A dump of the flash.
LEMMA DumpOK ==
    ASSUME NEW f, NEW contents, FileOK(f, contents), Len(f.data) >= 2
    PROVE  FileOK([f EXCEPT !.data = @ \o Padding], contents)
<1> DEFINE d == f.data \o Padding
           D == {f.data[i] : i \in 1 .. Len(f.data)}
           P == 0..255
           S == D \cup P
<1>1. f.data \in Seq(D) /\ Padding \in Seq(P)
  BY BytesAreSeq, ToolsAssumption DEF FileOK
<1> HIDE DEF D, P
<1>2. f.data \in Seq(S) /\ Padding \in Seq(S)
  <2>1. D \subseteq S /\ P \subseteq S
    OBVIOUS
  <2> HIDE DEF S
  <2> QED
    BY <1>1, <2>1
<1> HIDE DEF S
<1>3. d \in Seq(S) /\ d[1] = f.data[1] /\ d[2] = f.data[2]
  BY <1>2
<1> HIDE DEF d
<1>4. IsBytes(d)
  BY <1>3 DEF IsBytes
<1>5. FileOK([f EXCEPT !.data = d], contents)
  BY <1>3, <1>4 DEF FileOK
<1> QED
  BY <1>5 DEF d

\* A file with a new CRC, or without one.
LEMMA CrcOK ==
    ASSUME NEW f, NEW contents, FileOK(f, contents), NEW crc,
           crc = <<>> \/ FirstBytes(crc, CONFIG_SIZE - 4) \in contents
    PROVE  FileOK([f EXCEPT !.crc = crc], contents)
BY DEF FileOK
-------------------------------------------------------------------------------
(* The invariant.                                                               *)

\* The file at a path is one the tools may leave, and is the one it should be.
PathOK(path) ==
    /\ FileOK(files[path], made)
    /\ wanted[path] # Unknown => IsConfig(wanted[path]) /\ files[path] = Built(wanted[path])

FilesOK ==
    /\ files = [path \in Paths |-> files[path]] /\ DOMAIN wanted = Paths
    /\ \A path \in Paths : PathOK(path)

Editing == {"copy", "field", "crc"}

\* What the editor has done so far to a file that has a meaning.
Underway ==
    tool \in Editing /\ job.base # Unknown =>
        /\ IsConfig(job.base)
        /\ tool = "copy" => job.in \in Paths \ {job.out} /\ files[job.in] = Built(job.base)
        /\ tool = "field" => files[job.out] = Built(job.base)
        /\ tool = "crc" => files[job.out].data = Put(Built(job.base).data, EditorOffset(job.edit),
                                                     EditorBytes(job.edit))

\* A tool that is at work writes a file that should not be anything yet, and no check
\* of that file is under way.
AtWork ==
    /\ tool \in {"idle", "build"} \cup Editing
    /\ tool # "idle" => /\ job.out \in Paths /\ wanted[job.out] = Unknown
                        /\ checked = NoPath /\ result # "running"
    /\ tool \in Editing => job.edit \in Edits /\ job.in \in Paths \cup {NoPath}
    /\ tool = "crc" => ~EditorRefuses(job.edit)
    /\ Underway

\* verify_file_crc looks at the file as it is.
Checking ==
    /\ checked \in Paths =>
          /\ length = FileLength(files[checked])
          /\ size = SizeField(files[checked])
          /\ crcGood = (files[checked].crc = FirstBytes(files[checked].data, size - CRC32_SIZE_BYTES))
    /\ Passed /\ AcceptsSmall

ToolsInv == FilesOK /\ AtWork /\ Checking

\* A step that writes one file and says what it is meant to be.
LEMMA OneFile ==
    ASSUME FilesOK, NEW p \in Paths, NEW f, NEW w,
           files' = [files EXCEPT ![p] = f],
           DOMAIN wanted' = Paths, wanted'[p] = w,
           \A q \in Paths \ {p} : wanted'[q] = wanted[q],
           made \subseteq made',
           FileOK(f, made'),
           w # Unknown => IsConfig(w) /\ f = Built(w)
    PROVE  FilesOK'
<1>1. files' = [q \in Paths |-> files'[q]] /\ files'[p] = f /\ \A q \in Paths \ {p} : files'[q] = files[q]
  BY DEF FilesOK
<1>2. ASSUME NEW q \in Paths PROVE PathOK(q)'
  <2>1. CASE q = p
    BY <1>1, <2>1 DEF PathOK
  <2>2. CASE q # p
    <3>1. FileOK(files[q], made) /\ (wanted[q] # Unknown => IsConfig(wanted[q]) /\ files[q] = Built(wanted[q]))
      BY DEF FilesOK, PathOK
    <3>2. FileOK(files[q], made')
      BY <3>1, MoreContents
    <3> QED
      BY <1>1, <2>2, <3>1, <3>2 DEF PathOK
  <2> QED
    BY <2>1, <2>2
<1> QED
  BY <1>1, <1>2 DEF FilesOK

\* Nothing is checked, after a tool has begun.
LEMMA UncheckedOK == Unchecked => Checking' /\ checked' = NoPath /\ result' # "running"
BY ToolsAssumption DEF Unchecked, Checking, Passed, AcceptsSmall

\* While a tool is at work nothing is checked.
LEMMA NoCheck == Checking /\ checked = NoPath /\ UNCHANGED checker => Checking'
<1> SUFFICES ASSUME Checking, checked = NoPath, UNCHANGED checker PROVE Checking'
  OBVIOUS
<1>1. checked' = NoPath /\ NoPath \notin Paths
  BY ToolsAssumption DEF checker
<1>2. Passed' /\ AcceptsSmall'
  BY DEF Checking, Passed, AcceptsSmall, checker
<1> QED
  BY <1>1, <1>2 DEF Checking

\* The invariant holds at first, and each step below preserves it.
LEMMA InitInv == CfgInit => ToolsInv
<1> SUFFICES ASSUME CfgInit PROVE ToolsInv
  OBVIOUS
<1>1. FilesOK
  <2> DEFINE c == Config(Shipped)
             first == CHOOSE path \in Paths : TRUE
  <2>1. /\ files = [path \in Paths |-> IF path = first THEN Built(c) ELSE Empty]
        /\ wanted = [path \in Paths |-> IF path = first THEN c ELSE Unknown]
        /\ made = {Built(c).data}
    BY DEF CfgInit
  <2>2. IsConfig(c)
    BY ConfigIsConfig
  <2> HIDE DEF c, first
  <2>3. FileOK(Built(c), made) /\ FileOK(Empty, made)
    BY <2>1, BuiltOK, EmptyOK
  <2>4. ASSUME NEW path \in Paths PROVE PathOK(path)
    BY <2>1, <2>2, <2>3 DEF PathOK
  <2> QED
    BY <2>1, <2>4 DEF FilesOK
<1>2. AtWork
  BY DEF CfgInit, AtWork, Underway, Editing
<1>3. Checking
  BY LengthsAssumption, ToolsAssumption DEF CfgInit, Init, Checking, Passed, AcceptsSmall
<1> QED
  BY <1>1, <1>2, <1>3 DEF ToolsInv

LEMMA StartBuildInv ==
    ASSUME ToolsInv, NEW json \in Jsons, NEW out \in Paths, StartBuild(json, out)
    PROVE  ToolsInv'
<1>1. /\ files' = [files EXCEPT ![out] = Empty] /\ wanted' = [wanted EXCEPT ![out] = Unknown]
      /\ made' = made /\ tool' = "build" /\ job'.out = out /\ Unchecked
  BY DEF StartBuild, Begin
<1>2. /\ DOMAIN wanted' = Paths /\ wanted'[out] = Unknown
      /\ \A q \in Paths \ {out} : wanted'[q] = wanted[q]
  BY <1>1 DEF ToolsInv, FilesOK
<1>3. FilesOK'
  BY <1>1, <1>2, EmptyOK, OneFile DEF ToolsInv
<1>4. Checking' /\ checked' = NoPath /\ result' # "running"
  BY <1>1, UncheckedOK
<1>5. AtWork'
  BY <1>1, <1>2, <1>4 DEF AtWork, Underway, Editing
<1> QED
  BY <1>3, <1>4, <1>5 DEF ToolsInv

\* The file a tool has finished, with what it is meant to be.
LEMMA FinishInv ==
    ASSUME ToolsInv, tool # "idle", NEW w, Finish(w), UNCHANGED checker, made \subseteq made',
           NEW f, files' = [files EXCEPT ![job.out] = f], FileOK(f, made'),
           w # Unknown => IsConfig(w) /\ f = Built(w)
    PROVE  ToolsInv'
<1>1. /\ job.out \in Paths /\ wanted[job.out] = Unknown /\ checked = NoPath
      /\ wanted' = [wanted EXCEPT ![job.out] = w] /\ tool' = "idle"
  BY DEF Finish, ToolsInv, AtWork
<1>2. /\ DOMAIN wanted' = Paths /\ wanted'[job.out] = w
      /\ \A q \in Paths \ {job.out} : wanted'[q] = wanted[q]
  BY <1>1 DEF ToolsInv, FilesOK
<1>3. FilesOK'
  BY <1>1, <1>2, OneFile DEF ToolsInv
<1>4. AtWork'
  BY <1>1 DEF AtWork, Underway, Editing
<1>5. Checking'
  BY <1>1, NoCheck DEF ToolsInv
<1> QED
  BY <1>3, <1>4, <1>5 DEF ToolsInv

LEMMA BuildInv == ToolsInv /\ Build => ToolsInv'
<1> SUFFICES ASSUME ToolsInv, Build PROVE ToolsInv'
  OBVIOUS
<1> DEFINE c == Config(job.json)
<1>1. tool # "idle" /\ job.out \in Paths /\ UNCHANGED checker
  BY DEF Build, ToolsInv, AtWork
<1>2. CASE Finish(Unknown) /\ UNCHANGED <<files, made>>
  <2>1. files' = [files EXCEPT ![job.out] = files[job.out]] /\ FileOK(files[job.out], made')
    BY <1>1, <1>2 DEF ToolsInv, FilesOK, PathOK
  <2> QED
    BY <1>1, <1>2, <2>1, FinishInv
<1>3. CASE /\ Finish(c) /\ files' = [files EXCEPT ![job.out] = Built(c)]
           /\ made' = made \cup {Built(c).data}
  <2>1. IsConfig(c)
    BY ConfigIsConfig
  <2> HIDE DEF c
  <2>2. FileOK(Built(c), made')
    BY <1>3, BuiltOK
  <2> QED
    BY <1>1, <1>3, <2>1, <2>2, FinishInv
<1> QED
  BY <1>2, <1>3 DEF Build

LEMMA StartEditInv ==
    ASSUME ToolsInv, NEW edit \in Edits, NEW in \in Paths \cup {NoPath}, NEW out \in Paths,
           StartEdit(edit, in, out)
    PROVE  ToolsInv'
<1> DEFINE base == IF in \in Paths \ {out} THEN wanted[in] ELSE Unknown
           f == IF in = NoPath THEN files[out] ELSE Empty
<1>1. /\ wanted' = [wanted EXCEPT ![out] = Unknown]
      /\ made' = made /\ tool' = "copy" /\ Unchecked
      /\ job' = [edit |-> edit, in |-> in, out |-> out, base |-> base]
      /\ files' = IF in = NoPath THEN files ELSE [files EXCEPT ![out] = Empty]
  BY DEF StartEdit, Begin
<1>2. /\ DOMAIN wanted' = Paths /\ wanted'[out] = Unknown
      /\ \A q \in Paths \ {out} : wanted'[q] = wanted[q]
  BY <1>1 DEF ToolsInv, FilesOK
<1>3. files' = [files EXCEPT ![out] = f] /\ FileOK(f, made')
  <2>1. FileOK(files[out], made) /\ FileOK(Empty, made)
    BY EmptyOK DEF ToolsInv, FilesOK, PathOK
  <2>2. files = [files EXCEPT ![out] = files[out]]
    BY DEF ToolsInv, FilesOK
  <2> QED
    BY <1>1, <2>1, <2>2
<1> HIDE DEF f
<1>4. FilesOK'
  BY <1>1, <1>2, <1>3, OneFile DEF ToolsInv
<1>5. Checking' /\ checked' = NoPath /\ result' # "running"
  BY <1>1, UncheckedOK
<1>6. job'.out = out /\ job'.in = in /\ job'.edit = edit /\ job'.base = base
  BY <1>1
<1>7. base # Unknown =>
         /\ IsConfig(base) /\ in \in Paths \ {out} /\ files'[in] = Built(base)
  BY <1>1 DEF ToolsInv, FilesOK, PathOK
<1> HIDE DEF base
<1>8. Underway'
  BY <1>1, <1>6, <1>7 DEF Underway
<1>9. AtWork'
  BY <1>1, <1>2, <1>5, <1>6, <1>8 DEF AtWork, Editing
<1> QED
  BY <1>4, <1>5, <1>9 DEF ToolsInv

\* A step of the editor that writes its file and goes on.
LEMMA GoesOn ==
    ASSUME ToolsInv, tool # "idle", UNCHANGED <<wanted, made, job, checker>>,
           NEW f, files' = [files EXCEPT ![job.out] = f], FileOK(f, made)
    PROVE  /\ FilesOK' /\ Checking' /\ files'[job.out] = f
           /\ job.out \in Paths /\ wanted'[job'.out] = Unknown
           /\ checked' = NoPath /\ result' # "running"
<1>1. /\ job.out \in Paths /\ wanted[job.out] = Unknown /\ checked = NoPath /\ result # "running"
  BY DEF ToolsInv, AtWork
<1>2. DOMAIN wanted' = Paths /\ wanted'[job.out] = Unknown
  BY <1>1 DEF ToolsInv, FilesOK
<1>3. FilesOK'
  BY <1>1, <1>2, OneFile DEF ToolsInv
<1>4. Checking'
  BY <1>1, NoCheck DEF ToolsInv
<1>5. files'[job.out] = f
  BY <1>1 DEF ToolsInv, FilesOK
<1> QED
  BY <1>1, <1>3, <1>4, <1>5 DEF checker

LEMMA CopyInv == ToolsInv /\ Copy => ToolsInv'
<1> SUFFICES ASSUME ToolsInv, Copy PROVE ToolsInv'
  OBVIOUS
<1> DEFINE f == IF job.in = NoPath THEN files[job.out] ELSE files[job.in]
<1>1. /\ tool = "copy" /\ tool' = "field" /\ UNCHANGED <<wanted, made, job, checker>>
      /\ job.out \in Paths /\ job.edit \in Edits /\ job.in \in Paths \cup {NoPath}
  BY DEF Copy, ToolsInv, AtWork, Editing
<1>2. files' = [files EXCEPT ![job.out] = f] /\ FileOK(f, made)
  BY <1>1 DEF Copy, ToolsInv, FilesOK, PathOK
<1>3. job.base # Unknown => IsConfig(job.base) /\ f = Built(job.base)
  BY <1>1, ToolsAssumption DEF ToolsInv, AtWork, Underway, Editing
<1> HIDE DEF f
<1>4. /\ FilesOK' /\ Checking' /\ files'[job.out] = f
      /\ wanted'[job'.out] = Unknown /\ checked' = NoPath /\ result' # "running"
  BY <1>1, <1>2, GoesOn
<1>5. Underway'
  BY <1>1, <1>3, <1>4 DEF Underway
<1>6. AtWork'
  BY <1>1, <1>4, <1>5 DEF AtWork, Editing
<1> QED
  BY <1>4, <1>6 DEF ToolsInv

LEMMA WriteFieldInv == ToolsInv /\ WriteField => ToolsInv'
<1> SUFFICES ASSUME ToolsInv, WriteField PROVE ToolsInv'
  OBVIOUS
<1> DEFINE o == EditorOffset(job.edit)
           b == EditorBytes(job.edit)
           f == [files[job.out] EXCEPT !.data = Put(@, o, b)]
<1>1. /\ tool = "field" /\ tool' = "crc" /\ UNCHANGED <<wanted, made, job, checker>>
      /\ job.out \in Paths /\ job.edit \in Edits /\ job.in \in Paths \cup {NoPath}
      /\ ~EditorRefuses(job.edit)
  BY DEF WriteField, ToolsInv, AtWork, Editing
<1>2. files' = [files EXCEPT ![job.out] = f]
  BY DEF WriteField
<1>3. FileOK(files[job.out], made)
  BY <1>1 DEF ToolsInv, FilesOK, PathOK
<1>4. o \in 6..43 /\ IsBytes(b)
  BY <1>1, EditPlace
<1> HIDE DEF o, b
<1>5. FileOK(f, made)
  <2>1. o \in Nat /\ o >= 6
    BY <1>4
  <2> QED
    BY <1>3, <1>4, <2>1, PutOK
<1>6. f.data = Put(files[job.out].data, o, b)
  BY <1>3 DEF FileOK
<1>7. job.base # Unknown => IsConfig(job.base) /\ f.data = Put(Built(job.base).data, o, b)
  BY <1>1, <1>6 DEF ToolsInv, AtWork, Underway, Editing
<1> HIDE DEF f
<1>8. /\ FilesOK' /\ Checking' /\ files'[job.out] = f
      /\ wanted'[job'.out] = Unknown /\ checked' = NoPath /\ result' # "running"
  BY <1>1, <1>2, <1>5, GoesOn
<1>9. Underway'
  BY <1>1, <1>7, <1>8 DEF Underway, o, b
<1>10. AtWork'
  BY <1>1, <1>8, <1>9 DEF AtWork, Editing
<1> QED
  BY <1>8, <1>10 DEF ToolsInv

LEMMA RefuseEditInv == ToolsInv /\ RefuseEdit => ToolsInv'
<1> SUFFICES ASSUME ToolsInv, RefuseEdit PROVE ToolsInv'
  OBVIOUS
<1>1. /\ tool = "field" /\ Finish(job.base) /\ UNCHANGED <<files, made, checker>>
      /\ job.out \in Paths
  BY DEF RefuseEdit, ToolsInv, AtWork
<1>2. files' = [files EXCEPT ![job.out] = files[job.out]] /\ FileOK(files[job.out], made')
  BY <1>1 DEF ToolsInv, FilesOK, PathOK
<1>3. job.base # Unknown => IsConfig(job.base) /\ files[job.out] = Built(job.base)
  BY <1>1 DEF ToolsInv, AtWork, Underway, Editing
<1> QED
  BY <1>1, <1>2, <1>3, FinishInv

LEMMA WriteCrcInv == ToolsInv /\ WriteCrc => ToolsInv'
<1> SUFFICES ASSUME ToolsInv, WriteCrc PROVE ToolsInv'
  OBVIOUS
<1> DEFINE file == files[job.out]
           f == [file EXCEPT !.crc = file.data]
           w == IF job.base # Unknown /\ Plain(job.edit) THEN Edited(job.base, job.edit) ELSE Unknown
<1>1. /\ tool = "crc" /\ Finish(w) /\ UNCHANGED checker
      /\ job.out \in Paths /\ job.edit \in Edits /\ ~EditorRefuses(job.edit)
      /\ made' = made \cup {FirstBytes(file.data, CONFIG_SIZE - 4)}
  BY DEF WriteCrc, ToolsInv, AtWork, Editing
<1>2. files' = [files EXCEPT ![job.out] = f]
  BY DEF WriteCrc
<1>3. FileOK(file, made) /\ FileOK(file, made')
  BY <1>1, MoreContents DEF ToolsInv, FilesOK, PathOK
<1>4. f = [crc |-> file.data, data |-> file.data]
  BY <1>3 DEF FileOK
<1>5. job.base # Unknown =>
         /\ IsConfig(job.base)
         /\ file.data = Put(Built(job.base).data, EditorOffset(job.edit), EditorBytes(job.edit))
  BY <1>1 DEF ToolsInv, AtWork, Underway, Editing
<1>6. w # Unknown => IsConfig(w) /\ f = Built(w)
  <2> SUFFICES ASSUME job.base # Unknown, Plain(job.edit)
               PROVE  LET e == Edited(job.base, job.edit) IN IsConfig(e) /\ f = Built(e)
    BY DEF w
  <2> DEFINE e == Edited(job.base, job.edit)
  <2>1. IsConfig(e) /\ file.data = Built(e).data
    BY <1>1, <1>5, EditMatches
  <2>2. Built(e) = [crc |-> Built(e).data, data |-> Built(e).data]
    BY BuiltBytes
  <2> HIDE DEF e, file
  <2>3. f = Built(e)
    BY <1>4, <2>1, <2>2
  <2> QED
    BY <2>1, <2>3 DEF e
<1> HIDE DEF file, w
<1>7. FileOK(f, made')
  BY <1>1, <1>3, CrcOK
<1> HIDE DEF f
<1> QED
  BY <1>1, <1>2, <1>6, <1>7, FinishInv

LEMMA KillToolInv == ToolsInv /\ KillTool => ToolsInv'
<1> SUFFICES ASSUME ToolsInv, KillTool PROVE ToolsInv'
  OBVIOUS
<1>1. /\ tool # "idle" /\ Finish(Unknown) /\ UNCHANGED <<made, checker>> /\ job.out \in Paths
  BY DEF KillTool, ToolsInv, AtWork
<1>2. \A path \in Paths : FileOK(files[path], made)
  BY DEF ToolsInv, FilesOK, PathOK
<1>3. \E f : files' = [files EXCEPT ![job.out] = f] /\ FileOK(f, made')
  <2>1. CASE UNCHANGED files
    <3>1. files' = [files EXCEPT ![job.out] = files[job.out]]
      BY <1>1, <2>1 DEF ToolsInv, FilesOK
    <3> QED
      BY <1>1, <1>2, <3>1
  <2>2. CASE /\ job.in \in Paths
             /\ \E n \in Cuts : files' = [files EXCEPT ![job.out] =
                   [files[job.in] EXCEPT !.data = FirstBytes(@, n)]]
    <3>1. PICK n \in Cuts : files' = [files EXCEPT ![job.out] =
                   [files[job.in] EXCEPT !.data = FirstBytes(@, n)]]
      BY <2>2
    <3>2. n \in Nat
      BY ToolsAssumption
    <3>3. FileOK([files[job.in] EXCEPT !.data = FirstBytes(@, n)], made)
      BY <1>2, <2>2, <3>2, CutOK
    <3> QED
      BY <1>1, <3>1, <3>3
  <2>3. CASE files' = [files EXCEPT ![job.out].crc = <<>>]
    <3>1. FileOK([files[job.out] EXCEPT !.crc = <<>>], made)
      BY <1>1, <1>2, CrcOK
    <3>2. files' = [files EXCEPT ![job.out] = [files[job.out] EXCEPT !.crc = <<>>]]
      BY <2>3
    <3> QED
      BY <1>1, <3>1, <3>2
  <2> QED
    BY <2>1, <2>2, <2>3 DEF KillTool
<1>4. PICK f : files' = [files EXCEPT ![job.out] = f] /\ FileOK(f, made')
  BY <1>3
<1> QED
  BY <1>1, <1>4, FinishInv

LEMMA DumpInv ==
    ASSUME ToolsInv, NEW path \in Paths, NEW out \in Paths, Dump(path, out)
    PROVE  ToolsInv'
<1> DEFINE f == [files[path] EXCEPT !.data = @ \o Padding]
<1>1. /\ wanted[path] # Unknown /\ tool' = "idle" /\ made' = made /\ Unchecked
      /\ files' = [files EXCEPT ![out] = f]
      /\ wanted' = [wanted EXCEPT ![out] = Unknown]
  BY DEF Dump
<1>2. FileOK(files[path], made) /\ Len(files[path].data) >= 2
  <2>1. FileOK(files[path], made) /\ files[path] = Built(wanted[path])
    BY <1>1 DEF ToolsInv, FilesOK, PathOK
  <2>2. Len(Built(wanted[path]).data) = 40
    BY BuiltBytes
  <2> QED
    BY <2>1, <2>2
<1>3. FileOK(f, made')
  BY <1>1, <1>2, DumpOK
<1> HIDE DEF f
<1>4. /\ DOMAIN wanted' = Paths /\ wanted'[out] = Unknown
      /\ \A q \in Paths \ {out} : wanted'[q] = wanted[q]
  BY <1>1 DEF ToolsInv, FilesOK
<1>5. FilesOK'
  BY <1>1, <1>3, <1>4, OneFile DEF ToolsInv
<1>6. AtWork'
  BY <1>1 DEF AtWork, Underway, Editing
<1> QED
  BY <1>1, <1>5, <1>6, UncheckedOK DEF ToolsInv

\* A file whose size field is not zero is one with the size of the configuration.
LEMMA FileSizes ==
    ASSUME NEW f, NEW contents, FileOK(f, contents)
    PROVE  FileLength(f) \in Nat /\ SizeField(f) \in {0, 44}
<1>1. Len(f.data) \in Nat
  BY DEF FileOK, IsBytes
<1>2. FileLength(f) \in Nat
  BY <1>1 DEF FileLength
<1>3. SizeField(f) \in {0, 44}
  BY <1>1, Layout DEF SizeField, FileOK
<1> QED
  BY <1>2, <1>3

LEMMA StartCheckInv ==
    ASSUME ToolsInv, NEW path \in Paths, StartCheck(path)
    PROVE  ToolsInv'
<1>1. /\ UNCHANGED <<files, wanted, made, tool, job>> /\ tool = "idle"
      /\ checked' = path /\ at' = "header" /\ result' = "running"
      /\ length' = FileLength(files[path]) /\ size' = SizeField(files[path])
      /\ crcGood' = (files[path].crc = FirstBytes(files[path].data, size' - CRC32_SIZE_BYTES))
  BY DEF StartCheck
<1>2. FilesOK'
  BY <1>1 DEF ToolsInv, FilesOK, PathOK
<1>3. AtWork'
  BY <1>1 DEF ToolsInv, AtWork, Underway, Editing
<1>4. length' \in Nat /\ size' \in Nat
  <2>1. FileLength(files[path]) \in Nat /\ SizeField(files[path]) \in {0, 44}
    BY FileSizes DEF ToolsInv, FilesOK, PathOK
  <2> QED
    BY <1>1, <2>1
<1>5. Passed' /\ AcceptsSmall'
  BY <1>1, <1>4 DEF Passed, AcceptsSmall
<1>6. Checking'
  BY <1>1, <1>5 DEF Checking
<1> QED
  BY <1>2, <1>3, <1>6 DEF ToolsInv

LEMMA CheckStepInv == ToolsInv /\ CheckStep => ToolsInv'
<1> SUFFICES ASSUME ToolsInv, CheckStep PROVE ToolsInv'
  OBVIOUS
<1>1. Next /\ UNCHANGED <<files, wanted, made, tool, job, checked>>
  BY DEF CheckStep
<1>2. result = "running" /\ UNCHANGED <<length, size, crcGood>>
  BY <1>1 DEF Next, ReadHeader, CheckSize, ReadData, WriteData, CompareCrc, Check
<1>3. FilesOK'
  BY <1>1 DEF ToolsInv, FilesOK, PathOK
<1>4. AtWork'
  <2>1. tool = "idle"
    BY <1>2 DEF ToolsInv, AtWork
  <2> QED
    BY <1>1, <2>1 DEF AtWork, Underway, Editing
<1>5. Passed' /\ AcceptsSmall'
  BY <1>1, PassedStep, SmallStep DEF ToolsInv, Checking
<1>6. Checking'
  BY <1>1, <1>2, <1>5 DEF ToolsInv, Checking
<1> QED
  BY <1>3, <1>4, <1>6 DEF ToolsInv

LEMMA StepInv == ToolsInv /\ [CfgNext]_cfgVars => ToolsInv'
<1> SUFFICES ASSUME ToolsInv, [CfgNext]_cfgVars PROVE ToolsInv'
  OBVIOUS
<1>1. ASSUME NEW out \in Paths, NEW json \in Jsons, StartBuild(json, out) PROVE ToolsInv'
  BY <1>1, StartBuildInv
<1>2. ASSUME NEW out \in Paths, NEW in \in Paths \cup {NoPath}, NEW edit \in Edits,
             StartEdit(edit, in, out)
      PROVE  ToolsInv'
  BY <1>2, StartEditInv
<1>3. ASSUME NEW out \in Paths, NEW path \in Paths, Dump(path, out) PROVE ToolsInv'
  BY <1>3, DumpInv
<1>4. CASE Build \/ Copy \/ RefuseEdit \/ WriteField \/ WriteCrc \/ KillTool
  BY <1>4, BuildInv, CopyInv, RefuseEditInv, WriteFieldInv, WriteCrcInv, KillToolInv
<1>5. CASE CheckStep
  BY <1>5, CheckStepInv
<1>6. ASSUME NEW path \in Paths, StartCheck(path) PROVE ToolsInv'
  BY <1>6, StartCheckInv
<1>7. CASE UNCHANGED cfgVars
  BY <1>7 DEF cfgVars, checker, ToolsInv, FilesOK, PathOK, AtWork, Underway, Checking,
              Passed, AcceptsSmall
<1> QED
  BY <1>1, <1>2, <1>3, <1>4, <1>5, <1>6, <1>7 DEF CfgNext

\* The editor knows the builder's layout and numbers: after any builds, edits, dumps and
\* kills, a file that is meant to hold a configuration is, CRC included, the file that
\* scu_bootloader_config_manager.py would make of it, whatever the values edited.
THEOREM EditorAgrees == CfgSpec => []EditorAgreesWithBuilder
<1>1. ToolsInv => EditorAgreesWithBuilder
  BY DEF ToolsInv, FilesOK, PathOK, EditorAgreesWithBuilder
<1> QED
  BY <1>1, InitInv, StepInv, PTL DEF CfgSpec

\* verify_file_crc.c never refuses such a file, however its checks and the other tools
\* take turns: 44 bytes are few enough for its int8_t.
THEOREM CompletedAccepted == CfgSpec => []CompletedIsValid
<1>1. ToolsInv => CompletedIsValid
  <2> SUFFICES ASSUME ToolsInv, checked \in Paths, wanted[checked] # Unknown
               PROVE  result # "invalid"
    BY DEF CompletedIsValid
  <2> DEFINE c == wanted[checked]
  <2>1. files[checked] = Built(c)
    BY DEF ToolsInv, FilesOK, PathOK
  <2> HIDE DEF c
  <2>2. /\ Built(c) = [crc |-> Built(c).data, data |-> Built(c).data]
        /\ Built(c).data = [i \in 1..40 |-> ByteAt(c, i + 3)]
        /\ Len(Built(c).data) = 40 /\ IsBytes(Built(c).data)
    BY BuiltBytes
  <2>3. Built(c).data[1] = 44 /\ Built(c).data[2] = 0
    BY <2>2, OtherBytes
  <2>4. FileLength(Built(c)) = 44
    <3>1. Built(c) # Empty
      <4>1. Built(c).data # <<>>
        BY <2>2, NotEmpty
      <4>2. Empty.data = <<>>
        BY DEF Empty
      <4> QED
        BY <4>1, <4>2
    <3> QED
      BY <2>2, <3>1 DEF FileLength
  <2>5. SizeField(Built(c)) = 44
    BY <2>2, <2>3 DEF SizeField
  <2>6. FirstBytes(Built(c).data, 40) = Built(c).data
    BY <2>2, FirstOfAll
  <2>7. Built(c).crc = Built(c).data
    BY <2>2
  <2>8. length = 44 /\ size = 44
    BY <2>1, <2>4, <2>5 DEF ToolsInv, Checking
  <2>9. crcGood
    <3>1. size - CRC32_SIZE_BYTES = 40
      BY <2>8 DEF CRC32_SIZE_BYTES
    <3>2. crcGood = (files[checked].crc = FirstBytes(files[checked].data, size - CRC32_SIZE_BYTES))
      BY DEF ToolsInv, Checking
    <3> QED
      BY <2>1, <2>6, <2>7, <3>1, <3>2
  <2>10. size % 4 = 0 /\ size \in 8..128 /\ size <= length
    BY <2>8
  <2> QED
    BY <2>9, <2>10 DEF ToolsInv, Checking, AcceptsSmall
<1> QED
  BY <1>1, InitInv, StepInv, PTL DEF CfgSpec

\* What verify_file_crc.c accepts, the builder or the editor has completed: a kill
\* between two steps or in the middle of one, the same file given twice, a value that
\* is refused or a dump of the flash never makes a configuration of its own.
THEOREM AcceptedWasCompleted == CfgSpec => []ValidWasCompleted
<1>1. ToolsInv => ValidWasCompleted
  <2> SUFFICES ASSUME ToolsInv, checked \in Paths, result = "valid"
               PROVE  FirstBytes(files[checked].data, size - CRC32_SIZE_BYTES) \in made
    BY DEF ValidWasCompleted
  <2> DEFINE f == files[checked]
  <2>1. /\ FileOK(f, made) /\ length = FileLength(f) /\ size = SizeField(f)
        /\ crcGood = (f.crc = FirstBytes(f.data, size - CRC32_SIZE_BYTES))
    BY DEF ToolsInv, FilesOK, PathOK, Checking
  <2>2. crcGood /\ size >= 8 /\ size <= length
    BY DEF ToolsInv, Checking, Passed
  <2> HIDE DEF f
  <2>3. size = 44 /\ size - CRC32_SIZE_BYTES = 40 /\ CONFIG_SIZE - 4 = 40
    BY <2>1, <2>2, FileSizes, Layout DEF CRC32_SIZE_BYTES
  <2>4. IsBytes(f.data) /\ Len(f.data) \in Nat /\ Len(f.data) >= 40
    BY <2>1, <2>2, <2>3 DEF FileOK, IsBytes, FileLength
  <2> DEFINE d == FirstBytes(f.data, 40)
  <2>5. Len(d) = 40 /\ IsBytes(d)
    BY <2>4, FirstBytesAre DEF AtMost
  <2>6. f.crc = d
    BY <2>1, <2>2, <2>3
  <2> HIDE DEF d
  <2>7. d # <<>> /\ FirstBytes(d, 40) = d
    BY <2>5, NotEmpty, FirstOfAll
  <2>8. d \in made
    BY <2>1, <2>3, <2>6, <2>7 DEF FileOK
  <2> QED
    BY <2>3, <2>8 DEF d, f
<1> QED
  BY <1>1, InitInv, StepInv, PTL DEF CfgSpec

\* The bytes its CRC covers are all in the file it accepts, when it runs among the tools.
THEOREM ToolsOnlyWhole == CfgSpec => []AcceptsOnlyWhole
<1>1. ToolsInv => AcceptsOnlyWhole
  BY DEF ToolsInv, Checking, Passed, AcceptsOnlyWhole
<1> QED
  BY <1>1, InitInv, StepInv, PTL DEF CfgSpec

\* It refuses no whole file of up to 128 bytes with a good CRC, when it runs among the tools.
THEOREM ToolsSmallAccepted == CfgSpec => []AcceptsSmall
<1>1. ToolsInv => AcceptsSmall
  BY DEF ToolsInv, Checking
<1> QED
  BY <1>1, InitInv, StepInv, PTL DEF CfgSpec
===============================================================================

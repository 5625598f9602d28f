-------------------------- MODULE ByteStore_proofs --------------------------
(***************************************************************************)
(* Proofs about Machine and ByteStore, for any even base of the bytes, any *)
(* strings and any conversion to bytes that tells strings apart.           *)
(***************************************************************************)
EXTENDS ByteStore, SequenceTheorems, TLAPS

-----------------------------------------------------------------------------
(***************************************************************************)
(* Arithmetic of the conversions.                                          *)
(***************************************************************************)
LEMMA Division ==
  ASSUME NEW n \in Int, NEW v \in Nat \ {0}
  PROVE  /\ n \div v \in Int /\ n % v \in 0 .. v - 1
         /\ n = (n \div v) * v + (n % v)
OBVIOUS

LEMMA SmallMultiple ==
  ASSUME NEW k \in Int, NEW v \in Nat \ {0}, NEW r \in 0 .. v - 1, NEW s \in 0 .. v - 1,
         k * v + r = s
  PROVE  k = 0 /\ r = s
<1>1. ASSUME k >= 1 PROVE FALSE
  <2>1. (k - 1) * v >= 0
    BY <1>1
  <2> QED  BY <2>1
<1>2. ASSUME k <= -1 PROVE FALSE
  <2>1. (-k - 1) * v >= 0
    BY <1>2
  <2> QED  BY <2>1
<1> QED  BY <1>1, <1>2

LEMMA Congruent ==
  ASSUME NEW n \in Int, NEW k \in Int, NEW v \in Nat \ {0}
  PROVE  (n + k * v) % v = n % v
<1> DEFINE m == n + k * v
           d == (m \div v) - (n \div v) - k
<1>1. m \in Int /\ k * v \in Int
  OBVIOUS
<1>2. /\ m = (m \div v) * v + (m % v) /\ m % v \in 0 .. v - 1 /\ m \div v \in Int
      /\ n = (n \div v) * v + (n % v) /\ n % v \in 0 .. v - 1 /\ n \div v \in Int
  BY <1>1, Division
<1>3. d \in Int
  BY <1>2
<1>4. d * v = (m \div v) * v - (n \div v) * v - k * v
  BY <1>2
<1>5. d * v + (m % v) = n % v
  <2> DEFINE a == (m \div v) * v
             b == (n \div v) * v
             c == k * v
  <2>1. a \in Int /\ b \in Int /\ c \in Int
    BY <1>2
  <2>2. m = a + (m % v) /\ n = b + (n % v) /\ m = n + c /\ d * v = a - b - c
    BY <1>2, <1>4
  <2> HIDE DEF a, b, c, m, d
  <2> QED  BY <1>1, <1>2, <1>3, <2>1, <2>2
<1>6. m % v = n % v
  <2> DEFINE r == m % v
             s == n % v
  <2>1. r \in 0 .. v - 1 /\ s \in 0 .. v - 1 /\ d \in Int /\ d * v + r = s
    BY <1>2, <1>3, <1>5
  <2> HIDE DEF r, s, d
  <2>2. r = s
    BY <2>1, SmallMultiple
  <2> QED  BY <2>2 DEF r, s
<1> QED  BY <1>6 DEF m

LEMMA SmallRemainder ==
  ASSUME NEW v \in Nat \ {0}, NEW u \in 0 .. v - 1
  PROVE  u % v = u /\ (u - v) % v = u
<1> DEFINE k == -1
<1>1. u % v = u /\ u \in Int /\ k \in Int
  OBVIOUS
<1>2. u + k * v = u - v
  OBVIOUS
<1> HIDE DEF k
<1>3. (u + k * v) % v = u % v
  BY <1>1, Congruent
<1> QED  BY <1>1, <1>2, <1>3

LEMMA BaseFacts ==
  /\ ByteBase \in Nat \ {0} /\ Word \in Nat \ {0} /\ Long \in Nat \ {0}
  /\ Word = ByteBase * ByteBase /\ Long = Word * Word
BY MachineAssumption DEF Word, Long

LEMMA SignedCongruent ==
  ASSUME NEW n \in Int, NEW v \in Nat \ {0}
  PROVE  /\ Signed(n, v) \in Int
         /\ Signed(n, v) % v = n % v
<1> DEFINE u == n % v
<1>1. u \in 0 .. v - 1
  BY Division
<1>2. u % v = u /\ (u - v) % v = u
  BY <1>1, SmallRemainder
<1>4. Signed(n, v) = u \/ Signed(n, v) = u - v
  BY DEF Signed
<1> HIDE DEF u
<1>5. Signed(n, v) \in Int /\ Signed(n, v) % v = u
  BY <1>1, <1>2, <1>4
<1> QED  BY <1>5 DEF u

LEMMA Reread ==
  ASSUME NEW v \in Nat \ {0}, NEW u \in 0 .. v - 1
  PROVE  Signed(u, v) \in Int /\ Signed(u, v) % v = u
BY SignedCongruent, SmallRemainder

\* Numbers that differ by a multiple of v convert to the same.
LEMMA SignedSame ==
  ASSUME NEW m \in Int, NEW n \in Int, NEW v, m % v = n % v
  PROVE  Signed(m, v) = Signed(n, v)
BY DEF Signed

\* A number that fits survives the conversion.
LEMMA SignedFits ==
  ASSUME NEW v \in Nat \ {0}, NEW n \in Nat, n < v \div 2
  PROVE  Signed(n, v) = n
<1>1. v \div 2 <= v
  OBVIOUS
<1>2. n % v = n
  BY <1>1
<1> QED  BY <1>2 DEF Signed

\* A number from its remainder and anything congruent to its quotient.
LEMMA Joined ==
  ASSUME NEW n \in Int, NEW v \in Nat \ {0}, NEW w \in Nat \ {0}, NEW q \in Int,
         q % w = (n \div v) % w
  PROVE  ((n % v) + q * v) % (v * w) = n % (v * w)
<1> DEFINE d == n \div v
           j == (q \div w) - (d \div w)
           r == n % v
<1>1. d \in Int /\ r \in Int /\ n = d * v + r
  BY Division
<1>2. /\ q \div w \in Int /\ q % w \in Int /\ q = (q \div w) * w + (q % w)
      /\ d \div w \in Int /\ d = (d \div w) * w + (d % w)
  BY <1>1, Division
<1>3. j \in Int /\ q = d + j * w
  <2> DEFINE a == q \div w
             c == d \div w
  <2>1. a \in Int /\ c \in Int /\ q - a * w = d - c * w /\ j = a - c
    BY <1>1, <1>2
  <2> HIDE DEF a, c, j, d
  <2>2. a * w - c * w = (a - c) * w
    BY <2>1
  <2> QED  BY <1>1, <2>1, <2>2
<1> HIDE DEF d, j, r
<1>4. r + q * v = n + j * (v * w)
  <2>1. q * v = d * v + (j * w) * v
    BY <1>1, <1>3
  <2>2. (j * w) * v = j * (v * w)
    BY <1>3
  <2> QED  BY <1>1, <1>3, <2>1, <2>2
<1>5. v * w \in Nat \ {0}
  OBVIOUS
<1> DEFINE vw == v * w
<1> HIDE DEF vw
<1>6. (n + j * vw) % vw = n % vw
  BY <1>3, <1>5, Congruent DEF vw
<1> QED  BY <1>4, <1>6 DEF vw, r

-----------------------------------------------------------------------------
(***************************************************************************)
(* Reading undoes writing: the bytes of bytes stand in b from i on.        *)
(***************************************************************************)
Holds(b, i, bytes) == \A j \in 1 .. Len(bytes) : b[i + j - 1] = bytes[j]

LEMMA Int16Bytes ==
  ASSUME NEW n \in Int
  PROVE  /\ WriteInt16(n) = <<n % ByteBase, (n \div ByteBase) % ByteBase>>
         /\ WriteInt16(n) \in Seq(Byte) /\ Len(WriteInt16(n)) = 2
<1>1. Signed(n, ByteBase) % ByteBase = n % ByteBase
  BY BaseFacts, SignedCongruent
<1>2. n \div ByteBase \in Int /\ n % ByteBase \in Byte
  BY BaseFacts, Division DEF Byte
<1>3. /\ Signed(n \div ByteBase, ByteBase) % ByteBase = (n \div ByteBase) % ByteBase
      /\ (n \div ByteBase) % ByteBase \in Byte
  BY BaseFacts, <1>2, SignedCongruent, Division DEF Byte
<1> DEFINE a == n % ByteBase
           c == (n \div ByteBase) % ByteBase
<1>4. WriteInt16(n) = <<a>> \o <<c>>
  BY <1>1, <1>3 DEF WriteInt16, WriteInt8
<1>5. a \in Byte /\ c \in Byte
  BY <1>2, <1>3
<1> HIDE DEF a, c
<1>6. <<a>> \o <<c>> = <<a, c>>
  <2>1. <<a>> \in Seq(Byte) /\ <<c>> \in Seq(Byte) /\ <<a, c>> \in Seq(Byte)
    BY <1>5
  <2>2. \A x, y \in Seq(Byte) : /\ x \o y \in Seq(Byte) /\ Len(x \o y) = Len(x) + Len(y)
                                /\ \A j \in 1 .. Len(x) + Len(y) :
                                     (x \o y)[j] = IF j <= Len(x) THEN x[j] ELSE y[j - Len(x)]
    BY ConcatProperties
  <2>3. <<a>> \o <<c>> \in Seq(Byte) /\ Len(<<a>> \o <<c>>) = 2
    BY <2>1, <2>2
  <2>4. (<<a>> \o <<c>>)[1] = a /\ (<<a>> \o <<c>>)[2] = c
    BY <2>1, <2>2
  <2> DEFINE t == <<a>> \o <<c>>
             u == <<a, c>>
  <2>5. u \in Seq(Byte) /\ Len(u) = 2 /\ u[1] = a /\ u[2] = c
    BY <2>1
  <2>6. t \in Seq(Byte) /\ Len(t) = 2 /\ t[1] = a /\ t[2] = c
    BY <2>3, <2>4
  <2> HIDE DEF t, u
  <2>7. t = u
    BY <2>5, <2>6, SeqEqual
  <2> QED  BY <2>7 DEF t, u
<1> QED  BY <1>4, <1>5, <1>6 DEF a, c

LEMMA Int16ReadBack ==
  ASSUME NEW n \in Int, NEW b, NEW i \in Int, Holds(b, i, WriteInt16(n))
  PROVE  ReadInt16(b, i) = Signed(n, Word)
<1> DEFINE q == n \div ByteBase
           hi == Signed(q % ByteBase, ByteBase)
<1>1. b[i] = n % ByteBase /\ b[i + 1] = q % ByteBase
  <2>1. b[i + 1 - 1] = WriteInt16(n)[1] /\ b[i + 2 - 1] = WriteInt16(n)[2]
    BY Int16Bytes DEF Holds
  <2> QED  BY <2>1, Int16Bytes
<1>2. q \in Int /\ n % ByteBase \in 0 .. ByteBase - 1 /\ q % ByteBase \in 0 .. ByteBase - 1
  BY BaseFacts, Division
<1>3. ReadInt8(b, i) % ByteBase = n % ByteBase
  BY <1>1, <1>2, BaseFacts, Reread DEF ReadInt8
<1>4. ReadInt8(b, i + 1) = hi /\ hi \in Int /\ hi % ByteBase = q % ByteBase
  BY <1>1, <1>2, BaseFacts, Reread DEF ReadInt8
<1> HIDE DEF hi
<1>5. ReadInt16(b, i) = Signed((n % ByteBase) + hi * ByteBase, Word)
  BY <1>3, <1>4 DEF ReadInt16
<1>6. ((n % ByteBase) + hi * ByteBase) % Word = n % Word
  <2>1. ((n % ByteBase) + hi * ByteBase) % (ByteBase * ByteBase) = n % (ByteBase * ByteBase)
    <3> DEFINE base == ByteBase
    <3>1. base \in Nat \ {0} /\ hi \in Int /\ hi % base = (n \div base) % base
      BY <1>4, BaseFacts
    <3> HIDE DEF base
    <3>2. ((n % base) + hi * base) % (base * base) = n % (base * base)
      BY <3>1, Joined
    <3> QED  BY <3>2 DEF base
  <2> QED  BY <2>1 DEF Word
<1>7. (n % ByteBase) + hi * ByteBase \in Int
  BY <1>2, <1>4, BaseFacts
<1> QED  BY <1>5, <1>6, <1>7, SignedSame

LEMMA ConcatBytes ==
  ASSUME NEW x \in Seq(Byte), NEW y \in Seq(Byte)
  PROVE  x \o y \in Seq(Byte) /\ Len(x \o y) = Len(x) + Len(y)
BY ConcatProperties

LEMMA HoldsParts ==
  ASSUME NEW b, NEW i \in Int, NEW x \in Seq(Byte), NEW y \in Seq(Byte), Holds(b, i, x \o y)
  PROVE  Holds(b, i, x) /\ Holds(b, i + Len(x), y)
<1>1. /\ Len(x) \in Nat /\ Len(y) \in Nat /\ Len(x \o y) = Len(x) + Len(y)
      /\ \A j \in 1 .. Len(x) + Len(y) :
           (x \o y)[j] = IF j <= Len(x) THEN x[j] ELSE y[j - Len(x)]
  BY ConcatProperties
<1>2. ASSUME NEW j \in 1 .. Len(x) PROVE b[i + j - 1] = x[j]
  BY <1>1 DEF Holds
<1>3. ASSUME NEW j \in 1 .. Len(y) PROVE b[i + Len(x) + j - 1] = y[j]
  <2>1. Len(x) + j \in 1 .. Len(x) + Len(y) /\ ~(Len(x) + j <= Len(x)) /\ Len(x) + j - Len(x) = j
    BY <1>1
  <2>2. b[i + (Len(x) + j) - 1] = y[j]
    BY <1>1, <2>1 DEF Holds
  <2>3. i + (Len(x) + j) - 1 = i + Len(x) + j - 1
    BY <1>1
  <2> QED  BY <2>2, <2>3
<1> QED  BY <1>2, <1>3 DEF Holds

LEMMA Int32Bytes ==
  ASSUME NEW n \in Int
  PROVE  WriteInt32(n) \in Seq(Byte) /\ Len(WriteInt32(n)) = 4
<1>1. Signed(n, Word) \in Int /\ Signed(n \div Word, Word) \in Int
  BY BaseFacts, Division, SignedCongruent
<1> DEFINE x == WriteInt16(Signed(n, Word))
           y == WriteInt16(Signed(n \div Word, Word))
<1>2. x \in Seq(Byte) /\ y \in Seq(Byte) /\ Len(x) = 2 /\ Len(y) = 2 /\ WriteInt32(n) = x \o y
  BY <1>1, Int16Bytes DEF WriteInt32
<1> HIDE DEF x, y
<1>3. x \o y \in Seq(Byte) /\ Len(x \o y) = 4
  <2>1. x \in Seq(Byte) /\ y \in Seq(Byte)
    BY <1>2
  <2>2. x \o y \in Seq(Byte) /\ Len(x \o y) = Len(x) + Len(y)
    BY <2>1, ConcatBytes
  <2> QED  BY <1>2, <2>2
<1> QED  BY <1>2, <1>3

LEMMA Int32ReadBack ==
  ASSUME NEW n \in Int, NEW b, NEW i \in Int, Holds(b, i, WriteInt32(n))
  PROVE  ReadInt32(b, i) = Signed(n, Long)
<1> DEFINE lo == Signed(n, Word)
           q == n \div Word
           hi == Signed(q, Word)
<1>1. /\ q \in Int /\ lo \in Int /\ hi \in Int
      /\ lo % Word = n % Word /\ hi % Word = q % Word
  BY BaseFacts, Division, SignedCongruent
<1>2. Holds(b, i, WriteInt16(lo)) /\ Holds(b, i + 2, WriteInt16(hi))
  BY <1>1, Int16Bytes, HoldsParts DEF WriteInt32
<1>3. ReadInt16(b, i) = Signed(lo, Word) /\ ReadInt16(b, i + 2) = Signed(hi, Word)
  BY <1>1, <1>2, Int16ReadBack
<1>4. ReadInt16(b, i) % Word = n % Word
  BY <1>1, <1>3, BaseFacts, SignedCongruent
<1> DEFINE top == ReadInt16(b, i + 2)
<1>5. top \in Int /\ top % Word = q % Word
  BY <1>1, <1>3, BaseFacts, SignedCongruent
<1>6. ReadInt32(b, i) = Signed((n % Word) + top * Word, Long)
  BY <1>4 DEF ReadInt32
<1>7. ((n % Word) + top * Word) % Long = n % Long
  <2> DEFINE base == Word
  <2>1. base \in Nat \ {0} /\ top \in Int /\ top % base = (n \div base) % base
    BY <1>5, BaseFacts
  <2> HIDE DEF base, top
  <2>2. ((n % base) + top * base) % (base * base) = n % (base * base)
    BY <2>1, Joined
  <2> QED  BY <2>2 DEF base, Long
<1> HIDE DEF top
<1>8. (n % Word) + top * Word \in Int
  BY <1>5, BaseFacts, Division
<1> QED  BY <1>6, <1>7, <1>8, SignedSame

LEMMA StringBytes ==
  ASSUME NEW s \in Strings
  PROVE  /\ Utf8[s] \in Seq(Byte) /\ StringLength(s) \in Nat \ {0}
         /\ WriteString(s) \in Seq(Byte) /\ Len(WriteString(s)) = StringSize(s)
<1>1. Utf8[s] \in Seq(Byte) /\ StringLength(s) \in Nat \ {0} /\ StringLength(s) = Len(Utf8[s]) + 1
  BY MachineAssumption DEF StringLength
<1>2. Signed(StringLength(s), Long) \in Int
  <2>1. StringLength(s) \in Int
    BY <1>1
  <2> HIDE DEF Signed
  <2> QED  BY <2>1, BaseFacts, SignedCongruent
<1> DEFINE x == WriteInt32(Signed(StringLength(s), Long))
           y == Utf8[s]
           z == <<0>>
<1>3. x \in Seq(Byte) /\ Len(x) = 4
  BY <1>2, Int32Bytes
<1>4. z \in Seq(Byte) /\ Len(z) = 1
  BY BaseFacts DEF Byte
<1>5. WriteString(s) = (x \o y) \o z
  BY DEF WriteString
<1>6. y \in Seq(Byte) /\ Len(y) = StringLength(s) - 1
  BY <1>1
<1> HIDE DEF x, y, z
<1>7. x \o y \in Seq(Byte) /\ Len(x \o y) = 4 + (StringLength(s) - 1)
  BY <1>3, <1>6, ConcatBytes
<1> DEFINE xy == x \o y
<1> HIDE DEF xy
<1>8. xy \o z \in Seq(Byte) /\ Len(xy \o z) = 4 + (StringLength(s) - 1) + 1
  BY <1>4, <1>7, ConcatBytes DEF xy
<1> QED  BY <1>1, <1>5, <1>8 DEF StringSize, xy, y

\* Whatever the bytes are, reading gives a string.
LEMMA ReadStringTyped ==
  ASSUME NEW b, NEW i
  PROVE  ReadString(b, i).string \in Strings
<1>1. ASSUME NEW bytes PROVE ToString(bytes) \in Strings
  <2>1. CASE \E s \in Strings : Utf8[s] = bytes
    BY <2>1 DEF ToString
  <2>2. CASE ~\E s \in Strings : Utf8[s] = bytes
    BY <2>2, MachineAssumption DEF ToString
  <2> QED  BY <2>1, <2>2
<1>2. ReadString(b, i).string = ToString(Slice(b, i + 4, ReadInt32(b, i) - 1))
  BY DEF ReadString
<1> QED  BY <1>1, <1>2

\* All lengths fit the 32 bits (2^31 - 1 bytes in the program).
Short == \A s \in Strings : StringLength(s) < Long \div 2

LEMMA LengthReadBack ==
  ASSUME Short, NEW s \in Strings
  PROVE  Signed(Signed(StringLength(s), Long), Long) = StringLength(s)
<1>1. StringLength(s) \in Nat /\ StringLength(s) < Long \div 2
  BY StringBytes DEF Short
<1>2. Signed(StringLength(s), Long) = StringLength(s)
  BY <1>1, BaseFacts, SignedFits
<1> QED  BY <1>2

LEMMA StringReadBack ==
  ASSUME Short, NEW s \in Strings, NEW b \in Seq(Byte), NEW i \in Nat \ {0},
         i + StringSize(s) - 1 <= Len(b), Holds(b, i, WriteString(s))
  PROVE  ReadString(b, i) = [string |-> s, end |-> i + StringSize(s)]
<1> DEFINE n == StringLength(s)
           x == WriteInt32(Signed(n, Long))
           y == Utf8[s]
           z == <<0>>
<1>1. n \in Nat \ {0} /\ y \in Seq(Byte) /\ Len(y) = n - 1 /\ StringSize(s) = 4 + n
  BY StringBytes DEF StringLength, StringSize
<1>2. Signed(n, Long) \in Int
  <2>1. n \in Int
    BY <1>1
  <2> HIDE DEF n
  <2> QED  BY <2>1, BaseFacts, SignedCongruent
<1>3. x \in Seq(Byte) /\ Len(x) = 4 /\ z \in Seq(Byte)
  BY <1>2, Int32Bytes, BaseFacts DEF Byte
<1>4. WriteString(s) = (x \o y) \o z
  BY DEF WriteString
<1> HIDE DEF x, y, z
<1> DEFINE xy == x \o y
<1> HIDE DEF xy
<1>5. xy \in Seq(Byte) /\ Holds(b, i, xy)
  <2>1. x \in Seq(Byte) /\ y \in Seq(Byte) /\ z \in Seq(Byte) /\ i \in Int
    BY <1>1, <1>3
  <2>2. xy \in Seq(Byte)
    BY <2>1, ConcatBytes DEF xy
  <2>3. Holds(b, i, xy \o z)
    BY <1>4 DEF xy
  <2> QED  BY <2>1, <2>2, <2>3, HoldsParts
<1>6. Holds(b, i, x) /\ Holds(b, i + 4, y)
  <2>1. x \in Seq(Byte) /\ y \in Seq(Byte) /\ i \in Int
    BY <1>1, <1>3
  <2>2. Holds(b, i, x \o y)
    BY <1>5 DEF xy
  <2>3. Holds(b, i, x) /\ Holds(b, i + Len(x), y)
    BY <2>1, <2>2, HoldsParts
  <2> QED  BY <1>3, <2>3
<1>7. ReadInt32(b, i) = n
  <2>1. ReadInt32(b, i) = Signed(Signed(n, Long), Long)
    BY <1>2, <1>6, Int32ReadBack DEF x
  <2> QED  BY <2>1, LengthReadBack
<1>8. Slice(b, i + 4, n - 1) = y
  <2> HIDE DEF n
  <2>1. i + 4 + (n - 1) - 1 <= Len(b) /\ Len(b) \in Nat
    BY <1>1
  <2> DEFINE t == SubSeq(b, i + 4, i + 4 + (n - 1) - 1)
  <2>2. Slice(b, i + 4, n - 1) = t
    BY <2>1, <1>1 DEF Slice
  <2>3. \A j \in i + 4 .. i + 4 + (n - 1) - 1 : b[j] \in Byte
    BY <1>1, <2>1
  <2>4. /\ t \in Seq(Byte) /\ Len(t) = n - 1
        /\ \A j \in 1 .. n - 1 : t[j] = b[i + 4 + j - 1]
    BY <1>1, <2>3, SubSeqProperties
  <2>5. \A j \in 1 .. n - 1 : t[j] = y[j]
    BY <1>1, <1>6, <2>4 DEF Holds
  <2> HIDE DEF t
  <2>6. t = y
    BY <1>1, <2>4, <2>5, SeqEqual
  <2> QED  BY <2>2, <2>6
<1>9. ToString(y) = s
  BY MachineAssumption DEF ToString, y
<1>10. ReadString(b, i) = [string |-> ToString(Slice(b, i + 4, n - 1)), end |-> i + 4 + n]
  BY <1>7 DEF ReadString
<1> QED  BY <1>1, <1>8, <1>9, <1>10

-----------------------------------------------------------------------------
(***************************************************************************)
(* Keys and values.                                                        *)
(***************************************************************************)
LEMMA DbtWhole == ASSUME NEW bytes \in Seq(Byte) PROVE Dbt(bytes, Len(bytes)) = bytes
<1>1. Len(bytes) \in Nat /\ ~(1 + Len(bytes) - 1 > Len(bytes)) /\ 1 + Len(bytes) - 1 = Len(bytes)
  OBVIOUS
<1>2. Dbt(bytes, Len(bytes)) = SubSeq(bytes, 1, Len(bytes))
  BY <1>1 DEF Dbt, Slice
<1> QED  BY <1>2, SubSeqFull

LEMMA StringDbt ==
  ASSUME NEW s \in Strings PROVE Dbt(WriteString(s), StringSize(s)) = WriteString(s)
BY StringBytes, DbtWhole

LEMMA TupleBytes ==
  ASSUME NEW ns \in Strings, NEW name \in Strings
  PROVE  /\ Tuple(ns, name) \in Seq(Byte) /\ Len(Tuple(ns, name)) = TupleSize(ns, name)
         /\ Dbt(Tuple(ns, name), TupleSize(ns, name)) = Tuple(ns, name)
<1>1. WriteString(ns) \in Seq(Byte) /\ WriteString(name) \in Seq(Byte)
  BY StringBytes
<1>2. /\ Tuple(ns, name) \in Seq(Byte)
      /\ Len(Tuple(ns, name)) = Len(WriteString(ns)) + Len(WriteString(name))
  BY <1>1, ConcatBytes DEF Tuple
<1>3. Len(Tuple(ns, name)) = TupleSize(ns, name)
  BY <1>2, StringBytes DEF TupleSize
<1> QED  BY <1>2, <1>3, DbtWhole

LEMMA ValueParsed ==
  ASSUME Short, NEW s \in Strings PROVE ReadString(WriteString(s), 1).string = s
<1>1. WriteString(s) \in Seq(Byte) /\ Len(WriteString(s)) = StringSize(s) /\ StringSize(s) \in Int
  BY StringBytes
<1>2. Holds(WriteString(s), 1, WriteString(s))
  BY <1>1 DEF Holds
<1> DEFINE b == WriteString(s)
<1>3. 1 + StringSize(s) - 1 <= Len(b) /\ b \in Seq(Byte)
  BY <1>1
<1> HIDE DEF b
<1>4. ReadString(b, 1) = [string |-> s, end |-> 1 + StringSize(s)]
  BY <1>2, <1>3, StringReadBack DEF b
<1> QED  BY <1>4 DEF b

LEMMA KeyParsed ==
  ASSUME Short, NEW ns \in Strings, NEW name \in Strings
  PROVE  SpaceOf(Tuple(ns, name)) = ns /\ NameOf(Tuple(ns, name)) = name
<1> DEFINE b == Tuple(ns, name)
           x == WriteString(ns)
           y == WriteString(name)
<1>1. /\ x \in Seq(Byte) /\ y \in Seq(Byte) /\ b = x \o y
      /\ Len(x) = StringSize(ns) /\ Len(y) = StringSize(name)
  BY StringBytes DEF Tuple
<1>2. b \in Seq(Byte) /\ Len(b) = StringSize(ns) + StringSize(name)
  BY TupleBytes DEF TupleSize
<1>3. StringSize(ns) \in Nat /\ StringSize(name) \in Nat
  BY StringBytes DEF StringSize
<1>4. Holds(b, 1, x) /\ Holds(b, 1 + StringSize(ns), y)
  <2> HIDE DEF b, x, y
  <2>1. Holds(b, 1, x \o y)
    BY <1>1, <1>2 DEF Holds
  <2>2. Holds(b, 1, x) /\ Holds(b, 1 + Len(x), y)
    BY <1>1, <2>1, HoldsParts
  <2> QED  BY <1>1, <2>2
<1>5. ReadString(b, 1) = [string |-> ns, end |-> 1 + StringSize(ns)]
  <2>1. 1 + StringSize(ns) - 1 <= Len(b)
    BY <1>2, <1>3
  <2> HIDE DEF b
  <2> QED  BY <1>2, <1>4, <2>1, StringReadBack
<1>6. ReadString(b, 1 + StringSize(ns)) = [string |-> name, end |-> 1 + StringSize(ns) + StringSize(name)]
  <2> DEFINE j == 1 + StringSize(ns)
  <2>1. j + StringSize(name) - 1 <= Len(b) /\ j \in Nat \ {0}
    BY <1>2, <1>3
  <2> HIDE DEF b, j
  <2>2. ReadString(b, j) = [string |-> name, end |-> j + StringSize(name)]
    BY <1>2, <1>4, <2>1, StringReadBack DEF j
  <2> QED  BY <2>2 DEF j
<1> HIDE DEF b
<1>7. SpaceOf(b) = ns /\ NameOf(b) = name
  BY <1>5, <1>6 DEF SpaceOf, NameOf
<1> QED  BY <1>7 DEF b

-----------------------------------------------------------------------------
(***************************************************************************)
(* Every buffer bdb_environment::put and __index_package fill is as long   *)
(* as the size the pass with NULL computed, whatever the strings are.      *)
(***************************************************************************)
LEMMA StringsAssumed == Spaces \subseteq Strings /\ Names \subseteq Strings /\ Values \subseteq Strings
BY ByteStoreAssumption

THEOREM BuffersAlwaysFit == Spec => []BuffersFit
<1>1. Init => BuffersFit
  BY DEF Init, BuffersFit
<1>2. BuffersFit /\ [Next]_vars => BuffersFit'
  <2> SUFFICES ASSUME BuffersFit, [Next]_vars PROVE BuffersFit'
    OBVIOUS
  <2>1. CASE UNCHANGED vars
    BY <2>1 DEF vars, BuffersFit
  <2>2. ASSUME NEW ns \in Spaces, NEW name \in Names, NEW val \in Values, Put(ns, name, val)
        PROVE  BuffersFit'
    <3> DEFINE key == Dbt(Tuple(ns, name), TupleSize(ns, name))
    <3>1. Len(Tuple(ns, name)) = TupleSize(ns, name) /\ Len(WriteString(val)) = StringSize(val)
      BY StringsAssumed, TupleBytes, StringBytes
    <3>2. Len(IndexPackage(key)) = StringSize(SpaceOf(key))
      BY ReadStringTyped, StringBytes DEF IndexPackage, SpaceOf
    <3>3. wrote' = {<<TupleSize(ns, name), Len(Tuple(ns, name))>>,
                    <<StringSize(val), Len(WriteString(val))>>,
                    <<StringSize(SpaceOf(key)), Len(IndexPackage(key))>>}
      BY <2>2 DEF Put
    <3> QED  BY <3>1, <3>2, <3>3 DEF BuffersFit
  <2> QED  BY <2>1, <2>2 DEF Next
<1> QED  BY <1>1, <1>2, PTL DEF Spec

-----------------------------------------------------------------------------
(***************************************************************************)
(* What the databases hold: one entry for every variable that was put, and *)
(* nothing else.                                                           *)
(***************************************************************************)
AllKeys == Spaces \X Names
Key(k)  == Tuple(k[1], k[2])
Defined == {k \in AllKeys : defs[k] # Default}

Kept == /\ defs \in [AllKeys -> Values \cup {Default}]
        /\ master = {<<Key(k), WriteString(defs[k])>> : k \in Defined}
        /\ index = {<<WriteString(k[1]), Key(k)>> : k \in Defined}

LEMMA KeyFacts ==
  ASSUME Short, NEW k \in AllKeys
  PROVE  /\ k = <<k[1], k[2]>> /\ k[1] \in Spaces /\ k[2] \in Names
         /\ SpaceOf(Key(k)) = k[1] /\ NameOf(Key(k)) = k[2]
         /\ \A j \in AllKeys : Key(j) = Key(k) => j = k
<1>1. \A j \in AllKeys : j = <<j[1], j[2]>> /\ j[1] \in Spaces /\ j[2] \in Names
  BY DEF AllKeys
<1>2. \A j \in AllKeys : SpaceOf(Key(j)) = j[1] /\ NameOf(Key(j)) = j[2]
  BY <1>1, StringsAssumed, KeyParsed DEF Key
<1>3. ASSUME NEW j \in AllKeys, Key(j) = Key(k) PROVE j = k
  <2>1. j[1] = k[1] /\ j[2] = k[2]
    BY <1>2, <1>3
  <2> QED  BY <1>1, <2>1
<1> QED  BY <1>1, <1>2, <1>3

LEMMA KeptStep == ASSUME Short, Kept, [Next]_vars PROVE Kept'
<1>1. CASE UNCHANGED vars
  BY <1>1 DEF vars, Kept, Defined
<1>2. ASSUME NEW ns \in Spaces, NEW name \in Names, NEW val \in Values, Put(ns, name, val)
      PROVE  Kept'
  <2> DEFINE p == <<ns, name>>
             entry == <<Key(p), WriteString(val)>>
  <2>1. p \in AllKeys /\ p[1] = ns /\ p[2] = name
    BY DEF AllKeys
  <2>2. Dbt(Tuple(ns, name), TupleSize(ns, name)) = Key(p)
    BY StringsAssumed, TupleBytes DEF Key
  <2>3. Dbt(WriteString(val), StringSize(val)) = WriteString(val)
    BY StringsAssumed, StringDbt
  <2>4. IndexPackage(Key(p)) = WriteString(ns)
    BY <2>1, KeyFacts DEF IndexPackage
  <2>5. /\ master' = {e \in master : e[1] # Key(p)} \cup {entry}
        /\ index' = index \cup {<<WriteString(ns), Key(p)>>}
        /\ defs' = [defs EXCEPT ![p] = val]
    BY <1>2, <2>2, <2>3, <2>4 DEF Put
  <2>6. val # Default
    BY ByteStoreAssumption
  <2> HIDE DEF p
  <2>7. /\ defs' \in [AllKeys -> Values \cup {Default}] /\ defs'[p] = val
        /\ \A k \in AllKeys : k # p => defs'[k] = defs[k]
    BY <2>1, <2>5 DEF Kept
  <2>8. Defined' = Defined \cup {p}
    BY <2>1, <2>6, <2>7 DEF Defined
  <2>9. \A k \in Defined : k \in AllKeys /\ (k # p => Key(k) # Key(p))
    BY <2>1, KeyFacts DEF Defined
  <2>10. master' = {<<Key(k), WriteString(defs'[k])>> : k \in Defined'}
    <3>1. ASSUME NEW e \in master' PROVE \E k \in Defined' : e = <<Key(k), WriteString(defs'[k])>>
      <4>1. CASE e = entry
        BY <2>7, <2>8, <4>1
      <4>2. CASE e \in master /\ e[1] # Key(p)
        <5>1. PICK k \in Defined : e = <<Key(k), WriteString(defs[k])>>
          BY <4>2 DEF Kept
        <5> QED  BY <2>7, <2>8, <2>9, <4>2, <5>1
      <4> QED  BY <2>5, <3>1, <4>1, <4>2
    <3>2. ASSUME NEW k \in Defined' PROVE <<Key(k), WriteString(defs'[k])>> \in master'
      <4>1. CASE k = p
        BY <2>5, <2>7, <4>1
      <4>2. CASE k # p
        BY <2>5, <2>7, <2>8, <2>9, <4>2 DEF Kept
      <4> QED  BY <4>1, <4>2
    <3> QED  BY <3>1, <3>2
  <2>11. index' = {<<WriteString(k[1]), Key(k)>> : k \in Defined'}
    BY <2>1, <2>5, <2>8 DEF Kept
  <2> QED  BY <2>7, <2>10, <2>11 DEF Kept
<1> QED  BY <1>1, <1>2 DEF Next

LEMMA KeptInvariant == ASSUME Short PROVE Spec => []Kept
<1>1. Init => Kept
  BY DEF Init, Kept, Defined, AllKeys
<1>2. Kept /\ [Next]_vars => Kept'
  BY KeptStep
<1> QED  BY <1>1, <1>2, PTL DEF Spec

\* A look at the master finds the one value of the key.
LEMMA StoredValue ==
  ASSUME Short, Kept, NEW k \in AllKeys
  PROVE  /\ k \in Defined => /\ TooSmall(Key(k))
                             /\ ReadString(CHOOSE v \in Stored(Key(k)) : TRUE, 1).string = defs[k]
         /\ k \notin Defined => ~TooSmall(Key(k)) /\ defs[k] = Default
<1>1. ASSUME NEW v PROVE v \in Stored(Key(k)) <=> k \in Defined /\ v = WriteString(defs[k])
  <2>1. v \in Stored(Key(k)) <=> \E e \in master : e[1] = Key(k) /\ v = e[2]
    BY DEF Stored
  <2>2. \A j \in Defined : j \in AllKeys /\ (Key(j) = Key(k) => j = k)
    BY KeyFacts DEF Defined
  <2>3. ASSUME NEW e \in master, e[1] = Key(k) PROVE k \in Defined /\ e[2] = WriteString(defs[k])
    <3>1. PICK j \in Defined : e = <<Key(j), WriteString(defs[j])>>
      BY DEF Kept
    <3> QED  BY <2>2, <2>3, <3>1
  <2>4. ASSUME k \in Defined PROVE <<Key(k), WriteString(defs[k])>> \in master
    BY <2>4 DEF Kept
  <2> QED  BY <2>1, <2>3, <2>4
<1>3. CASE k \in Defined
  <2>1. Stored(Key(k)) = {WriteString(defs[k])}
    BY <1>1, <1>3
  <2>2. defs[k] \in Strings
    BY <1>3, StringsAssumed DEF Kept, Defined
  <2>3. Len(WriteString(defs[k])) > 0
    BY <2>2, StringBytes DEF StringSize
  <2> QED  BY <1>3, <2>1, <2>2, <2>3, ValueParsed DEF TooSmall
<1>4. CASE k \notin Defined
  BY <1>1, <1>4 DEF Defined, TooSmall
<1> QED  BY <1>3, <1>4

(***************************************************************************)
(* The types, and one value for a key in the database.                     *)
(***************************************************************************)
THEOREM StoreTypeCorrect == ASSUME Short PROVE Spec => []TypeOK
<1>1. Kept => TypeOK
  <2> SUFFICES ASSUME Kept PROVE TypeOK
    OBVIOUS
  <2>1. \A k \in Defined : /\ k \in AllKeys
                           /\ Key(k) \in Seq(Byte) /\ WriteString(defs[k]) \in Seq(Byte)
                           /\ WriteString(k[1]) \in Seq(Byte)
    <3> TAKE k \in Defined
    <3>1. k \in AllKeys /\ k[1] \in Strings /\ k[2] \in Strings /\ defs[k] \in Strings
      BY StringsAssumed DEF Kept, Defined, AllKeys
    <3> QED  BY <3>1, TupleBytes, StringBytes DEF Key
  <2>2. \A j, k \in Defined : Key(j) = Key(k) => j = k
    BY <2>1, KeyFacts
  <2>3. \A e \in master : \E k \in Defined : e = <<Key(k), WriteString(defs[k])>>
    BY DEF Kept
  <2>4. \A e, f \in master : e[1] = f[1] => e = f
    BY <2>2, <2>3
  <2>5. ASSUME NEW e \in index PROVE e[1] \in Seq(Byte) /\ e[2] \in {f[1] : f \in master}
    <3>1. PICK k \in Defined : e = <<WriteString(k[1]), Key(k)>>
      BY DEF Kept
    <3>2. <<Key(k), WriteString(defs[k])>> \in master
      BY DEF Kept
    <3>3. <<Key(k), WriteString(defs[k])>>[1] = Key(k)
      OBVIOUS
    <3> QED  BY <2>1, <3>1, <3>2, <3>3
  <2>6. \A e \in master : e[1] \in Seq(Byte) /\ e[2] \in Seq(Byte)
    BY <2>1, <2>3
  <2> QED  BY <2>4, <2>5, <2>6 DEF TypeOK, Kept, AllKeys
<1> QED  BY <1>1, KeptInvariant, PTL

(***************************************************************************)
(* get answers what was put last under exactly that namespace and name, as *)
(* long as all lengths fit the 32 bits.                                    *)
(***************************************************************************)
THEOREM GetIsRight == ASSUME Short PROVE Spec => []GetAnswersLastPut
<1>1. ASSUME Kept, NEW ns \in Spaces, NEW name \in Names
      PROVE  Get(ns, name) = defs[<<ns, name>>]
  <2> DEFINE k == <<ns, name>>
  <2>1. k \in AllKeys /\ Dbt(Tuple(ns, name), TupleSize(ns, name)) = Key(k)
    BY StringsAssumed, TupleBytes DEF AllKeys, Key
  <2> HIDE DEF k
  <2>2. Get(ns, name) = IF TooSmall(Key(k))
                        THEN ReadString(CHOOSE v \in Stored(Key(k)) : TRUE, 1).string
                        ELSE Default
    BY <2>1 DEF Get
  <2>3. Get(ns, name) = defs[k]
    BY <1>1, <2>1, <2>2, StoredValue
  <2> QED  BY <2>3 DEF k
<1>2. Kept => GetAnswersLastPut
  BY <1>1 DEF GetAnswersLastPut
<1> QED  BY <1>2, KeptInvariant, PTL

(***************************************************************************)
(* The listings parse back what was put: each namespace its own variables  *)
(* with their values, and the namespaces that have any.                    *)
(***************************************************************************)
THEOREM ListingsAreRight == ASSUME Short PROVE Spec => []ListingsAgree
<1>1. ASSUME Kept, NEW k \in Defined
      PROVE  /\ k \in AllKeys /\ k = <<k[1], k[2]>> /\ k[1] \in Spaces /\ k[2] \in Names
             /\ NameOf(Key(k)) = k[2]
             /\ ReadString(CHOOSE v \in Stored(Key(k)) : TRUE, 1).string = defs[k]
             /\ ReadString(WriteString(k[1]), 1).string = k[1]
  <2>1. k \in AllKeys
    BY DEF Defined
  <2> QED  BY <1>1, <2>1, StringsAssumed, KeyFacts, StoredValue, ValueParsed
<1>2. ASSUME Kept, NEW ns \in Spaces
      PROVE  List(ns) = {<<name, defs[<<ns, name>>]>> :
                           name \in {n \in Names : defs[<<ns, n>>] # Default}}
  <2> DEFINE shown(e) == <<NameOf(e[2]), ReadString(CHOOSE v \in Stored(e[2]) : TRUE, 1).string>>
  <2>1. Dbt(WriteString(ns), StringSize(ns)) = WriteString(ns)
    BY StringsAssumed, StringDbt
  <2>2. List(ns) = {shown(e) : e \in {e \in index : e[1] = WriteString(ns)}}
    BY <2>1 DEF List
  <2>3. ASSUME NEW k \in Defined PROVE shown(<<WriteString(k[1]), Key(k)>>) = <<k[2], defs[k]>>
    BY <1>1, <1>2
  <2> HIDE DEF shown
  <2>4. ASSUME NEW e \in index, e[1] = WriteString(ns)
        PROVE  \E name \in Names : defs[<<ns, name>>] # Default /\ shown(e) = <<name, defs[<<ns, name>>]>>
    <3>1. PICK k \in Defined : e = <<WriteString(k[1]), Key(k)>>
      BY <1>2 DEF Kept
    <3>2. k[1] = ns
      BY <1>1, <1>2, <2>4, <3>1, StringsAssumed, ValueParsed
    <3>3. k = <<ns, k[2]>> /\ k[2] \in Names /\ defs[k] # Default
      BY <1>1, <1>2, <3>2 DEF Defined
    <3> QED  BY <2>3, <3>1, <3>3
  <2>5. ASSUME NEW name \in Names, defs[<<ns, name>>] # Default
        PROVE  \E e \in index : e[1] = WriteString(ns) /\ shown(e) = <<name, defs[<<ns, name>>]>>
    <3> DEFINE k == <<ns, name>>
    <3>1. k \in Defined /\ k[1] = ns /\ k[2] = name
      BY <2>5 DEF Defined, AllKeys
    <3> HIDE DEF k
    <3>2. <<WriteString(ns), Key(k)>> \in index
      BY <1>2, <3>1 DEF Kept
    <3>3. shown(<<WriteString(ns), Key(k)>>) = <<name, defs[k]>>
      BY <2>3, <3>1
    <3>4. <<WriteString(ns), Key(k)>>[1] = WriteString(ns)
      OBVIOUS
    <3> QED  BY <3>2, <3>3, <3>4 DEF k
  <2> DEFINE right == {<<name, defs[<<ns, name>>]>> : name \in {n \in Names : defs[<<ns, n>>] # Default}}
  <2>6. ASSUME NEW x PROVE x \in List(ns) <=> x \in right
    <3>1. x \in List(ns) <=> \E e \in index : e[1] = WriteString(ns) /\ x = shown(e)
      BY <2>2
    <3>2. x \in right <=> \E name \in Names : defs[<<ns, name>>] # Default /\ x = <<name, defs[<<ns, name>>]>>
      OBVIOUS
    <3> QED  BY <2>4, <2>5, <3>1, <3>2
  <2> HIDE DEF right
  <2>9. List(ns) = right
    BY <2>6
  <2> QED  BY <2>9 DEF right
<1>3. ASSUME Kept
      PROVE  ListSpaces = {ns \in Spaces : \E name \in Names : defs[<<ns, name>>] # Default}
  <2>1. ASSUME NEW x PROVE x \in ListSpaces <=> \E k \in Defined : x = k[1]
    <3>1. x \in ListSpaces <=> \E e \in index : x = ReadString(e[1], 1).string
      BY DEF ListSpaces
    <3>2. \A e \in index : \E k \in Defined : e = <<WriteString(k[1]), Key(k)>>
      BY <1>3 DEF Kept
    <3>3. \A k \in Defined : <<WriteString(k[1]), Key(k)>> \in index
      BY <1>3 DEF Kept
    <3>4. \A k \in Defined : ReadString(<<WriteString(k[1]), Key(k)>>[1], 1).string = k[1]
      BY <1>1, <1>3
    <3>5. ASSUME NEW e \in index, x = ReadString(e[1], 1).string
          PROVE  \E k \in Defined : x = k[1]
      <4>1. PICK k \in Defined : e = <<WriteString(k[1]), Key(k)>>
        BY <3>2
      <4>2. x = k[1]
        BY <3>4, <3>5, <4>1
      <4> QED  BY <4>2
    <3>6. ASSUME NEW k \in Defined, x = k[1]
          PROVE  \E e \in index : x = ReadString(e[1], 1).string
      <4>1. x = ReadString(<<WriteString(k[1]), Key(k)>>[1], 1).string
        BY <3>4, <3>6
      <4> QED  BY <3>3, <4>1
    <3> QED  BY <3>1, <3>5, <3>6
  <2>2. ASSUME NEW x
        PROVE  (\E k \in Defined : x = k[1]) <=>
                 x \in {ns \in Spaces : \E name \in Names : defs[<<ns, name>>] # Default}
    <3>1. ASSUME NEW k \in Defined
          PROVE  k[1] \in Spaces /\ k[2] \in Names /\ defs[<<k[1], k[2]>>] # Default
      BY <1>1, <1>3 DEF Defined
    <3>2. ASSUME NEW ns \in Spaces, NEW name \in Names, defs[<<ns, name>>] # Default
          PROVE  \E k \in Defined : ns = k[1]
      <4>1. <<ns, name>> \in Defined /\ <<ns, name>>[1] = ns
        BY <3>2 DEF Defined, AllKeys
      <4> QED  BY <4>1
    <3>3. ASSUME NEW k \in Defined, x = k[1]
          PROVE  x \in Spaces /\ \E name \in Names : defs[<<x, name>>] # Default
      BY <3>1, <3>3
    <3>4. ASSUME x \in Spaces, NEW name \in Names, defs[<<x, name>>] # Default
          PROVE  \E k \in Defined : x = k[1]
      BY <3>2, <3>4
    <3> QED  BY <3>3, <3>4
  <2> QED  BY <2>1, <2>2
<1>4. Kept => ListingsAgree
  BY <1>2, <1>3 DEF ListingsAgree
<1> QED  BY <1>4, KeptInvariant, PTL
=============================================================================

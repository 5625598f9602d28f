------------------------------- MODULE Machine -------------------------------
(***************************************************************************)
(* rpmctl::machine: integers and strings as bytes, lowest byte first.  A   *)
(* string is its length in 32 bits, its UTF-8 bytes and a NUL, which the   *)
(* length counts.  Every write function returns the room it needs, and     *)
(* with a NULL buffer does nothing else: the Size operators.               *)
(***************************************************************************)
EXTENDS Integers, Sequences

CONSTANTS ByteBase,  \* the values of a byte, 256 in the program: even
          Strings,   \* the Unicode strings
          Utf8,      \* [Strings -> sequences of bytes], ICU's conversion
          Garbage    \* the string of replacement characters other bytes convert to

Byte == 0 .. ByteBase - 1

ASSUME MachineAssumption ==
  /\ ByteBase \in Nat \ {0} /\ ByteBase % 2 = 0
  /\ Utf8 \in [Strings -> Seq(Byte)]
  /\ \A s, t \in Strings : Utf8[s] = Utf8[t] => s = t
  /\ Garbage \in Strings

Word == ByteBase * ByteBase    \* the values of an int16_t
Long == Word * Word            \* the values of an int32_t

\* The conversion to a signed integer of `values' values.
Signed(n, values) == LET u == n % values
                     IN  IF u < values \div 2 THEN u ELSE u - values

Int32 == {Signed(n, Long) : n \in 0 .. Long - 1}

WriteInt8(n)  == <<n % ByteBase>>
WriteInt16(n) == WriteInt8(Signed(n, ByteBase)) \o WriteInt8(Signed(n \div ByteBase, ByteBase))
WriteInt32(n) == WriteInt16(Signed(n, Word)) \o WriteInt16(Signed(n \div Word, Word))

\* Reading starts at index i of the bytes b.
ReadInt8(b, i) == Signed(b[i], ByteBase)

\* (one & 0xFF) | (two << 8); the mutant forgets the mask.
ReadInt16Unmasked(b, i) == Signed(ReadInt8(b, i) + ReadInt8(b, i + 1) * ByteBase, Word)

ReadInt16(b, i) == Signed((ReadInt8(b, i) % ByteBase) + ReadInt8(b, i + 1) * ByteBase, Word)

ReadInt32(b, i) == Signed((ReadInt16(b, i) % Word) + ReadInt16(b, i + 2) * Word, Long)

StringLength(s) == Len(Utf8[s]) + 1

\* The mutant leaves the NUL out of account.
StringSizeWithoutNul(s) == 4 + Len(Utf8[s])

StringSize(s) == 4 + StringLength(s)

WriteString(s) == WriteInt32(Signed(StringLength(s), Long)) \o Utf8[s] \o <<0>>

\* The bytes of b from i on, n of them, as far as there are.
Slice(b, i, n) == SubSeq(b, i, IF i + n - 1 > Len(b) THEN Len(b) ELSE i + n - 1)

ToString(bytes) == IF \E s \in Strings : Utf8[s] = bytes
                   THEN CHOOSE s \in Strings : Utf8[s] = bytes
                   ELSE Garbage

\* UnicodeString(b+4, n-1, "UTF-8"), and where the next string starts.
ReadString(b, i) == LET n == ReadInt32(b, i)
                    IN  [string |-> ToString(Slice(b, i + 4, n - 1)), end |-> i + 4 + n]
=============================================================================

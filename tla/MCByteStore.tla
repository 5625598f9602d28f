----------------------------- MODULE MCByteStore -----------------------------
(***************************************************************************)
(* Bytes of four values, so that the strings' lengths reach the sign bit   *)
(* of the lowest byte, and the second byte.  "ab" under "" and "b" under   *)
(* "a" have the same characters.                                           *)
(***************************************************************************)
EXTENDS ByteStore

a == <<"a">>
b == <<"b">>
ab == <<"a", "b">>
long == <<"b", "b", "a", "b">>

replacement == <<"?">>

MCStrings == {<<>>, a, b, ab, long, replacement}

Utf8Char == [c \in {"a", "b", "?"} |-> CASE c = "a" -> <<1>> [] c = "b" -> <<3, 2>> [] OTHER -> <<2>>]

MCSpaces == {<<>>, a, long}
MCNames  == {ab, b}
MCValues == {<<>>, b}

MCUtf8 == [s \in MCStrings |->
  LET From[i \in 1 .. Len(s) + 1] ==
        IF i > Len(s) THEN <<>> ELSE Utf8Char[s[i]] \o From[i + 1]
  IN  From[1]]
=============================================================================

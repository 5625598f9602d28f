--------------------------- MODULE TemplateSyntax ---------------------------
(***************************************************************************)
(* The placeholder syntax of rpmctl's configuration templates, and the     *)
(* UnicodeString operations parser.hh applies to find placeholders.  A     *)
(* template is a sequence of characters; a placeholder is $(key) or        *)
(* $(ns::key) and ends at the first ")" that follows its "$(".             *)
(* Indices of IndexOf and Mid count from 0, as those of ICU do.            *)
(***************************************************************************)
EXTENDS Integers, Sequences

CONSTANTS Chars,      \* the characters a template is made of
          DefaultNs   \* the namespace handed to the parser's constructor

ASSUME CharsAssumption == {"$", "(", ")", ":"} \subseteq Chars

Opener    == <<"$", "(">>
Closer    == <<")">>
Separator == <<":", ":">>

Smallest(S) == CHOOSE i \in S : \A j \in S : i <= j

(***************************************************************************)
(* UnicodeString::indexOf(pattern, from): the index of the first occurrence*)
(* at or after from, -1 when there is none.                                *)
(***************************************************************************)
Hits(s, pattern, from) ==
  {i \in from .. Len(s) - Len(pattern) :
     SubSeq(s, i + 1, i + Len(pattern)) = pattern}

IndexOf(s, pattern, from) ==
  IF Hits(s, pattern, from) = {} THEN -1 ELSE Smallest(Hits(s, pattern, from))

\* UnicodeString(s, start, length): a negative length is clamped to none.
Mid(s, start, length) == SubSeq(s, start + 1, start + length)

\* s.remove(0, length)
Remove(s, length) == IF length <= 0 THEN s ELSE SubSeq(s, length + 1, Len(s))

-----------------------------------------------------------------------------
(***************************************************************************)
(* What the handler is told.  Text may arrive in pieces of any size (the   *)
(* handler only concatenates it), so a piece of text is one token per      *)
(* character.                                                              *)
(***************************************************************************)
CharToken(c) == [event |-> "on_text", char |-> c]

TextTokens(s) == [i \in 1 .. Len(s) |-> CharToken(s[i])]

\* The body of a placeholder is qualified when it holds a "::", split at the first.
PlaceholderToken(body) ==
  LET pos == IndexOf(body, Separator, 0)
  IN  IF pos # -1
      THEN [event |-> "on_qualified_variable",
            ns    |-> Mid(body, 0, pos),
            key   |-> Mid(body, pos + 2, Len(body) - pos - 2)]
      ELSE [event |-> "on_variable", ns |-> DefaultNs, key |-> body]

-----------------------------------------------------------------------------
(***************************************************************************)
(* The reference: the tokens of a whole template, read one character after *)
(* the other and without any buffer.                                       *)
(***************************************************************************)
OpensAt(s, i) == i < Len(s) /\ s[i] = "$" /\ s[i + 1] = "("

ClosersAfter(s, i) == {j \in i + 2 .. Len(s) : s[j] = ")"}

PlaceholderAt(s, i) == OpensAt(s, i) /\ ClosersAfter(s, i) # {}

CloserOf(s, i) == Smallest(ClosersAfter(s, i))

Separators(body) == {k \in 1 .. Len(body) - 1 : body[k] = ":" /\ body[k + 1] = ":"}

VariableToken(body) ==
  IF Separators(body) = {}
  THEN [event |-> "on_variable", ns |-> DefaultNs, key |-> body]
  ELSE [event |-> "on_qualified_variable",
        ns    |-> SubSeq(body, 1, Smallest(Separators(body)) - 1),
        key   |-> SubSeq(body, Smallest(Separators(body)) + 2, Len(body))]

Tokens(s) ==
  LET From[i \in 1 .. Len(s) + 1] ==
        IF i > Len(s) THEN <<>>
        ELSE IF PlaceholderAt(s, i)
             THEN <<VariableToken(SubSeq(s, i + 2, CloserOf(s, i) - 1))>>
                  \o From[CloserOf(s, i) + 1]
             ELSE <<CharToken(s[i])>> \o From[i + 1]
  IN  From[1]
=============================================================================

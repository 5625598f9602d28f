------------------------ MODULE TemplateParser_proofs ------------------------
(***************************************************************************)
(* For every set of templates, every alphabet and every buffer size: the   *)
(* parser is type correct, loses nothing, releases its handler once, never *)
(* reports a complete placeholder as text, and delivers the tokens of the  *)
(* whole template in order (it implements TokenStream).                    *)
(***************************************************************************)
EXTENDS TemplateParser, TLAPS, SequenceTheorems, NaturalsInduction, WellFoundedInduction

\* A non-empty set of natural numbers has a smallest member, and Smallest is it.
LEMMA SmallestIsLeast ==
  ASSUME NEW S \in SUBSET Nat, S # {}
  PROVE  /\ Smallest(S) \in S
         /\ \A j \in S : Smallest(S) <= j
<1> DEFINE R == OpToRel(<, Nat)
<1>1. PICK x \in S : \A y \in S : <<y, x>> \notin R
  <2>1. IsWellFoundedOn(R, Nat)
    BY NatLessThanWellFounded
  <2> HIDE DEF R
  <2> QED  BY <2>1, WFMin
<1>2. \A y \in S : x <= y
  <2> SUFFICES ASSUME NEW y \in S, ~(x <= y)  PROVE FALSE
    OBVIOUS
  <2>1. y < x /\ <<y, x>> \in Nat \X Nat
    OBVIOUS
  <2>2. <<y, x>> \in R
    BY <2>1 DEF OpToRel
  <2> QED  BY <1>1, <2>2
<1> QED  BY <1>1, <1>2 DEF Smallest

\* What indexOf returns: -1 when there is no occurrence, else the first one.
LEMMA IndexOfProperties ==
  ASSUME NEW s \in Seq(Chars), NEW pattern \in Seq(Chars), NEW from \in Nat
  PROVE  LET n == IndexOf(s, pattern, from)
         IN  /\ n = -1 <=> Hits(s, pattern, from) = {}
             /\ n # -1 => /\ n \in Hits(s, pattern, from)
                          /\ \A i \in Hits(s, pattern, from) : n <= i
<1>1. Hits(s, pattern, from) \in SUBSET Nat
  BY DEF Hits
<1>2. CASE Hits(s, pattern, from) = {}
  BY <1>2 DEF IndexOf
<1>3. CASE Hits(s, pattern, from) # {}
  <2>1. /\ Smallest(Hits(s, pattern, from)) \in Hits(s, pattern, from)
        /\ \A i \in Hits(s, pattern, from) : Smallest(Hits(s, pattern, from)) <= i
    BY <1>1, <1>3, SmallestIsLeast
  <2>2. IndexOf(s, pattern, from) = Smallest(Hits(s, pattern, from))
    BY <1>3 DEF IndexOf
  <2> QED  BY <1>1, <1>3, <2>1, <2>2
<1> QED  BY <1>2, <1>3

LEMMA PatternsAreStrings ==
  /\ Opener \in Seq(Chars) /\ Len(Opener) = 2
  /\ Closer \in Seq(Chars) /\ Len(Closer) = 1
BY CharsAssumption DEF Opener, Closer

\* An opener is found exactly where a "$" is followed by a "(".
LEMMA OpenerHits ==
  ASSUME NEW s \in Seq(Chars), NEW i \in 0 .. Len(s) - 2
  PROVE  i \in Hits(s, Opener, 0) <=> OpensAt(s, i + 1)
<1> DEFINE t == SubSeq(s, i + 1, i + 2)
<1>1. t \in Seq(Chars) /\ Len(t) = 2 /\ t[1] = s[i + 1] /\ t[2] = s[i + 2]
  OBVIOUS
<1>2. i \in Hits(s, Opener, 0) <=> t = Opener
  BY PatternsAreStrings DEF Hits
<1>3. t = Opener <=> t[1] = "$" /\ t[2] = "("
  <2> HIDE DEF t
  <2>1. ASSUME t[1] = "$", t[2] = "("  PROVE t = Opener
    BY <1>1, <2>1, PatternsAreStrings, SeqEqual DEF Opener
  <2> QED  BY <2>1 DEF Opener
<1> QED  BY <1>1, <1>2, <1>3 DEF OpensAt

\* A closer is found exactly where there is a ")".
LEMMA CloserHits ==
  ASSUME NEW s \in Seq(Chars), NEW from \in Nat, NEW i \in from .. Len(s) - 1
  PROVE  i \in Hits(s, Closer, from) <=> s[i + 1] = ")"
<1> DEFINE t == SubSeq(s, i + 1, i + 1)
<1>1. t \in Seq(Chars) /\ Len(t) = 1 /\ t[1] = s[i + 1]
  OBVIOUS
<1>2. i \in Hits(s, Closer, from) <=> t = Closer
  BY PatternsAreStrings DEF Hits
<1>3. t = Closer <=> t[1] = ")"
  <2> HIDE DEF t
  <2>1. ASSUME t[1] = ")"  PROVE t = Closer
    BY <1>1, <2>1, PatternsAreStrings, SeqEqual DEF Closer
  <2> QED  BY <2>1 DEF Closer
<1> QED  BY <1>1, <1>2, <1>3

-----------------------------------------------------------------------------
LEMMA Associativity ==
  ASSUME NEW a \in Seq(Chars), NEW b \in Seq(Chars), NEW c \in Seq(Chars)
  PROVE  (a \o b) \o c = a \o (b \o c)
BY ConcatAssociative

\* The parts of a sequence cut after its first k elements.
LEMMA Parts ==
  ASSUME NEW s \in Seq(Chars), NEW k \in 0 .. Len(s)
  PROVE  /\ SubSeq(s, 1, k) \in Seq(Chars)
         /\ Len(SubSeq(s, 1, k)) = k
         /\ SubSeq(s, k + 1, Len(s)) \in Seq(Chars)
         /\ Len(SubSeq(s, k + 1, Len(s))) = Len(s) - k
         /\ \A i \in 1 .. Len(s) - k : SubSeq(s, k + 1, Len(s))[i] = s[i + k]
         /\ SubSeq(s, 1, k) \o SubSeq(s, k + 1, Len(s)) = s
<1>1. /\ SubSeq(s, 1, k) \in Seq(Chars)
      /\ Len(SubSeq(s, 1, k)) = k
  OBVIOUS
<1>2. /\ SubSeq(s, k + 1, Len(s)) \in Seq(Chars)
      /\ Len(SubSeq(s, k + 1, Len(s))) = Len(s) - k
      /\ \A i \in 1 .. Len(s) - k : SubSeq(s, k + 1, Len(s))[i] = s[i + k]
  OBVIOUS
<1>3. SubSeq(s, 1, k) \o SubSeq(s, k + 1, Len(s)) = s
  <2>1. 1 \in 1 .. Len(s) + 1 /\ k \in 1 - 1 .. Len(s) /\ Len(s) \in k .. Len(s)
    OBVIOUS
  <2>2. SubSeq(s, 1, k) \o SubSeq(s, k + 1, Len(s)) = SubSeq(s, 1, Len(s))
    BY <2>1, ConcatAdjacentSubSeq, Zenon
  <2> QED  BY <2>2, SubSeqFull, Zenon
<1> QED  BY <1>1, <1>2, <1>3, Zenon

\* Cutting a buffer in two loses nothing; a negative length cuts nothing off.
LEMMA CutProperties ==
  ASSUME NEW s \in Seq(Chars), NEW k \in Int, k <= Len(s),
         NEW c, c = IF k <= 0 THEN 0 ELSE k
  PROVE  /\ c \in 0 .. Len(s)
         /\ Mid(s, 0, k) = SubSeq(s, 1, c)
         /\ Remove(s, k) = SubSeq(s, c + 1, Len(s))
<1>1. c \in 0 .. Len(s)
  OBVIOUS
<1>2. CASE k <= 0
  <2>1. Mid(s, 0, k) = SubSeq(s, 1, k) /\ SubSeq(s, 1, c) = <<>>
    BY <1>2 DEF Mid
  <2>2. SubSeq(s, 1, k) = <<>>
    BY <1>2, SubSeqEmpty
  <2>3. Remove(s, k) = s
    BY <1>2 DEF Remove
  <2>4. SubSeq(s, c + 1, Len(s)) = s
    BY <1>2, SubSeqFull
  <2> QED  BY <1>1, <2>1, <2>2, <2>3, <2>4
<1>3. CASE k > 0
  BY <1>1, <1>3 DEF Mid, Remove
<1> QED  BY <1>2, <1>3

LEMMA CutWhole ==
  ASSUME NEW s \in Seq(Chars), NEW k \in Int, k <= Len(s)
  PROVE  /\ Mid(s, 0, k) \in Seq(Chars)
         /\ Remove(s, k) \in Seq(Chars)
         /\ Mid(s, 0, k) \o Remove(s, k) = s
<1> DEFINE c == IF k <= 0 THEN 0 ELSE k
<1>1. /\ c \in 0 .. Len(s)
      /\ Mid(s, 0, k) = SubSeq(s, 1, c)
      /\ Remove(s, k) = SubSeq(s, c + 1, Len(s))
  BY CutProperties
<1> HIDE DEF c
<1> QED  BY <1>1, Parts, Zenon

\* Moving a prefix of the buffer to what was reported keeps the whole.
LEMMA MovePrefix ==
  ASSUME NEW r \in Seq(Chars), NEW a \in Seq(Chars), NEW b \in Seq(Chars),
         NEW u \in Seq(Chars), NEW s, s = a \o b
  PROVE  /\ r \o a \in Seq(Chars)
         /\ (r \o a) \o b \o u = r \o s \o u
<1>1. (r \o a) \o b = r \o s
  BY Associativity
<1>2. r \o a \in Seq(Chars)
  OBVIOUS
<1> QED  BY <1>1, <1>2

\* The characters of the buffer, seen in the template.
LEMMA Window ==
  ASSUME NEW r \in Seq(Chars), NEW s \in Seq(Chars), NEW u \in Seq(Chars),
         NEW w, w = r \o s \o u
  PROVE  /\ w \in Seq(Chars)
         /\ Len(w) = Len(r) + Len(s) + Len(u)
         /\ \A j \in 1 .. Len(s) : w[Len(r) + j] = s[j]
<1> DEFINE t == r \o s
<1>1. /\ t \in Seq(Chars)
      /\ Len(t) = Len(r) + Len(s)
      /\ \A j \in 1 .. Len(s) : t[Len(r) + j] = s[j]
  OBVIOUS
<1> HIDE DEF t
<1>2. t \in Seq(Chars)
  BY <1>1
<1>3. /\ t \o u \in Seq(Chars)
      /\ Len(t \o u) = Len(t) + Len(u)
      /\ \A j \in 1 .. Len(t) : (t \o u)[j] = t[j]
  BY <1>2
<1>4. w = t \o u
  BY DEF t
<1> QED  BY <1>1, <1>3, <1>4

-----------------------------------------------------------------------------
(***************************************************************************)
(* The strengthening.  Between two reads the buffer holds at most one      *)
(* character, or the beginning of a placeholder that has not been closed;  *)
(* that is why calling the rest of the buffer text, at the end of the      *)
(* file, cannot hide a complete placeholder.                               *)
(***************************************************************************)
HeldBack ==
  /\ pc \in {"start", "open", "refused"} => txt = <<>>
  /\ pc = "loop" => Len(txt) <= 1 \/ \A j \in 1 .. Len(txt) : txt[j] # ")"
  /\ feof => unread = <<>>

IInv == TypeOK /\ Lossless /\ NoPlaceholderLeaks /\ HandlerReleased /\ HeldBack

LEMMA InitIInv == Init => IInv
<1> SUFFICES ASSUME Init  PROVE IInv
  OBVIOUS
<1>1. template \in Seq(Chars)
  BY TemplatesAssumption DEF Init
<1>2. TypeOK
  <2>1. <<>> \in Seq(Chars)
    OBVIOUS
  <2>2. template \in Templates /\ unread = template /\ feof = FALSE /\ spans = {}
    BY DEF Init
  <2>3. pc = "start" /\ txt = <<>> /\ reported = <<>> /\ releases = 0
    BY DEF Init
  <2>4. feof \in BOOLEAN /\ spans \subseteq Tuples
    BY <2>2
  <2>5. pc \in {"start"} \cup TryBlock \cup Ended /\ releases \in 0 .. 1
    BY <2>3
  <2> QED  BY <1>1, <2>1, <2>2, <2>3, <2>4, <2>5 DEF TypeOK
<1>3. Lossless
  <2>1. reported \o Pending \o unread = <<>> \o <<>> \o template
    BY DEF Init, Pending
  <2>2. <<>> \o <<>> = <<>> /\ <<>> \o template = template
    BY <1>1, ConcatEmptySeq
  <2> QED  BY <2>1, <2>2 DEF Lossless
<1>4. NoPlaceholderLeaks /\ HandlerReleased /\ HeldBack
  BY DEF Init, NoPlaceholderLeaks, HandlerReleased, HeldBack
<1> QED  BY <1>2, <1>3, <1>4 DEF IInv

(***************************************************************************)
(* Reporting as text a part of the buffer in which no opener begins leaks  *)
(* no placeholder.                                                         *)
(***************************************************************************)
LEMMA PlainTextLeaksNothing ==
  ASSUME IInv, pc = "scan",
         NEW k \in 0 .. Len(txt),
         \A i \in 1 .. k : i < Len(txt) /\ ~OpensAt(txt, i)
  PROVE  \A i \in 1 .. Len(template) :
           (i <= Len(reported) + k /\ OpensAt(template, i) /\ ClosersAfter(template, i) # {})
             => \E sp \in spans : sp[1] <= i /\ i <= sp[2]
<1> SUFFICES ASSUME NEW i \in 1 .. Len(template), i <= Len(reported) + k,
                    OpensAt(template, i), ClosersAfter(template, i) # {}
             PROVE  \E sp \in spans : sp[1] <= i /\ i <= sp[2]
  OBVIOUS
<1>1. /\ reported \in Seq(Chars) /\ txt \in Seq(Chars) /\ unread \in Seq(Chars)
      /\ template = reported \o txt \o unread
  BY DEF IInv, TypeOK, Lossless, Pending
<1>2. CASE i <= Len(reported)
  BY <1>2 DEF IInv, NoPlaceholderLeaks
<1>3. CASE i > Len(reported)
  <2> DEFINE j == i - Len(reported)
  <2>1. \A l \in 1 .. Len(txt) : template[Len(reported) + l] = txt[l]
    BY <1>1, Window, SMTT(30)
  <2>2. j \in 1 .. k /\ j < Len(txt) /\ ~OpensAt(txt, j) /\ Len(reported) \in Nat
    BY <1>1, <1>3
  <2>3. template[i] = txt[j] /\ template[i + 1] = txt[j + 1]
    BY <1>1, <2>1, <2>2
  <2> QED  BY <2>2, <2>3 DEF OpensAt
<1> QED  BY <1>1, <1>2, <1>3

\* There is no opener before the first one.
LEMMA NoOpenerBefore ==
  ASSUME NEW s \in Seq(Chars), NEW n, n = IndexOf(s, Opener, 0)
  PROVE  /\ n = -1 => \A i \in 1 .. Len(s) - 1 : ~OpensAt(s, i)
         /\ n # -1 => /\ n \in 0 .. Len(s) - 2
                      /\ \A i \in 1 .. n : i < Len(s) /\ ~OpensAt(s, i)
<1>1. /\ n = -1 <=> Hits(s, Opener, 0) = {}
      /\ n # -1 => /\ n \in Hits(s, Opener, 0)
                   /\ \A i \in Hits(s, Opener, 0) : n <= i
  BY IndexOfProperties, PatternsAreStrings
<1>2. Hits(s, Opener, 0) \subseteq 0 .. Len(s) - 2
  BY PatternsAreStrings DEF Hits
<1>3. \A i \in 1 .. Len(s) - 1 : OpensAt(s, i) => i - 1 \in Hits(s, Opener, 0)
  <2> TAKE i \in 1 .. Len(s) - 1
  <2>1. i - 1 \in 0 .. Len(s) - 2 /\ (i - 1) + 1 = i
    OBVIOUS
  <2>2. i - 1 \in Hits(s, Opener, 0) <=> OpensAt(s, (i - 1) + 1)
    BY <2>1, OpenerHits
  <2> QED  BY <2>1, <2>2
<1> QED  BY <1>1, <1>2, <1>3

\* A closer that is found lies in the buffer, behind the opener's "$(".
LEMMA CloserBehind ==
  ASSUME NEW s \in Seq(Chars), NEW n \in 0 .. Len(s) - 2, OpensAt(s, n + 1),
         NEW m, m = IndexOf(s, Closer, n)
  PROVE  /\ m # -1 => m \in n + 2 .. Len(s) - 1 /\ s[m + 1] = ")"
         /\ m = -1 => \A j \in n + 1 .. Len(s) : s[j] # ")"
<1>1. /\ m = -1 <=> Hits(s, Closer, n) = {}
      /\ m # -1 => m \in Hits(s, Closer, n)
  BY IndexOfProperties, PatternsAreStrings
<1>2. Hits(s, Closer, n) \subseteq n .. Len(s) - 1
  BY PatternsAreStrings DEF Hits
<1>3. \A i \in n .. Len(s) - 1 : i \in Hits(s, Closer, n) <=> s[i + 1] = ")"
  BY CloserHits
<1>4. CASE m # -1
  <2>1. m \in n .. Len(s) - 1 /\ s[m + 1] = ")"
    BY <1>1, <1>2, <1>3, <1>4
  <2>2. s[n + 1] = "$" /\ s[n + 2] = "("
    BY DEF OpensAt
  <2> QED  BY <1>4, <2>1, <2>2
<1>5. CASE m = -1
  <2>1. \A i \in n .. Len(s) - 1 : s[i + 1] # ")"
    BY <1>1, <1>3, <1>5
  <2> SUFFICES ASSUME NEW j \in n + 1 .. Len(s)  PROVE s[j] # ")"
    BY <1>5
  <2>2. j - 1 \in n .. Len(s) - 1 /\ (j - 1) + 1 = j
    OBVIOUS
  <2> QED  BY <2>1, <2>2
<1> QED  BY <1>4, <1>5

-----------------------------------------------------------------------------
\* Steps that report nothing.
LEMMA QuietStep ==
  ASSUME IInv, UNCHANGED <<template, reported, spans>>
  PROVE  NoPlaceholderLeaks'
BY DEF IInv, NoPlaceholderLeaks, OpensAt, ClosersAfter

\* Steps that report the first k characters of the buffer as text.
LEMMA TextStep ==
  ASSUME IInv, pc = "scan", NEW k \in Int, k <= Len(txt),
         \A i \in 1 .. k : i < Len(txt) /\ ~OpensAt(txt, i),
         OnText(Mid(txt, 0, k)), UNCHANGED template
  PROVE  NoPlaceholderLeaks'
<1> DEFINE c == IF k <= 0 THEN 0 ELSE k
<1>1. reported \in Seq(Chars) /\ txt \in Seq(Chars)
  BY DEF IInv, TypeOK
<1>2. c \in 0 .. Len(txt) /\ Mid(txt, 0, k) = SubSeq(txt, 1, c)
  BY <1>1, CutProperties
<1>3. \A i \in 1 .. c : i < Len(txt) /\ ~OpensAt(txt, i)
  OBVIOUS
<1> HIDE DEF c
<1>4. Len(reported') = Len(reported) + c
  <2>1. SubSeq(txt, 1, c) \in Seq(Chars) /\ Len(SubSeq(txt, 1, c)) = c
    BY <1>1, <1>2, Parts
  <2>2. reported' = reported \o SubSeq(txt, 1, c)
    BY <1>2 DEF OnText
  <2> QED  BY <1>1, <2>1, <2>2
<1>5. \A i \in 1 .. Len(template) :
        (i <= Len(reported) + c /\ OpensAt(template, i) /\ ClosersAfter(template, i) # {})
          => \E sp \in spans : sp[1] <= i /\ i <= sp[2]
  BY <1>2, <1>3, PlainTextLeaksNothing
<1>6. spans' = spans
  BY DEF OnText
<1> QED  BY <1>4, <1>5, <1>6 DEF NoPlaceholderLeaks, OpensAt, ClosersAfter

LEMMA StartStep == ASSUME IInv, Start  PROVE IInv'
<1>1. TypeOK'
  <2>1. UNCHANGED <<template, unread, feof, txt, releases, reported, spans>>
    BY DEF Start, input, history
  <2>2. pc' \in {"start"} \cup TryBlock \cup Ended
    BY DEF Start, TryBlock, Ended
  <2> QED  BY <2>1, <2>2 DEF IInv, TypeOK
<1>2. Lossless' /\ HandlerReleased' /\ HeldBack'
  BY DEF IInv, Start, Lossless, Pending, HandlerReleased, HeldBack, input, history
<1>3. NoPlaceholderLeaks'
  BY QuietStep DEF Start, input, history
<1> QED  BY <1>1, <1>2, <1>3 DEF IInv

LEMMA OpenStep == ASSUME IInv, Open  PROVE IInv'
<1>1. TypeOK'
  BY DEF IInv, Open, TypeOK, input, history, TryBlock
<1>2. Lossless' /\ HandlerReleased' /\ HeldBack'
  BY DEF IInv, Open, Lossless, Pending, HandlerReleased, HeldBack, input, history
<1>3. NoPlaceholderLeaks'
  BY QuietStep DEF Open, input, history
<1> QED  BY <1>1, <1>2, <1>3 DEF IInv

LEMMA ReadStep == ASSUME IInv, Read  PROVE IInv'
<1>1. /\ reported \in Seq(Chars) /\ txt \in Seq(Chars) /\ unread \in Seq(Chars)
      /\ template = reported \o txt \o unread
  BY DEF IInv, TypeOK, Lossless, Pending, Read
<1>2. PICK n \in 0 .. BufSz :
        /\ n <= Len(unread)
        /\ txt' = txt \o SubSeq(unread, 1, n)
        /\ unread' = SubSeq(unread, n + 1, Len(unread))
        /\ feof' \in BOOLEAN
        /\ feof' => unread' = <<>>
  BY DEF Read
<1>3. n \in 0 .. Len(unread)
  BY <1>1, <1>2, BufSzAssumption
<1> DEFINE a == SubSeq(unread, 1, n)
           b == SubSeq(unread, n + 1, Len(unread))
<1>4. a \in Seq(Chars) /\ b \in Seq(Chars) /\ a \o b = unread
  BY <1>1, <1>3, Parts, Zenon
<1>5. txt' = txt \o a /\ unread' = b
  BY <1>2
<1> HIDE DEF a, b
<1>6. txt' \in Seq(Chars) /\ unread' \in Seq(Chars)
  BY <1>1, <1>4, <1>5
<1>7. reported \o txt' \o unread' = template
  <2>a. reported \in Seq(Chars) /\ txt \in Seq(Chars) /\ a \in Seq(Chars)
    BY <1>1, <1>4
  <2> DEFINE t == reported \o txt
  <2>1. t \in Seq(Chars)
    BY <2>a
  <2>2. t \o a = reported \o (txt \o a)
    BY ONLY <2>a, Associativity, Zenon DEF t
  <2> HIDE DEF t
  <2>3. (t \o a) \o b = t \o (a \o b)
    BY <1>4, <2>1, Associativity
  <2> QED  BY <1>1, <1>4, <1>5, <2>2, <2>3 DEF t
<1>8. /\ pc = "loop" /\ pc' = "scan"
      /\ UNCHANGED <<template, releases, reported, spans>>
  BY DEF Read, history
<1>9. TypeOK'
  <2>1. feof' \in BOOLEAN
    BY <1>2
  <2> QED  BY <1>6, <1>8, <2>1 DEF IInv, TypeOK, TryBlock
<1>10. Lossless'
  BY <1>7, <1>8 DEF Lossless, Pending
<1>11. HandlerReleased' /\ HeldBack'
  BY <1>2, <1>8 DEF IInv, HandlerReleased, HeldBack
<1>12. NoPlaceholderLeaks'
  BY <1>8, QuietStep
<1> QED  BY <1>9, <1>10, <1>11, <1>12 DEF IInv

LEMMA ReadNothingStep == ASSUME IInv, ReadNothing  PROVE IInv'
<1>1. /\ pc = "loop" /\ pc' = "scan"
      /\ UNCHANGED <<template, unread, feof, txt, releases, reported, spans>>
  BY DEF ReadNothing, input, history
<1>2. TypeOK'
  BY <1>1 DEF IInv, TypeOK, TryBlock
<1>3. Lossless' /\ HandlerReleased' /\ HeldBack'
  BY <1>1 DEF IInv, Lossless, Pending, HandlerReleased, HeldBack
<1>4. NoPlaceholderLeaks'
  BY <1>1, QuietStep
<1> QED  BY <1>2, <1>3, <1>4 DEF IInv

\* What the three scanning steps know of the state.
LEMMA ScanFacts ==
  ASSUME IInv, pc = "scan"
  PROVE  /\ reported \in Seq(Chars) /\ txt \in Seq(Chars) /\ unread \in Seq(Chars)
         /\ template = reported \o txt \o unread
         /\ template \in Templates /\ feof \in BOOLEAN /\ spans \subseteq Tuples
         /\ releases = 0 /\ (feof => unread = <<>>)
BY DEF IInv, TypeOK, Lossless, Pending, HandlerReleased, HeldBack

LEMMA ScanPlainStep == ASSUME IInv, ScanPlain  PROVE IInv'
<1> DEFINE k == Len(txt) - 1
<1>1. /\ pc = "scan" /\ pc' = "loop"
      /\ IndexOf(txt, Opener, 0) = -1
      /\ OnText(Mid(txt, 0, k))
      /\ txt' = Remove(txt, k)
      /\ UNCHANGED <<template, unread, feof, releases>>
  BY DEF ScanPlain, input
<1>2. /\ reported \in Seq(Chars) /\ txt \in Seq(Chars) /\ unread \in Seq(Chars)
      /\ template = reported \o txt \o unread
      /\ template \in Templates /\ feof \in BOOLEAN /\ spans \subseteq Tuples
      /\ releases = 0 /\ (feof => unread = <<>>)
  BY <1>1, ScanFacts
<1>3. k \in Int /\ k <= Len(txt)
  BY <1>2
<1>4. \A i \in 1 .. k : i < Len(txt) /\ ~OpensAt(txt, i)
  BY <1>1, <1>2, NoOpenerBefore
<1>5. reported' = reported \o Mid(txt, 0, k) /\ spans' = spans
  BY <1>1 DEF OnText
<1>6. Len(txt') <= 1
  <2> DEFINE c == IF k <= 0 THEN 0 ELSE k
  <2>1. c \in 0 .. Len(txt) /\ txt' = SubSeq(txt, c + 1, Len(txt))
    BY <1>1, <1>2, <1>3, CutProperties
  <2>2. c >= Len(txt) - 1
    BY <1>2
  <2> HIDE DEF c
  <2>3. Len(txt') = Len(txt) - c
    BY <1>2, <2>1, Parts
  <2> QED  BY <1>2, <2>1, <2>2, <2>3
<1> HIDE DEF k
<1>7. /\ reported' \in Seq(Chars) /\ txt' \in Seq(Chars)
      /\ reported' \o txt' \o unread' = template'
  <2> DEFINE a == Mid(txt, 0, k)
             b == Remove(txt, k)
  <2>1. a \in Seq(Chars) /\ b \in Seq(Chars) /\ txt = a \o b
    BY <1>2, <1>3, CutWhole
  <2>2. reported' = reported \o a /\ txt' = b
    BY <1>1, <1>5
  <2> HIDE DEF a, b
  <2>3. /\ reported \o a \in Seq(Chars)
        /\ (reported \o a) \o b \o unread = reported \o txt \o unread
    BY <1>2, <2>1, MovePrefix, SMTT(30)
  <2> QED  BY <1>1, <1>2, <2>1, <2>2, <2>3
<1>8. TypeOK'
  BY <1>1, <1>2, <1>5, <1>7 DEF TypeOK, TryBlock
<1>9. NoPlaceholderLeaks'
  BY <1>1, <1>3, <1>4, TextStep
<1>10. Lossless' /\ HandlerReleased' /\ HeldBack'
  BY <1>1, <1>2, <1>6, <1>7 DEF Lossless, Pending, HandlerReleased, HeldBack
<1> QED  BY <1>8, <1>9, <1>10 DEF IInv

LEMMA ScanUnclosedStep == ASSUME IInv, ScanUnclosed  PROVE IInv'
<1> DEFINE n == IndexOf(txt, Opener, 0)
<1>1. /\ pc = "scan" /\ pc' = "loop"
      /\ n # -1 /\ IndexOf(txt, Closer, n) = -1
      /\ OnText(Mid(txt, 0, n))
      /\ txt' = Remove(txt, n)
      /\ UNCHANGED <<template, unread, feof, releases>>
  BY DEF ScanUnclosed, input
<1>2. /\ reported \in Seq(Chars) /\ txt \in Seq(Chars) /\ unread \in Seq(Chars)
      /\ template = reported \o txt \o unread
      /\ template \in Templates /\ feof \in BOOLEAN /\ spans \subseteq Tuples
      /\ releases = 0 /\ (feof => unread = <<>>)
  BY <1>1, ScanFacts
<1>3. /\ n \in 0 .. Len(txt) - 2 /\ OpensAt(txt, n + 1)
      /\ \A i \in 1 .. n : i < Len(txt) /\ ~OpensAt(txt, i)
  <2>1. /\ n \in 0 .. Len(txt) - 2
        /\ \A i \in 1 .. n : i < Len(txt) /\ ~OpensAt(txt, i)
    BY <1>1, <1>2, NoOpenerBefore
  <2>2. n \in Hits(txt, Opener, 0)
    BY <1>1, <1>2, IndexOfProperties, PatternsAreStrings
  <2> QED  BY <1>2, <2>1, <2>2, OpenerHits
<1> HIDE DEF n
<1>4. \A j \in n + 1 .. Len(txt) : txt[j] # ")"
  BY <1>1, <1>2, <1>3, CloserBehind
<1>5. reported' = reported \o Mid(txt, 0, n) /\ spans' = spans
  BY <1>1 DEF OnText
<1>6. n \in Int /\ n <= Len(txt)
  BY <1>2, <1>3
<1>7. \A j \in 1 .. Len(txt') : txt'[j] # ")"
  <2> DEFINE c == IF n <= 0 THEN 0 ELSE n
  <2>1. Remove(txt, n) = SubSeq(txt, c + 1, Len(txt))
    BY <1>2, <1>6, CutProperties
  <2>a. c = n
    BY <1>2, <1>3
  <2> HIDE DEF c
  <2>2. /\ Len(txt') = Len(txt) - n
        /\ \A j \in 1 .. Len(txt) - n : txt'[j] = txt[j + n]
    BY <1>1, <1>2, <1>3, <2>1, <2>a, Parts, SMTT(30)
  <2>3. \A j \in 1 .. Len(txt) - n : j + n \in n + 1 .. Len(txt)
    BY <1>2, <1>3
  <2> QED  BY <1>4, <2>2, <2>3
<1>8. /\ reported' \in Seq(Chars) /\ txt' \in Seq(Chars)
      /\ reported' \o txt' \o unread' = template'
  <2> DEFINE a == Mid(txt, 0, n)
             b == Remove(txt, n)
  <2>1. a \in Seq(Chars) /\ b \in Seq(Chars) /\ txt = a \o b
    BY <1>2, <1>6, CutWhole
  <2>2. reported' = reported \o a /\ txt' = b
    BY <1>1, <1>5
  <2> HIDE DEF a, b
  <2>3. /\ reported \o a \in Seq(Chars)
        /\ (reported \o a) \o b \o unread = reported \o txt \o unread
    BY <1>2, <2>1, MovePrefix, SMTT(30)
  <2> QED  BY <1>1, <1>2, <2>1, <2>2, <2>3
<1>9. TypeOK'
  BY <1>1, <1>2, <1>5, <1>8 DEF TypeOK, TryBlock
<1>10. NoPlaceholderLeaks'
  BY <1>1, <1>3, <1>6, TextStep
<1>11. Lossless' /\ HandlerReleased' /\ HeldBack'
  BY <1>1, <1>2, <1>7, <1>8 DEF Lossless, Pending, HandlerReleased, HeldBack
<1> QED  BY <1>9, <1>10, <1>11 DEF IInv

LEMMA VariableRefusedStep == ASSUME IInv, VariableRefused  PROVE IInv'
<1> DEFINE n == IndexOf(txt, Opener, 0)
<1>1. /\ pc = "scan" /\ pc' = "failed"
      /\ n # -1
      /\ OnText(Mid(txt, 0, n))
      /\ releases' = releases + 1
      /\ UNCHANGED <<template, unread, feof, txt>>
  BY DEF VariableRefused, input
<1>2. /\ reported \in Seq(Chars) /\ txt \in Seq(Chars) /\ unread \in Seq(Chars)
      /\ template \in Templates /\ feof \in BOOLEAN /\ spans \subseteq Tuples
      /\ releases = 0 /\ (feof => unread = <<>>)
  BY <1>1, ScanFacts
<1>3. /\ n \in Int /\ n <= Len(txt)
      /\ \A i \in 1 .. n : i < Len(txt) /\ ~OpensAt(txt, i)
  BY <1>1, <1>2, NoOpenerBefore
<1> HIDE DEF n
<1>4. reported' \in Seq(Chars) /\ spans' = spans
  <2>1. Mid(txt, 0, n) \in Seq(Chars)
    BY <1>2, <1>3, CutWhole
  <2> QED  BY <1>1, <1>2, <2>1 DEF OnText
<1>5. TypeOK'
  BY <1>1, <1>2, <1>4 DEF TypeOK, Ended
<1>6. NoPlaceholderLeaks'
  BY <1>1, <1>3, TextStep
<1>7. Lossless' /\ HandlerReleased' /\ HeldBack'
  BY <1>1, <1>2 DEF Lossless, HandlerReleased, HeldBack
<1> QED  BY <1>5, <1>6, <1>7 DEF IInv

LEMMA ScanVariableStep == ASSUME IInv, ScanVariable  PROVE IInv'
<1> DEFINE n == IndexOf(txt, Opener, 0)
           m == IndexOf(txt, Closer, n)
           last == Len(reported) + m + 1
<1>1. /\ pc = "scan" /\ pc' = "scan"
      /\ n # -1 /\ m # -1
      /\ reported' = reported \o Mid(txt, 0, m + 1)
      /\ spans' = spans \cup {<<Len(reported) + n + 1, last>>}
      /\ txt' = Remove(txt, m + 1)
      /\ UNCHANGED <<template, unread, feof, releases>>
  BY DEF ScanVariable, input
<1>2. /\ reported \in Seq(Chars) /\ txt \in Seq(Chars) /\ unread \in Seq(Chars)
      /\ template = reported \o txt \o unread
      /\ template \in Templates /\ feof \in BOOLEAN /\ spans \subseteq Tuples
      /\ releases = 0 /\ (feof => unread = <<>>)
  BY <1>1, ScanFacts
<1>3. /\ n \in 0 .. Len(txt) - 2 /\ OpensAt(txt, n + 1)
      /\ \A i \in 1 .. n : i < Len(txt) /\ ~OpensAt(txt, i)
  <2>1. /\ n \in 0 .. Len(txt) - 2
        /\ \A i \in 1 .. n : i < Len(txt) /\ ~OpensAt(txt, i)
    BY <1>1, <1>2, NoOpenerBefore
  <2>2. n \in Hits(txt, Opener, 0)
    BY <1>1, <1>2, IndexOfProperties, PatternsAreStrings
  <2> QED  BY <1>2, <2>1, <2>2, OpenerHits
<1>4. m \in n + 2 .. Len(txt) - 1
  <2> HIDE DEF n
  <2> QED  BY <1>1, <1>2, <1>3, CloserBehind
<1> HIDE DEF n, m
<1>5. m + 1 \in Int /\ m + 1 <= Len(txt) /\ Len(reported) \in Nat /\ last \in Nat
  BY <1>2, <1>3, <1>4
<1> DEFINE a == Mid(txt, 0, m + 1)
           b == Remove(txt, m + 1)
<1>6. a \in Seq(Chars) /\ b \in Seq(Chars) /\ txt = a \o b
  BY <1>2, <1>5, CutWhole
<1>7. Len(a) = m + 1
  BY <1>2, <1>3, <1>4 DEF Mid
<1>8. reported' = reported \o a /\ txt' = b
  BY <1>1
<1> HIDE DEF a, b
<1>9. /\ reported' \in Seq(Chars) /\ txt' \in Seq(Chars)
      /\ reported' \o txt' \o unread' = template'
  <2>1. /\ reported \o a \in Seq(Chars)
        /\ (reported \o a) \o b \o unread = reported \o txt \o unread
    BY <1>2, <1>6, MovePrefix, SMTT(30)
  <2> QED  BY <1>1, <1>2, <1>6, <1>8, <2>1
<1>10. Len(reported') = last
  <2>1. Len(reported \o a) = Len(reported) + Len(a)
    <3>1. reported \in Seq(Chars) /\ a \in Seq(Chars)
      BY <1>2, <1>6
    <3> QED  BY <3>1
  <2>2. m \in Int
    BY <1>2, <1>3, <1>4
  <2> QED  BY <1>5, <1>7, <1>8, <2>1, <2>2
<1>11. TypeOK'
  <2>1. spans' \subseteq Tuples
    BY <1>1, <1>2, <1>3, <1>5 DEF Tuples
  <2> QED  BY <1>1, <1>2, <1>9, <2>1 DEF TypeOK, TryBlock
<1>12. NoPlaceholderLeaks'
  <2> SUFFICES ASSUME NEW i \in 1 .. Len(template), i <= last,
                      OpensAt(template, i), ClosersAfter(template, i) # {}
               PROVE  \E sp \in spans' : sp[1] <= i /\ i <= sp[2]
    BY <1>1, <1>10 DEF NoPlaceholderLeaks, OpensAt, ClosersAfter
  <2>1. CASE i <= Len(reported) + n
    <3>1. n \in 0 .. Len(txt)
      BY <1>2, <1>3
    <3>2. \E sp \in spans : sp[1] <= i /\ i <= sp[2]
      BY <1>1, <1>3, <2>1, <3>1, PlainTextLeaksNothing
    <3> QED  BY <1>1, <3>2
  <2>2. CASE i > Len(reported) + n
    <3> DEFINE sp == <<Len(reported) + n + 1, last>>
    <3>1. sp \in spans'
      BY <1>1
    <3>2. sp[1] <= i /\ i <= sp[2]
      BY <1>2, <1>3, <1>5, <2>2
    <3> QED  BY <3>1, <3>2
  <2> QED  BY <1>2, <1>3, <2>1, <2>2
<1>13. Lossless' /\ HandlerReleased' /\ HeldBack'
  BY <1>1, <1>2, <1>9 DEF Lossless, Pending, HandlerReleased, HeldBack
<1> QED  BY <1>11, <1>12, <1>13 DEF IInv

LEMMA FinishTextStep == ASSUME IInv, FinishText  PROVE IInv'
<1>1. /\ pc = "loop" /\ pc' = "eof" /\ feof
      /\ reported' = reported \o txt
      /\ UNCHANGED <<template, unread, feof, txt, releases, spans>>
  BY DEF FinishText, OnText, input
<1>2. /\ reported \in Seq(Chars) /\ txt \in Seq(Chars) /\ unread = <<>>
      /\ template = reported \o txt \o unread
      /\ template \in Templates /\ spans \subseteq Tuples
      /\ releases = 0
      /\ Len(txt) <= 1 \/ \A j \in 1 .. Len(txt) : txt[j] # ")"
  BY <1>1 DEF IInv, TypeOK, Lossless, Pending, HandlerReleased, HeldBack
<1>3. unread \in Seq(Chars) /\ Len(unread) = 0
  BY <1>2
<1>4. reported' \in Seq(Chars) /\ Len(reported') = Len(reported) + Len(txt)
  BY <1>1, <1>2
<1>5. Lossless'
  <2>1. reported' \o <<>> = reported'
    BY <1>4
  <2> QED  BY <1>1, <1>2, <2>1 DEF Lossless, Pending
<1>6. NoPlaceholderLeaks'
  <2> SUFFICES ASSUME NEW i \in 1 .. Len(template), OpensAt(template, i),
                      ClosersAfter(template, i) # {}
               PROVE  \E sp \in spans : sp[1] <= i /\ i <= sp[2]
    BY <1>1 DEF NoPlaceholderLeaks, OpensAt, ClosersAfter
  <2>1. /\ Len(template) = Len(reported) + Len(txt)
        /\ \A j \in 1 .. Len(txt) : template[Len(reported) + j] = txt[j]
    BY <1>2, <1>3, Window
  <2>2. CASE i <= Len(reported)
    BY <2>2 DEF IInv, NoPlaceholderLeaks
  <2>3. ASSUME i > Len(reported)  PROVE FALSE
    <3>1. PICK j \in i + 2 .. Len(template) : template[j] = ")"
      BY DEF ClosersAfter
    <3> DEFINE l == j - Len(reported)
    <3>2. l \in 1 .. Len(txt) /\ l > 1 /\ Len(reported) + l = j
      BY <1>2, <2>1, <2>3, <3>1
    <3>3. txt[l] = ")"
      BY <2>1, <3>1, <3>2
    <3> QED  BY <1>2, <3>2, <3>3
  <2> QED  BY <1>2, <2>2, <2>3
<1>7. TypeOK'
  BY <1>1, <1>2, <1>3, <1>4 DEF TypeOK, IInv, TryBlock
<1>8. HandlerReleased' /\ HeldBack'
  BY <1>1, <1>2 DEF HandlerReleased, HeldBack
<1> QED  BY <1>5, <1>6, <1>7, <1>8 DEF IInv

LEMMA FinishStep == ASSUME IInv, Finish  PROVE IInv'
<1>1. /\ pc = "eof" /\ pc' = "done" /\ releases' = releases + 1
      /\ UNCHANGED <<template, unread, feof, txt, reported, spans>>
  BY DEF Finish, input, history
<1>2. releases = 0
  BY <1>1 DEF IInv, HandlerReleased
<1>3. TypeOK'
  BY <1>1, <1>2 DEF IInv, TypeOK, Ended
<1>4. Lossless' /\ HandlerReleased' /\ HeldBack'
  BY <1>1, <1>2 DEF IInv, Lossless, Pending, HandlerReleased, HeldBack
<1>5. NoPlaceholderLeaks'
  BY <1>1, QuietStep
<1> QED  BY <1>3, <1>4, <1>5 DEF IInv

LEMMA RaiseStep == ASSUME IInv, Raise  PROVE IInv'
<1>1. /\ pc \in TryBlock /\ pc' = "failed" /\ releases' = releases + 1
      /\ UNCHANGED <<template, unread, feof, txt, reported, spans>>
  BY DEF Raise, input, history
<1>2. releases = 0
  BY <1>1 DEF IInv, HandlerReleased, TryBlock
<1>3. TypeOK'
  BY <1>1, <1>2 DEF IInv, TypeOK, Ended
<1>4. Lossless' /\ HandlerReleased' /\ HeldBack'
  BY <1>1, <1>2 DEF IInv, Lossless, HandlerReleased, HeldBack
<1>5. NoPlaceholderLeaks'
  BY <1>1, QuietStep
<1> QED  BY <1>3, <1>4, <1>5 DEF IInv

-----------------------------------------------------------------------------
LEMMA StutterStep == ASSUME IInv, UNCHANGED vars  PROVE IInv'
<1>1. UNCHANGED <<pc, template, unread, feof, txt, releases, reported, spans>>
  BY DEF vars
<1>2. TypeOK' /\ Lossless' /\ HandlerReleased' /\ HeldBack'
  BY <1>1 DEF IInv, TypeOK, Lossless, Pending, HandlerReleased, HeldBack
<1>3. NoPlaceholderLeaks'
  BY <1>1, QuietStep
<1> QED  BY <1>2, <1>3 DEF IInv

LEMMA NextIInv == IInv /\ [Next]_vars => IInv'
<1> SUFFICES ASSUME IInv, [Next]_vars  PROVE IInv'
  OBVIOUS
<1>1. CASE Start            BY <1>1, StartStep
<1>2. CASE Open             BY <1>2, OpenStep
<1>3. CASE Read             BY <1>3, ReadStep
<1>4. CASE ScanPlain        BY <1>4, ScanPlainStep
<1>5. CASE ScanVariable     BY <1>5, ScanVariableStep
<1>6. CASE ScanUnclosed     BY <1>6, ScanUnclosedStep
<1>7. CASE FinishText       BY <1>7, FinishTextStep
<1>8. CASE Finish           BY <1>8, FinishStep
<1>9. CASE Raise            BY <1>9, RaiseStep
<1>10. CASE VariableRefused BY <1>10, VariableRefusedStep
<1>11. CASE ReadNothing     BY <1>11, ReadNothingStep
<1>12. CASE UNCHANGED vars  BY <1>12, StutterStep
<1> QED
  BY <1>1, <1>2, <1>3, <1>4, <1>5, <1>6, <1>7, <1>8, <1>9, <1>10, <1>11, <1>12
  DEF Next, Progress, Terminated

LEMMA Invariance == Spec => []IInv
BY InitIInv, NextIInv, PTL DEF Spec

(***************************************************************************)
(* run() keeps its variables' types, and no path releases the handler's    *)
(* data twice.                                                             *)
(***************************************************************************)
THEOREM TypeCorrect == Spec => []TypeOK
<1>1. IInv => TypeOK
  BY DEF IInv
<1> QED  BY <1>1, Invariance, PTL

(***************************************************************************)
(* No character is lost, repeated or moved, for every file and buffer.     *)
(***************************************************************************)
THEOREM NothingLost == Spec => []Lossless
<1>1. IInv => Lossless
  BY DEF IInv
<1> QED  BY <1>1, Invariance, PTL

(***************************************************************************)
(* However the reads cut the file, a complete placeholder is never         *)
(* reported as text.                                                       *)
(***************************************************************************)
THEOREM PlaceholdersFound == Spec => []NoPlaceholderLeaks
<1>1. IInv => NoPlaceholderLeaks
  BY DEF IInv
<1> QED  BY <1>1, Invariance, PTL

(***************************************************************************)
(* The handler's data is released once when run() ends, and not before.    *)
(***************************************************************************)
THEOREM ReleasedOnce == Spec => []HandlerReleased
<1>1. IInv => HandlerReleased
  BY DEF IInv
<1> QED  BY <1>1, Invariance, PTL

-----------------------------------------------------------------------------
(***************************************************************************)
(* The reference reading.  Rest(s)[i] is what Tokens makes of s from its   *)
(* i-th character on; that there is such a function, and that each value   *)
(* is what Tokens says, is proved by induction.                            *)
(***************************************************************************)
LEMMA SetInduction ==
  ASSUME NEW S, 0 \in S, \A n \in Nat : n \in S => n + 1 \in S
  PROVE  Nat \subseteq S
<1> SUFFICES ASSUME Nat \ S # {}  PROVE FALSE
  OBVIOUS
<1> DEFINE m == Smallest(Nat \ S)
<1>1. m \in Nat \ S /\ \A k \in Nat \ S : m <= k
  BY SmallestIsLeast
<1> HIDE DEF m
<1>2. m - 1 \in Nat /\ m - 1 \in S
  BY <1>1
<1>3. (m - 1) + 1 = m
  BY <1>1
<1> QED  BY <1>1, <1>2, <1>3

TokenSet ==
  [event : {"on_text"}, char : Chars]
  \cup [event : {"on_variable", "on_qualified_variable"},
        ns : Seq(Chars) \cup {DefaultNs}, key : Seq(Chars)]

RestStep(s, f, i) ==
  IF i > Len(s) THEN <<>>
  ELSE IF PlaceholderAt(s, i)
       THEN <<VariableToken(SubSeq(s, i + 2, CloserOf(s, i) - 1))>> \o f[CloserOf(s, i) + 1]
       ELSE <<CharToken(s[i])>> \o f[i + 1]

Rest(s) == CHOOSE f : f = [i \in 1 .. Len(s) + 1 |-> RestStep(s, f, i)]

LEMMA TokensAreRest == \A s : Tokens(s) = Rest(s)[1]
BY Zenon DEF Tokens, Rest, RestStep

\* A placeholder ends behind its opener, at the first closer there.
LEMMA CloserOfProperties ==
  ASSUME NEW s \in Seq(Chars), NEW i \in 1 .. Len(s), PlaceholderAt(s, i)
  PROVE  /\ CloserOf(s, i) \in i + 2 .. Len(s) /\ s[CloserOf(s, i)] = ")"
         /\ \A j \in i + 2 .. Len(s) : s[j] = ")" => CloserOf(s, i) <= j
<1>1. ClosersAfter(s, i) # {} /\ ClosersAfter(s, i) \in SUBSET Nat
  BY DEF PlaceholderAt, ClosersAfter
<1>2. CloserOf(s, i) \in ClosersAfter(s, i) /\ \A j \in ClosersAfter(s, i) : CloserOf(s, i) <= j
  BY <1>1, SmallestIsLeast DEF CloserOf
<1> QED  BY <1>2 DEF ClosersAfter

\* A value of the function depends on the values behind it only.
LEMMA RestStepLocal ==
  ASSUME NEW s \in Seq(Chars), NEW i \in 1 .. Len(s) + 1, NEW f, NEW g,
         \A j \in i + 1 .. Len(s) + 1 : f[j] = g[j]
  PROVE  RestStep(s, f, i) = RestStep(s, g, i)
<1>1. CASE i > Len(s)
  BY <1>1 DEF RestStep
<1>2. CASE i <= Len(s) /\ PlaceholderAt(s, i)
  <2>1. CloserOf(s, i) + 1 \in i + 1 .. Len(s) + 1
    BY <1>2, CloserOfProperties
  <2>2. f[CloserOf(s, i) + 1] = g[CloserOf(s, i) + 1]
    BY <2>1
  <2> QED  BY <1>2, <2>2 DEF RestStep
<1>3. CASE i <= Len(s) /\ ~PlaceholderAt(s, i)
  <2>1. f[i + 1] = g[i + 1]
    BY <1>3
  <2> QED  BY <1>3, <2>1 DEF RestStep
<1> QED  BY <1>1, <1>2, <1>3

LEMMA RestExists ==
  ASSUME NEW s \in Seq(Chars)
  PROVE  Rest(s) = [i \in 1 .. Len(s) + 1 |-> RestStep(s, Rest(s), i)]
<1> DEFINE L == Len(s) + 1
           From(n) == {i \in 1 .. L : i >= L - n}
           S == {n \in Nat : \E g : g = [i \in From(n) |-> RestStep(s, g, i)]}
<1>1. L \in Nat
  OBVIOUS
<1>2. 0 \in S
  <2> DEFINE g == [i \in From(0) |-> <<>>]
  <2>1. \A i \in From(0) : RestStep(s, g, i) = <<>>
    BY DEF RestStep
  <2>2. g = [i \in From(0) |-> RestStep(s, g, i)]
    BY <2>1, Zenon
  <2> HIDE DEF g
  <2> QED  BY <2>2
<1>3. ASSUME NEW n \in Nat, n \in S  PROVE n + 1 \in S
  <2>1. PICK g : g = [i \in From(n) |-> RestStep(s, g, i)]
    BY <1>3
  <2> DEFINE h == [i \in From(n + 1) |-> RestStep(s, g, i)]
  <2>2. \A j \in From(n) : h[j] = g[j]
    <3>1. \A j \in From(n) : j \in From(n + 1)
      OBVIOUS
    <3>2. \A j \in From(n) : g[j] = RestStep(s, g, j)
      BY <2>1
    <3>3. \A j \in From(n + 1) : h[j] = RestStep(s, g, j)
      OBVIOUS
    <3> QED  BY <3>1, <3>2, <3>3
  <2>3. \A i \in From(n + 1) : RestStep(s, h, i) = RestStep(s, g, i)
    <3> SUFFICES ASSUME NEW i \in From(n + 1)  PROVE RestStep(s, h, i) = RestStep(s, g, i)
      OBVIOUS
    <3>1. i \in 1 .. Len(s) + 1 /\ \A j \in i + 1 .. Len(s) + 1 : j \in From(n)
      OBVIOUS
    <3> HIDE DEF h, From
    <3> QED  BY <2>2, <3>1, RestStepLocal
  <2>4. h = [i \in From(n + 1) |-> RestStep(s, h, i)]
    BY <2>3, Zenon
  <2> HIDE DEF h, From
  <2>5. \E f : f = [i \in From(n + 1) |-> RestStep(s, f, i)]
    BY <2>4
  <2>6. n + 1 \in Nat
    OBVIOUS
  <2> QED  BY <2>5, <2>6
<1> HIDE DEF S
<1>4. Len(s) \in S
  <2>1. Nat \subseteq S
    BY <1>2, <1>3, SetInduction
  <2> QED  BY <2>1
<1>5. From(Len(s)) = 1 .. Len(s) + 1
  OBVIOUS
<1>6. \E g : g = [i \in 1 .. Len(s) + 1 |-> RestStep(s, g, i)]
  BY <1>4, <1>5 DEF S
<1> QED  BY <1>6, Zenon DEF Rest

LEMMA RestUnfolds ==
  ASSUME NEW s \in Seq(Chars), NEW i \in 1 .. Len(s) + 1
  PROVE  Rest(s)[i] = RestStep(s, Rest(s), i)
BY RestExists

-----------------------------------------------------------------------------
\* The tokens of a body, as the code splits it and as the reference does.
LEMMA SeparatorHits ==
  ASSUME NEW s \in Seq(Chars), NEW i \in 0 .. Len(s) - 2
  PROVE  i \in Hits(s, Separator, 0) <=> i + 1 \in Separators(s)
<1> DEFINE t == SubSeq(s, i + 1, i + 2)
<1>1. t \in Seq(Chars) /\ Len(t) = 2 /\ t[1] = s[i + 1] /\ t[2] = s[i + 2]
  OBVIOUS
<1>2. Separator \in Seq(Chars) /\ Len(Separator) = 2
  BY CharsAssumption DEF Separator
<1>3. i \in Hits(s, Separator, 0) <=> t = Separator
  BY <1>2 DEF Hits
<1>4. t = Separator <=> t[1] = ":" /\ t[2] = ":"
  <2> HIDE DEF t
  <2>1. ASSUME t[1] = ":", t[2] = ":"  PROVE t = Separator
    BY <1>1, <1>2, <2>1, SeqEqual DEF Separator
  <2> QED  BY <2>1 DEF Separator
<1>5. i + 1 \in 1 .. Len(s) - 1 /\ (i + 1) + 1 = i + 2
  OBVIOUS
<1> QED  BY <1>1, <1>3, <1>4, <1>5 DEF Separators

LEMMA BodyToken ==
  ASSUME NEW body \in Seq(Chars)
  PROVE  PlaceholderToken(body) = VariableToken(body) /\ VariableToken(body) \in TokenSet
<1> DEFINE pos == IndexOf(body, Separator, 0)
           sep == Smallest(Separators(body))
<1>1. Separator \in Seq(Chars) /\ Len(Separator) = 2
  BY CharsAssumption DEF Separator
<1>2. Hits(body, Separator, 0) \subseteq 0 .. Len(body) - 2
  BY <1>1 DEF Hits
<1>3. /\ pos = -1 <=> Hits(body, Separator, 0) = {}
      /\ pos # -1 => /\ pos \in Hits(body, Separator, 0)
                     /\ \A i \in Hits(body, Separator, 0) : pos <= i
  BY <1>1, IndexOfProperties
<1>4. \A k \in 1 .. Len(body) - 1 : k - 1 \in Hits(body, Separator, 0) <=> k \in Separators(body)
  <2> TAKE k \in 1 .. Len(body) - 1
  <2>1. k - 1 \in 0 .. Len(body) - 2 /\ (k - 1) + 1 = k
    OBVIOUS
  <2>2. k - 1 \in Hits(body, Separator, 0) <=> (k - 1) + 1 \in Separators(body)
    BY <2>1, SeparatorHits
  <2> QED  BY <2>1, <2>2
<1>5. Separators(body) \subseteq 1 .. Len(body) - 1
  BY DEF Separators
<1> HIDE DEF pos, sep
<1>6. CASE Separators(body) = {}
  <2>1. Hits(body, Separator, 0) = {}
    <3> SUFFICES ASSUME NEW i \in Hits(body, Separator, 0)  PROVE FALSE
      OBVIOUS
    <3>1. i + 1 \in 1 .. Len(body) - 1 /\ (i + 1) - 1 = i
      BY <1>2
    <3> QED  BY <1>4, <1>6, <3>1
  <2>2. /\ PlaceholderToken(body) = [event |-> "on_variable", ns |-> DefaultNs, key |-> body]
        /\ VariableToken(body) = [event |-> "on_variable", ns |-> DefaultNs, key |-> body]
    BY <1>3, <1>6, <2>1 DEF PlaceholderToken, VariableToken, pos
  <2> QED  BY <2>2 DEF TokenSet
<1>7. CASE Separators(body) # {}
  <2>1. sep \in Separators(body) /\ \A k \in Separators(body) : sep <= k
    BY <1>5, <1>7, SmallestIsLeast DEF sep
  <2>2. sep \in 1 .. Len(body) - 1 /\ sep - 1 \in Hits(body, Separator, 0)
    BY <1>4, <1>5, <2>1
  <2>3. pos \in 0 .. Len(body) - 2 /\ pos <= sep - 1 /\ pos # -1
    BY <1>2, <1>3, <2>2
  <2>4. pos + 1 \in Separators(body)
    <3>1. pos + 1 \in 1 .. Len(body) - 1 /\ (pos + 1) - 1 = pos
      BY <2>3
    <3> QED  BY <1>3, <1>4, <2>3, <3>1
  <2>5. pos = sep - 1
    BY <2>1, <2>2, <2>3, <2>4
  <2> DEFINE a == SubSeq(body, 1, sep - 1)
             b == SubSeq(body, sep + 2, Len(body))
  <2>6. Mid(body, 0, pos) = a /\ Mid(body, pos + 2, Len(body) - pos - 2) = b
    <3>1. pos + 2 + 1 = sep + 2 /\ pos + 2 + (Len(body) - pos - 2) = Len(body)
          /\ 0 + 1 = 1 /\ 0 + pos = sep - 1
      BY <2>2, <2>5
    <3> QED  BY <3>1 DEF Mid
  <2>7. a \in Seq(Chars) /\ b \in Seq(Chars)
    BY <2>2
  <2> HIDE DEF a, b
  <2>8. /\ PlaceholderToken(body) = [event |-> "on_qualified_variable", ns |-> a, key |-> b]
        /\ VariableToken(body) = [event |-> "on_qualified_variable", ns |-> a, key |-> b]
    BY <1>7, <2>3, <2>6 DEF PlaceholderToken, VariableToken, pos, sep, a, b
  <2> QED  BY <2>7, <2>8 DEF TokenSet
<1> QED  BY <1>6, <1>7

LEMMA TextTyped ==
  ASSUME NEW t \in Seq(Chars)
  PROVE  TextTokens(t) \in Seq(TokenSet) /\ Len(TextTokens(t)) = Len(t)
<1>1. \A i \in 1 .. Len(t) : CharToken(t[i]) \in TokenSet
  BY DEF CharToken, TokenSet
<1> QED  BY <1>1 DEF TextTokens

-----------------------------------------------------------------------------
\* All of the reference are tokens.
LEMMA RestTyped ==
  ASSUME NEW s \in Seq(Chars)
  PROVE  \A i \in 1 .. Len(s) + 1 : Rest(s)[i] \in Seq(TokenSet)
<1> DEFINE L == Len(s) + 1
           S == {n \in Nat : \A i \in 1 .. L : i >= L - n => Rest(s)[i] \in Seq(TokenSet)}
<1>1. L \in Nat
  OBVIOUS
<1>2. 0 \in S
  <2>1. L \in 1 .. Len(s) + 1 /\ L > Len(s)
    OBVIOUS
  <2>2. \A i \in 1 .. L : i >= L - 0 => i = L
    OBVIOUS
  <2> HIDE DEF L
  <2>3. Rest(s)[L] = RestStep(s, Rest(s), L)
    BY <2>1, RestUnfolds
  <2>4. Rest(s)[L] = <<>>
    BY <2>1, <2>3 DEF RestStep
  <2>a. <<>> \in Seq(TokenSet)
    OBVIOUS
  <2>5. \A i \in 1 .. L : i >= L - 0 => Rest(s)[i] \in Seq(TokenSet)
    BY <2>2, <2>4, <2>a, Zenon
  <2> QED  BY <2>5
<1>3. ASSUME NEW n \in Nat, n \in S  PROVE n + 1 \in S
  <2> SUFFICES ASSUME NEW i \in 1 .. L, i >= L - (n + 1)  PROVE Rest(s)[i] \in Seq(TokenSet)
    OBVIOUS
  <2>1. \A j \in i + 1 .. L : Rest(s)[j] \in Seq(TokenSet)
    BY <1>3
  <2>2. Rest(s)[i] = RestStep(s, Rest(s), i)
    BY RestUnfolds
  <2> HIDE DEF S
  <2>3. CASE i > Len(s)
    <3>1. Rest(s)[i] = <<>>
      BY <2>2, <2>3 DEF RestStep
    <3>2. <<>> \in Seq(TokenSet)
      OBVIOUS
    <3> QED  BY <3>1, <3>2, Zenon
  <2>4. CASE i <= Len(s) /\ PlaceholderAt(s, i)
    <3> DEFINE j == CloserOf(s, i)
               v == VariableToken(SubSeq(s, i + 2, j - 1))
    <3>1. j \in i + 2 .. Len(s)
      BY <2>4, CloserOfProperties
    <3> HIDE DEF j
    <3>2. v \in TokenSet
      <4>1. SubSeq(s, i + 2, j - 1) \in Seq(Chars)
        BY <3>1
      <4> QED  BY <4>1, BodyToken
    <3> HIDE DEF v
    <3>3. Rest(s)[j + 1] \in Seq(TokenSet)
      BY <2>1, <3>1
    <3>4. Rest(s)[i] = <<v>> \o Rest(s)[j + 1]
      BY <2>2, <2>4 DEF RestStep, v, j
    <3> QED  BY <3>2, <3>3, <3>4
  <2>5. CASE i <= Len(s) /\ ~PlaceholderAt(s, i)
    <3>1. CharToken(s[i]) \in TokenSet
      BY <2>5 DEF CharToken, TokenSet
    <3>2. Rest(s)[i + 1] \in Seq(TokenSet)
      BY <2>1, <2>5
    <3>3. Rest(s)[i] = <<CharToken(s[i])>> \o Rest(s)[i + 1]
      BY <2>2, <2>5 DEF RestStep
    <3> HIDE DEF CharToken
    <3> QED  BY <3>1, <3>2, <3>3
  <2> QED  BY <1>1, <2>3, <2>4, <2>5
<1> HIDE DEF S
<1>4. Len(s) \in S
  <2>1. Nat \subseteq S
    BY <1>2, <1>3, SetInduction
  <2> QED  BY <2>1
<1> QED  BY <1>4 DEF S

\* A piece of the template in which no placeholder begins is so many text tokens.
LEMMA TextRun ==
  ASSUME NEW s \in Seq(Chars), NEW i \in 1 .. Len(s) + 1,
         NEW t \in Seq(Chars), i + Len(t) <= Len(s) + 1,
         \A k \in 1 .. Len(t) : s[i + k - 1] = t[k] /\ ~PlaceholderAt(s, i + k - 1)
  PROVE  Rest(s)[i] = TextTokens(t) \o Rest(s)[i + Len(t)]
<1> DEFINE P(n) == Rest(s)[i] = TextTokens(SubSeq(t, 1, n)) \o Rest(s)[i + n]
           S == {n \in Nat : n <= Len(t) => P(n)}
<1>1. 0 \in S
  <2>1. SubSeq(t, 1, 0) = <<>> /\ Rest(s)[i] \in Seq(TokenSet) /\ i + 0 = i
    BY RestTyped
  <2>2. TextTokens(<<>>) = <<>>
    BY DEF TextTokens
  <2>3. <<>> \o Rest(s)[i] = Rest(s)[i]
    BY <2>1, ConcatEmptySeq
  <2>4. P(0)
    BY <2>1, <2>2, <2>3
  <2> HIDE DEF P
  <2> QED  BY <2>4
<1>2. ASSUME NEW n \in Nat, n \in S  PROVE n + 1 \in S
  <2> HIDE DEF P
  <2> SUFFICES ASSUME n + 1 <= Len(t)  PROVE P(n + 1)
    OBVIOUS
  <2> DEFINE a == SubSeq(t, 1, n)
             b == SubSeq(t, 1, n + 1)
             c == CharToken(t[n + 1])
             r == Rest(s)[i + n + 1]
  <2>1. P(n)
    BY <1>2
  <2>2. /\ a \in Seq(Chars) /\ b \in Seq(Chars) /\ Len(a) = n /\ Len(b) = n + 1
        /\ \A k \in 1 .. n : a[k] = t[k] /\ b[k] = t[k]
        /\ b[n + 1] = t[n + 1]
    OBVIOUS
  <2>3. c \in TokenSet
    BY DEF CharToken, TokenSet
  <2>4. i + n \in 1 .. Len(s) + 1 /\ i + n <= Len(s) /\ i + n + 1 \in 1 .. Len(s) + 1
    OBVIOUS
  <2>5. r \in Seq(TokenSet)
    BY <2>4, RestTyped
  <2>6. s[i + n] = t[n + 1] /\ ~PlaceholderAt(s, i + n)
    <3>1. n + 1 \in 1 .. Len(t) /\ i + (n + 1) - 1 = i + n
      OBVIOUS
    <3> QED  BY <3>1
  <2>7. Rest(s)[i + n] = <<c>> \o r
    <3>1. Rest(s)[i + n] = RestStep(s, Rest(s), i + n)
      BY <2>4, RestUnfolds
    <3> QED  BY <2>4, <2>6, <3>1 DEF RestStep
  <2> HIDE DEF a, b, c, r
  <2>8. TextTokens(b) = TextTokens(a) \o <<c>>
    <3>1. /\ TextTokens(a) \in Seq(TokenSet) /\ Len(TextTokens(a)) = n
          /\ TextTokens(b) \in Seq(TokenSet) /\ Len(TextTokens(b)) = n + 1
      BY <2>2, TextTyped
    <3>2. /\ TextTokens(a) \o <<c>> \in Seq(TokenSet) /\ Len(TextTokens(a) \o <<c>>) = n + 1
          /\ \A k \in 1 .. n : (TextTokens(a) \o <<c>>)[k] = TextTokens(a)[k]
          /\ (TextTokens(a) \o <<c>>)[n + 1] = c
      BY <2>3, <3>1
    <3>a. \A k \in 1 .. n : k \in 1 .. Len(a) /\ k \in 1 .. Len(b) /\ a[k] = b[k]
      <4>1. n = Len(a) /\ n + 1 = Len(b) /\ 1 .. n \subseteq 1 .. n + 1
        BY <2>2
      <4>2. 1 .. n = 1 .. Len(a) /\ 1 .. n \subseteq 1 .. Len(b)
        BY <4>1, Zenon
      <4>3. \A k \in 1 .. n : a[k] = t[k] /\ b[k] = t[k]
        BY <2>2, Zenon
      <4>4. \A k \in 1 .. n : a[k] = b[k]
        BY <4>3, Zenon
      <4> QED  BY <4>2, <4>4, Zenon
    <3>b. n + 1 \in 1 .. Len(b)
      BY <2>2
    <3>3. \A k \in 1 .. n : TextTokens(b)[k] = TextTokens(a)[k]
      <4> HIDE DEF CharToken
      <4>1. /\ \A k \in 1 .. Len(a) : TextTokens(a)[k] = CharToken(a[k])
            /\ \A k \in 1 .. Len(b) : TextTokens(b)[k] = CharToken(b[k])
        BY DEF TextTokens
      <4> QED  BY <3>a, <4>1, Zenon
    <3>4. TextTokens(b)[n + 1] = c
      <4>1. \A k \in 1 .. Len(b) : TextTokens(b)[k] = CharToken(b[k])
        BY DEF TextTokens
      <4>2. TextTokens(b)[n + 1] = CharToken(b[n + 1])
        BY <3>b, <4>1, Zenon
      <4>3. b[n + 1] = t[n + 1]
        BY <2>2, Zenon
      <4>4. CharToken(b[n + 1]) = CharToken(t[n + 1])
        BY <4>3, Zenon
      <4> QED  BY <4>2, <4>4, Zenon DEF c
    <3>5. \A k \in 1 .. n + 1 : k \in 1 .. n \/ k = n + 1
      OBVIOUS
    <3>6. \A k \in 1 .. n + 1 : TextTokens(b)[k] = (TextTokens(a) \o <<c>>)[k]
      BY <3>2, <3>3, <3>4, <3>5
    <3> QED  BY <3>1, <3>2, <3>6, SeqEqual
  <2>9. (TextTokens(a) \o <<c>>) \o r = TextTokens(a) \o (<<c>> \o r)
    <3>1. TextTokens(a) \in Seq(TokenSet) /\ <<c>> \in Seq(TokenSet)
      BY <2>2, <2>3, TextTyped
    <3> QED  BY <2>5, <3>1, ConcatAssociative
  <2>10. Rest(s)[i] = TextTokens(b) \o r
    BY <2>1, <2>7, <2>8, <2>9 DEF P, a
  <2>11. i + (n + 1) = i + n + 1
    OBVIOUS
  <2> QED  BY <2>10, <2>11 DEF P, b, r
<1> HIDE DEF S
<1>3. Len(t) \in S
  <2>1. Nat \subseteq S
    BY <1>1, <1>2, SetInduction
  <2> QED  BY <2>1
<1>4. SubSeq(t, 1, Len(t)) = t
  BY SubSeqFull
<1> HIDE DEF P
<1>5. P(Len(t))
  BY <1>3 DEF S
<1> QED  BY <1>4, <1>5 DEF P

-----------------------------------------------------------------------------
(***************************************************************************)
(* The refinement.  The handler was told the tokens of what was reported,  *)
(* and the reference would go on with the rest of the template: that holds *)
(* between any two passes, so the events are always a beginning of Tokens. *)
(***************************************************************************)
EventsInv == /\ events \in Seq(TokenSet)
             /\ Rest(template)[Len(reported) + 1] \in Seq(TokenSet)
             /\ Tokens(template) = events \o Rest(template)[Len(reported) + 1]

LEMMA PieceOf ==
  ASSUME NEW s \in Seq(Chars), NEW p \in Nat \ {0}, NEW d \in Nat,
         NEW q \in Int, q = p + d - 1, q <= Len(s)
  PROVE  /\ SubSeq(s, p, q) \in Seq(Chars)
         /\ Len(SubSeq(s, p, q)) = d
         /\ \A k \in 1 .. d : SubSeq(s, p, q)[k] = s[p + k - 1]
OBVIOUS

LEMMA TokenAssociativity ==
  ASSUME NEW a \in Seq(TokenSet), NEW b \in Seq(TokenSet), NEW c \in Seq(TokenSet)
  PROVE  (a \o b) \o c = a \o (b \o c)
BY ConcatAssociative

\* Telling the handler of t keeps it, when no placeholder begins in t.
LEMMA TextDelivered ==
  ASSUME EventsInv, template \in Seq(Chars), reported \in Seq(Chars), NEW t \in Seq(Chars),
         Len(reported) + Len(t) <= Len(template),
         \A k \in 1 .. Len(t) : /\ template[Len(reported) + k] = t[k]
                                /\ ~PlaceholderAt(template, Len(reported) + k)
  PROVE  /\ events \o TextTokens(t) \in Seq(TokenSet)
         /\ Rest(template)[Len(reported) + Len(t) + 1] \in Seq(TokenSet)
         /\ Tokens(template) = (events \o TextTokens(t))
                                \o Rest(template)[Len(reported) + Len(t) + 1]
<1> DEFINE i == Len(reported) + 1
           r == Rest(template)[i + Len(t)]
<1>1. i \in 1 .. Len(template) + 1 /\ i + Len(t) \in 1 .. Len(template) + 1
      /\ i + Len(t) = Len(reported) + Len(t) + 1
  OBVIOUS
<1>2. \A k \in 1 .. Len(t) : i + k - 1 = Len(reported) + k
  OBVIOUS
<1>3. events \in Seq(TokenSet) /\ TextTokens(t) \in Seq(TokenSet)
  BY TextTyped DEF EventsInv
<1>4. r \in Seq(TokenSet)
  BY <1>1, RestTyped
<1>5. Tokens(template) = events \o Rest(template)[i]
  BY DEF EventsInv
<1> HIDE DEF i
<1>6. \A k \in 1 .. Len(t) : template[i + k - 1] = t[k] /\ ~PlaceholderAt(template, i + k - 1)
  BY <1>2
<1>7. i + Len(t) <= Len(template) + 1
  BY <1>1
<1>8. Rest(template)[i] = TextTokens(t) \o r
  BY <1>1, <1>6, <1>7, TextRun
<1> HIDE DEF r
<1>9. events \o (TextTokens(t) \o r) = (events \o TextTokens(t)) \o r
  BY <1>3, <1>4, TokenAssociativity, Zenon
<1>10. events \o TextTokens(t) \in Seq(TokenSet)
  BY <1>3
<1> QED  BY <1>1, <1>4, <1>5, <1>8, <1>9, <1>10 DEF r

\* While it scans: the first k characters of the buffer, when no opener begins in them.
LEMMA BufferDelivered ==
  ASSUME IInv, EventsInv, pc = "scan", NEW k \in Int, k <= Len(txt),
         \A j \in 1 .. k : j < Len(txt) /\ ~OpensAt(txt, j),
         NEW t, t = Mid(txt, 0, k)
  PROVE  /\ t \in Seq(Chars)
         /\ Len(t) = IF k <= 0 THEN 0 ELSE k
         /\ events \o TextTokens(t) \in Seq(TokenSet)
         /\ Rest(template)[Len(reported) + Len(t) + 1] \in Seq(TokenSet)
         /\ Tokens(template) = (events \o TextTokens(t))
                                \o Rest(template)[Len(reported) + Len(t) + 1]
<1> DEFINE c == IF k <= 0 THEN 0 ELSE k
           L == Len(reported)
<1>1. /\ reported \in Seq(Chars) /\ txt \in Seq(Chars) /\ unread \in Seq(Chars)
      /\ template = reported \o txt \o unread
  BY ScanFacts
<1>2. /\ template \in Seq(Chars) /\ Len(template) = L + Len(txt) + Len(unread)
      /\ \A j \in 1 .. Len(txt) : template[L + j] = txt[j]
  BY <1>1, Window
<1>3. c \in 0 .. Len(txt) /\ t = SubSeq(txt, 1, c)
  BY <1>1, CutProperties
<1>a. \A j \in 1 .. c : j < Len(txt) /\ ~OpensAt(txt, j)
  OBVIOUS
<1>b. L \in Nat /\ Len(unread) \in Nat /\ Len(txt) \in Nat
  BY <1>1
<1> HIDE DEF c
<1>4. t \in Seq(Chars) /\ Len(t) = c /\ \A j \in 1 .. c : t[j] = txt[j]
  BY <1>1, <1>3
<1>5. \A j \in 1 .. Len(t) : template[L + j] = t[j] /\ ~PlaceholderAt(template, L + j)
  <2> SUFFICES ASSUME NEW j \in 1 .. c
               PROVE  template[L + j] = t[j] /\ ~OpensAt(template, L + j)
    BY <1>4 DEF PlaceholderAt
  <2>1. j \in 1 .. Len(txt) /\ j + 1 \in 1 .. Len(txt) /\ ~OpensAt(txt, j)
    BY <1>3, <1>a
  <2>2. template[L + j] = txt[j] /\ template[L + (j + 1)] = txt[j + 1]
    BY <1>2, <2>1
  <2>3. L + (j + 1) = (L + j) + 1
    BY <1>b
  <2>4. ~(txt[j] = "$" /\ txt[j + 1] = "(")
    BY <1>a, <2>1 DEF OpensAt
  <2>5. ~OpensAt(template, L + j)
    BY <2>2, <2>3, <2>4 DEF OpensAt
  <2> QED  BY <1>4, <2>2, <2>5
<1>6. L + Len(t) <= Len(template)
  BY <1>2, <1>3, <1>4, <1>b
<1>7. /\ events \o TextTokens(t) \in Seq(TokenSet)
      /\ Rest(template)[L + Len(t) + 1] \in Seq(TokenSet)
      /\ Tokens(template) = (events \o TextTokens(t)) \o Rest(template)[L + Len(t) + 1]
  BY <1>1, <1>2, <1>4, <1>5, <1>6, TextDelivered
<1> QED  BY <1>4, <1>7 DEF c

\* The placeholder found in the buffer is the one the reference reads there.
LEMMA PlaceholderDelivered ==
  ASSUME IInv, EventsInv, ScanVariable
  PROVE  EventsInv' /\ \E x \in Seq(TokenSet) : events' = events \o x
<1> DEFINE n == IndexOf(txt, Opener, 0)
           m == IndexOf(txt, Closer, n)
           L == Len(reported)
           t == Mid(txt, 0, n)
           body == Mid(txt, n + 2, m - n - 2)
           i == L + n + 1
           j == L + m + 1
<1>1. /\ pc = "scan" /\ n # -1 /\ m # -1
      /\ events' = events \o TextTokens(t) \o <<PlaceholderToken(body)>>
      /\ reported' = reported \o Mid(txt, 0, m + 1)
      /\ template' = template
  BY DEF ScanVariable, input
<1>2. /\ reported \in Seq(Chars) /\ txt \in Seq(Chars) /\ unread \in Seq(Chars)
      /\ template = reported \o txt \o unread
  BY <1>1, ScanFacts
<1>3. /\ template \in Seq(Chars) /\ Len(template) = L + Len(txt) + Len(unread)
      /\ \A k \in 1 .. Len(txt) : template[L + k] = txt[k]
  BY <1>2, Window
<1>4. /\ n \in 0 .. Len(txt) - 2 /\ OpensAt(txt, n + 1)
      /\ \A k \in 1 .. n : k < Len(txt) /\ ~OpensAt(txt, k)
  <2>1. /\ n \in 0 .. Len(txt) - 2
        /\ \A k \in 1 .. n : k < Len(txt) /\ ~OpensAt(txt, k)
    BY <1>1, <1>2, NoOpenerBefore
  <2>2. n \in Hits(txt, Opener, 0)
    BY <1>1, <1>2, IndexOfProperties, PatternsAreStrings
  <2> QED  BY <1>2, <2>1, <2>2, OpenerHits
<1>5. m \in n + 2 .. Len(txt) - 1 /\ txt[m + 1] = ")"
  <2> HIDE DEF n
  <2> QED  BY <1>1, <1>2, <1>4, CloserBehind
<1>6. \A k \in n + 3 .. m : txt[k] # ")"
  <2> SUFFICES ASSUME NEW k \in n + 3 .. m, txt[k] = ")"  PROVE FALSE
    OBVIOUS
  <2> HIDE DEF n
  <2>1. \A h \in Hits(txt, Closer, n) : m <= h
    <3>1. n \in Nat
      BY <1>2, <1>4
    <3> QED  BY <1>1, <1>2, <3>1, IndexOfProperties, PatternsAreStrings
  <2> DEFINE h == k - 1
  <2>2. h \in n .. Len(txt) - 1 /\ h + 1 = k /\ h < m /\ n \in Nat
    BY <1>2, <1>4, <1>5
  <2> HIDE DEF h, m
  <2>3. h \in Hits(txt, Closer, n)
    BY <1>2, <2>2, CloserHits
  <2> QED  BY <1>5, <2>1, <2>2, <2>3
<1>7. /\ t \in Seq(Chars) /\ Len(t) = n
      /\ events \o TextTokens(t) \in Seq(TokenSet)
      /\ Tokens(template) = (events \o TextTokens(t)) \o Rest(template)[L + n + 1]
  <2>1. n \in Int /\ n <= Len(txt) /\ n >= 0
    BY <1>2, <1>4
  <2>2. pc = "scan" /\ t = Mid(txt, 0, n) /\ \A k \in 1 .. n : k < Len(txt) /\ ~OpensAt(txt, k)
    BY <1>1, <1>4
  <2> HIDE DEF n, t, L
  <2>3. /\ t \in Seq(Chars) /\ Len(t) = IF n <= 0 THEN 0 ELSE n
        /\ events \o TextTokens(t) \in Seq(TokenSet)
        /\ Tokens(template) = (events \o TextTokens(t))
                               \o Rest(template)[Len(reported) + Len(t) + 1]
    BY <2>1, <2>2, BufferDelivered
  <2>4. Len(t) = n
    BY <2>1, <2>3
  <2> QED  BY <2>3, <2>4 DEF L
<1> HIDE DEF n, m, t
<1>8. n \in Nat /\ m \in Nat /\ L \in Nat /\ Len(txt) \in Nat /\ Len(unread) \in Nat
  BY <1>2, <1>4, <1>5
<1>9. /\ i \in 1 .. Len(template) /\ j \in i + 2 .. Len(template)
      /\ i = L + (n + 1) /\ i + 1 = L + (n + 2) /\ j = L + (m + 1)
  BY <1>3, <1>4, <1>5, <1>8
<1>10. PlaceholderAt(template, i) /\ template[j] = ")"
  <2>1. /\ template[i] = txt[n + 1] /\ template[i + 1] = txt[n + 2]
        /\ template[j] = txt[m + 1]
    BY <1>3, <1>4, <1>5, <1>8, <1>9
  <2>2. txt[n + 1] = "$" /\ txt[n + 2] = "("
    BY <1>4, <1>8 DEF OpensAt
  <2>3. OpensAt(template, i)
    BY <1>9, <2>1, <2>2 DEF OpensAt
  <2>4. j \in ClosersAfter(template, i)
    BY <1>5, <1>9, <2>1 DEF ClosersAfter
  <2> QED  BY <1>5, <2>1, <2>3, <2>4 DEF PlaceholderAt
<1>11. CloserOf(template, i) = j
  <2> DEFINE c == CloserOf(template, i)
  <2>1. c \in i + 2 .. Len(template) /\ template[c] = ")" /\ c <= j
    BY <1>3, <1>9, <1>10, CloserOfProperties
  <2> HIDE DEF c
  <2> SUFFICES ASSUME c < j  PROVE FALSE
    BY <1>8, <2>1 DEF c
  <2> DEFINE k == c - L
  <2>2. k \in n + 3 .. m /\ k \in 1 .. Len(txt) /\ L + k = c
    BY <1>5, <1>8, <2>1
  <2> HIDE DEF k
  <2>3. template[c] = txt[k]
    BY <1>3, <2>2
  <2> QED  BY <1>6, <2>1, <2>2, <2>3
<1>12. SubSeq(template, i + 2, j - 1) = body /\ body \in Seq(Chars)
  <2> DEFINE a == SubSeq(template, i + 2, j - 1)
             b == SubSeq(txt, n + 3, m)
             d == m - n - 2
  <2>1. body = b
    <3>1. n + 2 + 1 = n + 3 /\ n + 2 + (m - n - 2) = m
      BY <1>8
    <3> QED  BY <3>1 DEF Mid
  <2>2. d \in Nat /\ 1 <= n + 3 /\ m <= Len(txt) /\ m = (n + 3) + d - 1
    BY <1>5, <1>8
  <2>a. n + 3 \in Nat \ {0}
    BY <1>8
  <2>3. b \in Seq(Chars) /\ Len(b) = d /\ \A k \in 1 .. d : b[k] = txt[(n + 3) + k - 1]
    <3> DEFINE p == n + 3
    <3>1. p \in Nat \ {0} /\ m \in Int /\ m = p + d - 1 /\ b = SubSeq(txt, p, m)
      BY <1>8, <2>2, <2>a
    <3> HIDE DEF p, d, b
    <3>2. b \in Seq(Chars) /\ Len(b) = d /\ \A k \in 1 .. d : b[k] = txt[p + k - 1]
      BY <1>2, <2>2, <3>1, PieceOf
    <3> QED  BY <3>2 DEF p
  <2>4. /\ i + 2 \in Nat \ {0} /\ j - 1 \in Int /\ j - 1 <= Len(template)
        /\ j - 1 = (i + 2) + d - 1 /\ i + 2 = L + (n + 3)
    BY <1>8, <1>9
  <2>5. a \in Seq(Chars) /\ Len(a) = d /\ \A k \in 1 .. d : a[k] = template[(i + 2) + k - 1]
    <3> DEFINE p == i + 2
               q == j - 1
    <3>1. p \in Nat \ {0} /\ q \in Int /\ q = p + d - 1 /\ q <= Len(template)
          /\ a = SubSeq(template, p, q)
      BY <2>4
    <3> HIDE DEF p, q, d, a
    <3>2. a \in Seq(Chars) /\ Len(a) = d /\ \A k \in 1 .. d : a[k] = template[p + k - 1]
      BY <1>3, <2>2, <3>1, PieceOf
    <3> QED  BY <3>2 DEF p
  <2> HIDE DEF a, b, d, i, j, L, body
  <2>6. \A k \in 1 .. d : /\ (n + 3) + k - 1 \in 1 .. Len(txt)
                          /\ (i + 2) + k - 1 = L + ((n + 3) + k - 1)
    BY <1>8, <2>2, <2>4
  <2>7. \A k \in 1 .. d : a[k] = b[k]
    BY <1>3, <2>3, <2>5, <2>6
  <2>8. a = b
    BY <2>3, <2>5, <2>7, SeqEqual
  <2> QED  BY <2>1, <2>3, <2>8 DEF a
<1> DEFINE v == VariableToken(body)
           r == Rest(template)[j + 1]
           e == events \o TextTokens(t)
<1>13. PlaceholderToken(body) = v /\ v \in TokenSet
  BY <1>12, BodyToken
<1>14. r \in Seq(TokenSet)
  <2>1. j + 1 \in 1 .. Len(template) + 1
    BY <1>8, <1>9
  <2> QED  BY <1>3, <2>1, RestTyped
<1>15. Rest(template)[i] = <<v>> \o r
  <2>1. Rest(template)[i] = RestStep(template, Rest(template), i)
    <3>1. i \in 1 .. Len(template) + 1
      BY <1>9
    <3> QED  BY <1>3, <3>1, RestUnfolds
  <2>2. ~(i > Len(template))
    BY <1>9
  <2> HIDE DEF i, j, body, r
  <2> QED  BY <1>10, <1>11, <1>12, <2>1, <2>2 DEF RestStep, r
<1>16. e \in Seq(TokenSet) /\ Tokens(template) = e \o Rest(template)[i]
  BY <1>7
<1>17. events' = e \o <<v>>
  BY <1>1, <1>13
<1>18. Len(reported') = j
  <2> DEFINE a == Mid(txt, 0, m + 1)
  <2>1. a \in Seq(Chars) /\ Len(a) = m + 1
    BY <1>2, <1>5, <1>8 DEF Mid
  <2> HIDE DEF a
  <2>2. Len(reported \o a) = Len(reported) + Len(a)
    BY <1>2, <2>1
  <2>3. reported' = reported \o a
    BY <1>1 DEF a
  <2>4. Len(reported') = L + (m + 1)
    BY <2>1, <2>2, <2>3
  <2> QED  BY <1>9, <2>4
<1> HIDE DEF v, r, e, i, j, L, body
<1>19. <<v>> \in Seq(TokenSet) /\ e \o <<v>> \in Seq(TokenSet)
  BY <1>13, <1>16
<1>20. Tokens(template) = (e \o <<v>>) \o r
  <2>1. (e \o <<v>>) \o r = e \o (<<v>> \o r)
    BY <1>14, <1>16, <1>19, TokenAssociativity, Zenon
  <2> QED  BY <1>15, <1>16, <2>1
<1>21. EventsInv'
  <2>1. events' \in Seq(TokenSet)
    BY <1>17, <1>19
  <2>2. Tokens(template') = Tokens(template)
        /\ Rest(template')[Len(reported') + 1] = Rest(template)[j + 1]
    BY <1>1, <1>18
  <2> QED  BY <1>14, <1>17, <1>20, <2>1, <2>2 DEF EventsInv, r
<1>22. events' = events \o (TextTokens(t) \o <<v>>) /\ TextTokens(t) \o <<v>> \in Seq(TokenSet)
  <2>1. events \in Seq(TokenSet) /\ TextTokens(t) \in Seq(TokenSet)
    BY <1>7, TextTyped DEF EventsInv
  <2>2. (events \o TextTokens(t)) \o <<v>> = events \o (TextTokens(t) \o <<v>>)
    BY <1>19, <2>1, TokenAssociativity, Zenon
  <2>3. TextTokens(t) \o <<v>> \in Seq(TokenSet)
    BY <1>19, <2>1
  <2> QED  BY <1>17, <2>2, <2>3 DEF e
<1> QED  BY <1>21, <1>22

-----------------------------------------------------------------------------
(***************************************************************************)
(* The strengthening that the refinement needs: what was told, and that    *)
(* on_eof is called at the end of the file only.                           *)
(***************************************************************************)
StreamInv == IInv /\ EventsInv /\ (pc = "eof" => feof)

Grows == \E x \in Seq(TokenSet) : events' = events \o x

LEMMA QuietEvents ==
  ASSUME EventsInv, UNCHANGED <<template, events, reported>>
  PROVE  EventsInv' /\ Grows
<1>1. <<>> \in Seq(TokenSet) /\ events' = events \o <<>>
  BY DEF EventsInv
<1>2. Grows
  BY <1>1 DEF Grows
<1> QED  BY <1>2 DEF EventsInv

\* on_text of t, after which the reference goes on behind t.
LEMMA TellText ==
  ASSUME EventsInv, reported \in Seq(Chars), NEW t \in Seq(Chars),
         events \o TextTokens(t) \in Seq(TokenSet),
         Rest(template)[Len(reported) + Len(t) + 1] \in Seq(TokenSet),
         Tokens(template) = (events \o TextTokens(t)) \o Rest(template)[Len(reported) + Len(t) + 1],
         OnText(t), template' = template
  PROVE  EventsInv' /\ Grows
<1>1. events' = events \o TextTokens(t) /\ TextTokens(t) \in Seq(TokenSet)
  BY TextTyped DEF OnText
<1>2. Len(reported') = Len(reported) + Len(t)
  BY DEF OnText
<1>3. Rest(template')[Len(reported') + 1] = Rest(template)[Len(reported) + Len(t) + 1]
  BY <1>2
<1>4. Tokens(template') = Tokens(template)
  OBVIOUS
<1>5. EventsInv'
  BY <1>1, <1>3, <1>4 DEF EventsInv
<1> QED  BY <1>1, <1>5 DEF Grows

LEMMA ScanTextEvents ==
  ASSUME IInv, EventsInv, pc = "scan", NEW k \in Int, k <= Len(txt),
         \A j \in 1 .. k : j < Len(txt) /\ ~OpensAt(txt, j),
         OnText(Mid(txt, 0, k)), template' = template
  PROVE  EventsInv' /\ Grows
<1> DEFINE t == Mid(txt, 0, k)
<1>1. OnText(t) /\ t = Mid(txt, 0, k)
  OBVIOUS
<1> HIDE DEF t
<1>2. /\ t \in Seq(Chars)
      /\ events \o TextTokens(t) \in Seq(TokenSet)
      /\ Rest(template)[Len(reported) + Len(t) + 1] \in Seq(TokenSet)
      /\ Tokens(template) = (events \o TextTokens(t))
                             \o Rest(template)[Len(reported) + Len(t) + 1]
  BY <1>1, BufferDelivered
<1>3. reported \in Seq(Chars)
  BY ScanFacts
<1> QED  BY <1>1, <1>2, <1>3, TellText

\* What is left at the end of the file holds no complete placeholder.
LEMMA FinishTextEvents ==
  ASSUME IInv, EventsInv, FinishText
  PROVE  EventsInv' /\ Grows
<1> DEFINE L == Len(reported)
<1>1. pc = "loop" /\ feof /\ OnText(txt) /\ template' = template
  BY DEF FinishText, input
<1>2. /\ reported \in Seq(Chars) /\ txt \in Seq(Chars) /\ unread = <<>>
      /\ template = reported \o txt \o unread
      /\ Len(txt) <= 1 \/ \A j \in 1 .. Len(txt) : txt[j] # ")"
  BY <1>1 DEF IInv, TypeOK, Lossless, Pending, HeldBack
<1>3. unread \in Seq(Chars) /\ Len(unread) = 0
  BY <1>2
<1>4. /\ template \in Seq(Chars) /\ Len(template) = L + Len(txt)
      /\ \A k \in 1 .. Len(txt) : template[L + k] = txt[k]
  BY <1>2, <1>3, Window
<1>5. L \in Nat /\ Len(txt) \in Nat
  BY <1>2
<1> HIDE DEF L
<1>6. \A k \in 1 .. Len(txt) : ~PlaceholderAt(template, L + k)
  <2> SUFFICES ASSUME NEW k \in 1 .. Len(txt), PlaceholderAt(template, L + k)  PROVE FALSE
    OBVIOUS
  <2>1. PICK j \in (L + k) + 2 .. Len(template) : template[j] = ")"
    BY DEF PlaceholderAt, ClosersAfter
  <2> DEFINE h == j - L
  <2>2. h \in 1 .. Len(txt) /\ h > 1 /\ L + h = j
    BY <1>4, <1>5, <2>1
  <2> HIDE DEF h
  <2>3. txt[h] = ")"
    BY <1>4, <2>1, <2>2
  <2> QED  BY <1>2, <1>5, <2>2, <2>3
<1>7. /\ events \o TextTokens(txt) \in Seq(TokenSet)
      /\ Rest(template)[L + Len(txt) + 1] \in Seq(TokenSet)
      /\ Tokens(template) = (events \o TextTokens(txt)) \o Rest(template)[L + Len(txt) + 1]
  <2>1. L + Len(txt) <= Len(template)
    BY <1>4, <1>5
  <2> QED  BY <1>2, <1>4, <1>6, <2>1, TextDelivered DEF L
<1> QED  BY <1>1, <1>2, <1>7, TellText DEF L

LEMMA EventsStep ==
  ASSUME IInv, EventsInv, [Next]_vars
  PROVE  EventsInv' /\ Grows
<1>1. CASE UNCHANGED <<template, events, reported>>
  BY <1>1, QuietEvents
<1>2. CASE ScanPlain
  <2> DEFINE k == Len(txt) - 1
  <2>1. /\ pc = "scan" /\ IndexOf(txt, Opener, 0) = -1 /\ OnText(Mid(txt, 0, k))
        /\ template' = template
    BY <1>2 DEF ScanPlain, input
  <2>2. txt \in Seq(Chars)
    BY <2>1, ScanFacts
  <2>3. k \in Int /\ k <= Len(txt) /\ \A j \in 1 .. k : j < Len(txt) /\ ~OpensAt(txt, j)
    BY <2>1, <2>2, NoOpenerBefore
  <2> HIDE DEF k
  <2> QED  BY <2>1, <2>3, ScanTextEvents
<1>3. CASE ScanUnclosed \/ VariableRefused
  <2> DEFINE n == IndexOf(txt, Opener, 0)
  <2>1. pc = "scan" /\ n # -1 /\ OnText(Mid(txt, 0, n)) /\ template' = template
    BY <1>3 DEF ScanUnclosed, VariableRefused, input
  <2>2. txt \in Seq(Chars)
    BY <2>1, ScanFacts
  <2>3. n \in Int /\ n <= Len(txt) /\ \A j \in 1 .. n : j < Len(txt) /\ ~OpensAt(txt, j)
    BY <2>1, <2>2, NoOpenerBefore
  <2> HIDE DEF n
  <2> QED  BY <2>1, <2>3, ScanTextEvents
<1>4. CASE ScanVariable
  BY <1>4, PlaceholderDelivered DEF Grows
<1>5. CASE FinishText
  BY <1>5, FinishTextEvents
<1>6. CASE Start \/ Open \/ Read \/ ReadNothing \/ Finish \/ Raise \/ UNCHANGED vars
  <2>1. UNCHANGED <<template, events, reported>>
    BY <1>6 DEF Start, Open, Read, ReadNothing, Finish, Raise, vars, input, history
  <2> QED  BY <1>1, <2>1
<1> QED
  BY <1>2, <1>3, <1>4, <1>5, <1>6 DEF Next, Progress, Terminated

LEMMA InitStreamInv == Init => StreamInv
<1> SUFFICES ASSUME Init  PROVE StreamInv
  OBVIOUS
<1>1. events = <<>> /\ reported = <<>> /\ pc = "start" /\ template \in Seq(Chars)
  BY TemplatesAssumption DEF Init
<1>2. Len(reported) + 1 = 1 /\ 1 \in 1 .. Len(template) + 1
  BY <1>1
<1>3. Rest(template)[1] \in Seq(TokenSet)
  BY <1>1, <1>2, RestTyped
<1>4. <<>> \o Rest(template)[1] = Rest(template)[1] /\ <<>> \in Seq(TokenSet)
  BY <1>3, ConcatEmptySeq
<1>5. Tokens(template) = Rest(template)[1]
  BY TokensAreRest
<1>6. EventsInv
  BY <1>1, <1>2, <1>3, <1>4, <1>5 DEF EventsInv
<1> QED  BY <1>1, <1>6, InitIInv DEF StreamInv

LEMMA NextStreamInv == StreamInv /\ [Next]_vars => StreamInv'
<1> SUFFICES ASSUME StreamInv, [Next]_vars  PROVE StreamInv'
  OBVIOUS
<1>1. IInv' /\ EventsInv'
  BY NextIInv, EventsStep DEF StreamInv
<1>2. (pc = "eof" => feof)'
  BY DEF StreamInv, Next, Progress, Start, Open, Read, ReadNothing, ScanPlain, ScanVariable,
         ScanUnclosed, FinishText, Finish, Raise, VariableRefused, Terminated, vars, input, OnText
<1> QED  BY <1>1, <1>2 DEF StreamInv

-----------------------------------------------------------------------------
\* The abstract module reads the template as TemplateSyntax does.
LEMMA StreamTokens == \A s : Stream!Tokens(s) = Tokens(s)
BY Zenon DEF Tokens, PlaceholderAt, CloserOf, Separators, VariableToken, OpensAt, ClosersAfter,
             Smallest, CharToken,
             Stream!Tokens, Stream!PlaceholderAt, Stream!CloserOf, Stream!Separators,
             Stream!VariableToken, Stream!OpensAt, Stream!ClosersAfter, Stream!Smallest,
             Stream!CharToken

LEMMA BeginningOf ==
  ASSUME NEW a \in Seq(TokenSet), NEW b \in Seq(TokenSet)
  PROVE  /\ SubSeq(a \o b, 1, Len(a)) = a
         /\ Len(a) \in Nat /\ Len(a) <= Len(a \o b)
<1> DEFINE c == SubSeq(a \o b, 1, Len(a))
<1>1. /\ a \o b \in Seq(TokenSet) /\ Len(a \o b) = Len(a) + Len(b)
      /\ \A i \in 1 .. Len(a) : (a \o b)[i] = a[i]
      /\ Len(a) \in Nat /\ Len(b) \in Nat
  OBVIOUS
<1>2. c \in Seq(TokenSet) /\ Len(c) = Len(a) /\ \A i \in 1 .. Len(a) : c[i] = (a \o b)[i]
  BY <1>1
<1> HIDE DEF c
<1>3. c = a
  BY <1>1, <1>2, SeqEqual
<1> QED  BY <1>1, <1>3 DEF c

\* Before and after a step the events begin the tokens, and they only grow.
LEMMA StepDelivers ==
  ASSUME StreamInv, [Next]_vars
  PROVE  /\ template' = template
         /\ events' = SubSeq(Tokens(template), 1, Len(events'))
         /\ Len(events') \in Nat /\ Len(events) \in Nat
         /\ Len(events) <= Len(events') /\ Len(events') <= Len(Tokens(template))
         /\ Len(events') = Len(events) => events' = events
<1>1. template' = template
  BY DEF Next, Progress, Start, Open, Read, ReadNothing, ScanPlain, ScanVariable,
         ScanUnclosed, FinishText, Finish, Raise, VariableRefused, Terminated, vars, input
<1>2. StreamInv' /\ Grows
  BY NextStreamInv, EventsStep DEF StreamInv
<1> DEFINE r == Rest(template)[Len(reported') + 1]
<1>3. events' \in Seq(TokenSet) /\ events \in Seq(TokenSet) /\ Tokens(template) = events' \o r
  BY <1>1, <1>2 DEF StreamInv, EventsInv
<1>4. r \in Seq(TokenSet)
  BY <1>1, <1>2 DEF StreamInv, EventsInv
<1> HIDE DEF r
<1>5. /\ SubSeq(events' \o r, 1, Len(events')) = events'
      /\ Len(events') \in Nat /\ Len(events') <= Len(events' \o r)
  BY <1>3, <1>4, BeginningOf
<1>6. PICK x \in Seq(TokenSet) : events' = events \o x
  BY <1>2 DEF Grows
<1>7. /\ Len(events) \in Nat /\ Len(events) <= Len(events')
      /\ SubSeq(events', 1, Len(events)) = events
  BY <1>3, <1>6, BeginningOf
<1>8. Len(events') = Len(events) => events' = events
  <2>1. SubSeq(events', 1, Len(events')) = events'
    BY <1>3, SubSeqFull
  <2> QED  BY <1>7, <2>1, Zenon
<1> QED  BY <1>1, <1>3, <1>5, <1>7, <1>8

\* At the end of the file the reference has nothing left.
LEMMA NothingLeft ==
  ASSUME StreamInv, pc = "eof"
  PROVE  events = Tokens(template)
<1>1. /\ reported \in Seq(Chars) /\ unread = <<>> /\ template = reported \o <<>> \o unread
  BY DEF StreamInv, IInv, TypeOK, Lossless, Pending, HeldBack
<1>2. template = reported
  BY <1>1, ConcatEmptySeq
<1> DEFINE i == Len(template) + 1
<1>3. template \in Seq(Chars) /\ i \in 1 .. Len(template) + 1 /\ i > Len(template)
  BY <1>1, <1>2
<1>4. Rest(template)[i] = <<>>
  <2>1. Rest(template)[i] = RestStep(template, Rest(template), i)
    BY <1>3, RestUnfolds
  <2> HIDE DEF i
  <2> QED  BY <1>3, <2>1 DEF RestStep
<1>5. events \in Seq(TokenSet) /\ Tokens(template) = events \o Rest(template)[i]
  BY <1>2 DEF StreamInv, EventsInv
<1>6. events \o <<>> = events
  BY <1>5, ConcatEmptySeq
<1> QED  BY <1>4, <1>5, <1>6

LEMMA InitMaps == Init => Stream!Init
BY DEF Init, Stream!Init

LEMMA NextMaps ==
  ASSUME StreamInv, [Next]_vars
  PROVE  Stream!Next \/ UNCHANGED Stream!vars
<1>1. /\ template' = template
      /\ events' = SubSeq(Tokens(template), 1, Len(events'))
      /\ Len(events') \in Nat /\ Len(events) \in Nat
      /\ Len(events) <= Len(events') /\ Len(events') <= Len(Tokens(template))
      /\ Len(events') = Len(events) => events' = events
  BY StepDelivers
<1>2. Stream!Tokens(template) = Tokens(template) /\ Len(Tokens(template)) \in Nat
  <2>1. Tokens(template) \in Seq(TokenSet)
    BY DEF StreamInv, EventsInv
  <2> QED  BY <2>1, StreamTokens
<1> DEFINE Running == {"start"} \cup TryBlock
<1>3. CASE pc \in Running /\ pc' \in Running
  <2>1. CASE Len(events') = Len(events)
    BY <1>1, <1>3, <2>1 DEF Stream!vars, TryBlock
  <2>2. CASE Len(events') > Len(events)
    <3>1. Len(events') \in Len(events) + 1 .. Len(Tokens(template))
      BY <1>1, <1>2, <2>2
    <3>2. Stream!Deliver
      BY <1>1, <1>2, <1>3, <3>1 DEF Stream!Deliver, TryBlock
    <3> QED  BY <3>2 DEF Stream!Next
  <2> QED  BY <1>1, <2>1, <2>2
<1>4. CASE pc \in Running /\ pc' \in {"failed", "refused"}
  <2>1. Len(events') \in Len(events) .. Len(Tokens(template))
    BY <1>1, <1>2
  <2>2. Stream!Fail
    BY <1>1, <1>2, <1>4, <2>1 DEF Stream!Fail, TryBlock
  <2> QED  BY <2>2 DEF Stream!Next
<1>5. CASE Finish
  <2>1. pc = "eof" /\ pc' = "done" /\ events' = events
    BY <1>5 DEF Finish
  <2>2. events = Tokens(template)
    BY <2>1, NothingLeft
  <2>3. Stream!Finish
    BY <1>1, <1>2, <2>1, <2>2 DEF Stream!Finish
  <2> QED  BY <2>3 DEF Stream!Next
<1>6. CASE UNCHANGED vars
  BY <1>6 DEF vars, Stream!vars
<1>7. \/ pc \in Running /\ pc' \in Running \cup {"failed", "refused"}
      \/ Finish \/ UNCHANGED vars
  BY DEF Next, Progress, Start, Open, Read, ReadNothing, ScanPlain, ScanVariable, ScanUnclosed,
         FinishText, Raise, VariableRefused, Terminated, TryBlock
<1> QED  BY <1>3, <1>4, <1>5, <1>6, <1>7

(***************************************************************************)
(* The buffered parser delivers the tokens of the whole file, in order,    *)
(* each once, then the end of the file; or some of them, then an error:    *)
(* for every file, alphabet and buffer size.                               *)
(***************************************************************************)
THEOREM ParserImplementsTokenStream == Spec => StreamSpec
<1>1. StreamInv /\ [Next]_vars => [Stream!Next]_(Stream!vars)
  BY NextMaps
<1> QED
  BY <1>1, InitStreamInv, NextStreamInv, InitMaps, PTL DEF Spec, StreamSpec, Stream!Spec
=============================================================================

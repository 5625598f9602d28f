------------------------- MODULE CommandLine_proofs -------------------------
(***************************************************************************)
(* Proofs about CommandLine, for any command lines, words and packages:    *)
(* --help and --version are harmless, and what is begun is what the line   *)
(* says, by the position of its options in it.                             *)
(***************************************************************************)
EXTENDS CommandLine, TLAPS, WellFoundedInduction

\* --help or --version stands before the first option.
HelpInFront == \E i \in Front(asked) : asked[i] \in Globals

\* The router has read all up to `next', and what it saw of the two decides what runs.
RouterReads ==
  /\ asked \in Seq(Args) /\ help \in BOOLEAN /\ version \in BOOLEAN
  /\ pc = "route" =>
       /\ argv = asked /\ next \in Nat \ {0}
       /\ \A i \in 1 .. Len(asked) : i < next /\ asked[i] \in Globals => help \/ version
  /\ pc # "route" /\ HelpInFront => help \/ version
  /\ pc \in {"options", "package", "decide"} => ~help /\ ~version
  /\ pc \in {"route", "dispatch", "options", "package", "decide"} => effect = Nothing
  /\ effect # Nothing => ~HelpInFront

LEMMA InitRouterReads == Init => RouterReads
<1> SUFFICES ASSUME Init PROVE RouterReads
  OBVIOUS
<1>1. asked \in Seq(Args) /\ next = 1 /\ argv = asked
  BY CommandLineAssumption DEF Init
<1>2. \A i \in 1 .. Len(asked) : ~(i < next)
  BY <1>1
<1>3. help \in BOOLEAN /\ version \in BOOLEAN /\ pc = "route" /\ effect = Nothing
  BY DEF Init
<1> QED  BY <1>1, <1>2, <1>3 DEF RouterReads

LEMMA ArgumentTyped ==
  ASSUME RouterReads, pc = "route", HasNext
  PROVE  next \in 1 .. Len(asked) /\ Arg = asked[next] /\ Arg \in Args
BY DEF RouterReads, HasNext, Arg

LEMMA RouterReadsStep == RouterReads /\ [Next]_vars => RouterReads'
<1> SUFFICES ASSUME RouterReads, [Next]_vars PROVE RouterReads'
  OBVIOUS
<1> USE DEF RouterReads, HelpInFront, routed, results
<1>1. CASE UNCHANGED vars \/ Exited
  BY <1>1 DEF vars, Exited, Front
<1>2. CASE RouteGlobal
  <2>1. Arg = asked[next] /\ Arg \in Globals /\ (Arg = "--help" \/ Arg = "--version")
    BY <1>2, ArgumentTyped DEF RouteGlobal, Globals
  <2>2. help' \/ version'
    BY <1>2, <2>1 DEF RouteGlobal
  <2> QED  BY <1>2, <2>2 DEF RouteGlobal, Front
<1>3. CASE RouteWord
  <2>1. Arg = asked[next] /\ Arg \notin Globals
    BY <1>3, ArgumentTyped, CommandLineAssumption DEF RouteWord
  <2>2. \A i \in 1 .. Len(asked) : i < next + 1 => i < next \/ i = next
    BY <1>3 DEF RouteWord
  <2> QED  BY <1>3, <2>1, <2>2 DEF RouteWord, Front
<1>4. CASE RouteStops
  <2>1. ASSUME NEW i \in Front(asked) PROVE i \in 1 .. Len(asked) /\ i < next
    <3>1. CASE HasNext
      <4>1. next \in 1 .. Len(asked) /\ asked[next] \in Flags
        BY <1>4, <3>1, ArgumentTyped DEF RouteStops
      <4> QED  BY <4>1 DEF Front
    <3>2. CASE ~HasNext
      BY <1>4, <3>2 DEF RouteStops, HasNext, Front
    <3> QED  BY <3>1, <3>2
  <2>2. HelpInFront => help \/ version
    BY <1>4, <2>1 DEF RouteStops
  <2> QED  BY <1>4, <2>2 DEF RouteStops, Front
<1>5. CASE PrintVersion \/ NoSuchCommand \/ CommandHelp
  BY <1>5 DEF PrintVersion, NoSuchCommand, CommandHelp, Say, Front
<1>6. CASE Exec
  BY <1>6 DEF Exec, Front
<1>7. CASE SkipWord \/ TakeOption \/ ReadingStops \/ OpenPackage \/ NotAPackage
  BY <1>7 DEF SkipWord, TakeOption, ReadingStops, OpenPackage, NotAPackage, Front
<1>8. CASE ReportBadOption \/ ReportInvalid
  BY <1>8 DEF ReportBadOption, ReportInvalid, Say, Front
<1>9. CASE Perform
  BY <1>9 DEF Perform, Front
<1> QED  BY <1>1, <1>2, <1>3, <1>4, <1>5, <1>6, <1>7, <1>8, <1>9 DEF Next

(***************************************************************************)
(* A command line with --help or --version before the options begins       *)
(* nothing else, whatever the options are (router::route).                 *)
(***************************************************************************)
THEOREM HelpIsHarmless == Spec => []HelpChangesNothing
<1>1. RouterReads => HelpChangesNothing
  BY DEF RouterReads, HelpChangesNothing, HelpInFront
<1> QED  BY <1>1, InitRouterReads, RouterReadsStep, PTL DEF Spec

-----------------------------------------------------------------------------
\* Induction over the natural numbers, for sets.
LEMMA LeastMember ==
  ASSUME NEW S \in SUBSET Nat, S # {}
  PROVE  \E m \in S : \A k \in S : m <= k
<1> DEFINE R == OpToRel(<, Nat)
<1>1. PICK m \in S : \A k \in S : <<k, m>> \notin R
  <2>1. IsWellFoundedOn(R, Nat)
    BY NatLessThanWellFounded
  <2> HIDE DEF R
  <2> QED  BY <2>1, WFMin
<1>2. \A k \in S : m <= k
  <2> SUFFICES ASSUME NEW k \in S, ~(m <= k)  PROVE FALSE
    OBVIOUS
  <2>1. k < m /\ <<k, m>> \in Nat \X Nat
    OBVIOUS
  <2> QED  BY <1>1, <2>1 DEF OpToRel
<1> QED  BY <1>2

LEMMA SetInduction ==
  ASSUME NEW S, 0 \in S, \A n \in Nat : n \in S => n + 1 \in S
  PROVE  Nat \subseteq S
<1> SUFFICES ASSUME Nat \ S # {}  PROVE FALSE
  OBVIOUS
<1>1. PICK m \in Nat \ S : \A k \in Nat \ S : m <= k
  BY LeastMember
<1>2. m - 1 \in Nat /\ m - 1 \in S
  BY <1>1
<1>3. (m - 1) + 1 = m
  BY <1>1
<1> QED  BY <1>1, <1>2, <1>3

-----------------------------------------------------------------------------
(***************************************************************************)
(* What __without_globals leaves of a line: g[k] is what it has kept of    *)
(* the first k arguments.                                                  *)
(***************************************************************************)
KeptStep(line, g, k) ==
  IF k = 0 THEN <<>>
  ELSE IF line[k] \in Globals THEN g[k - 1] ELSE Append(g[k - 1], line[k])

IsKept(line, g, n) == g = [k \in 0 .. n |-> KeptStep(line, g, k)]

LEMMA KeptExists ==
  ASSUME NEW line, NEW n \in Nat
  PROVE  \E g : IsKept(line, g, n)
<1> DEFINE S == {m \in Nat : \E g : IsKept(line, g, m)}
<1>1. 0 \in S
  <2> DEFINE g == [k \in 0 .. 0 |-> <<>>]
  <2>1. g = [k \in 0 .. 0 |-> KeptStep(line, g, k)]
    BY DEF KeptStep
  <2> QED  BY <2>1 DEF IsKept
<1>2. ASSUME NEW m \in Nat, m \in S  PROVE m + 1 \in S
  <2>1. PICK g : g = [k \in 0 .. m |-> KeptStep(line, g, k)]
    BY <1>2 DEF IsKept
  <2> DEFINE h == [k \in 0 .. m + 1 |-> KeptStep(line, g, k)]
  <2>2. \A k \in 0 .. m : h[k] = g[k]
    BY <2>1
  <2>3. \A k \in 0 .. m + 1 : KeptStep(line, h, k) = KeptStep(line, g, k)
    <3> HIDE DEF h
    <3> QED  BY <2>2 DEF KeptStep
  <2>4. h = [k \in 0 .. m + 1 |-> KeptStep(line, h, k)]
    BY <2>3, Zenon
  <2>5. IsKept(line, h, m + 1)
    BY <2>4 DEF IsKept
  <2> HIDE DEF h
  <2> QED  BY <2>5
<1> HIDE DEF S
<1>3. Nat \subseteq S
  BY <1>1, <1>2, SetInduction
<1> QED  BY <1>3 DEF S

LEMMA KeptIsComputed ==
  ASSUME NEW line \in Seq(Args)
  PROVE  \E g : IsKept(line, g, Len(line)) /\ WithoutGlobals(line) = g[Len(line)]
<1> DEFINE g == CHOOSE h : h = [k \in 0 .. Len(line) |-> KeptStep(line, h, k)]
<1>1. \E h : h = [k \in 0 .. Len(line) |-> KeptStep(line, h, k)]
  BY KeptExists DEF IsKept
<1>2. g = [k \in 0 .. Len(line) |-> KeptStep(line, g, k)]
  BY <1>1, Zenon
<1>3. WithoutGlobals(line) = g[Len(line)]
  BY Zenon DEF WithoutGlobals, KeptStep
<1> QED  BY <1>2, <1>3 DEF IsKept

\* What is left are arguments of the line.
LEMMA WhatIsLeft ==
  ASSUME NEW line \in Seq(Args)
  PROVE  LET w == WithoutGlobals(line)
         IN  /\ w \in Seq(Args) /\ Len(w) <= Len(line)
             /\ \A i \in 1 .. Len(w) : \E j \in 1 .. Len(line) : w[i] = line[j]
<1>1. PICK g : IsKept(line, g, Len(line)) /\ WithoutGlobals(line) = g[Len(line)]
  BY KeptIsComputed
<1> DEFINE P(n) ==
      /\ g[n] \in Seq(Args) /\ Len(g[n]) <= n
      /\ \A i \in 1 .. Len(g[n]) : \E j \in 1 .. n : g[n][i] = line[j]
    S == {n \in Nat : n <= Len(line) => P(n)}
<1>2. \A k \in 0 .. Len(line) : g[k] = KeptStep(line, g, k)
  BY <1>1 DEF IsKept
<1>3. 0 \in S
  <2>1. g[0] = <<>>
    BY <1>2 DEF KeptStep
  <2>2. P(0)
    BY <2>1
  <2> QED  BY <2>2
<1>4. ASSUME NEW n \in Nat, n \in S  PROVE n + 1 \in S
  <2> SUFFICES ASSUME n + 1 <= Len(line)  PROVE P(n + 1)
    OBVIOUS
  <2>1. P(n)
    BY <1>4
  <2>2. line[n + 1] \in Args /\ n + 1 \in 0 .. Len(line)
    OBVIOUS
  <2>3. CASE line[n + 1] \in Globals
    <3>1. g[n + 1] = g[n]
      BY <1>2, <2>2, <2>3 DEF KeptStep
    <3> QED  BY <2>1, <2>3, <3>1
  <2>4. CASE line[n + 1] \notin Globals
    <3> DEFINE a == g[n]
               b == g[n + 1]
    <3>1. b = Append(a, line[n + 1])
      <4>1. b = KeptStep(line, g, n + 1) /\ n + 1 # 0 /\ (n + 1) - 1 = n
        BY <1>2, <2>2
      <4> QED  BY <2>4, <4>1 DEF KeptStep
    <3>2. a \in Seq(Args) /\ Len(a) <= n
      BY <2>1
    <3> HIDE DEF a, b
    <3>3. /\ b \in Seq(Args) /\ Len(b) = Len(a) + 1
          /\ \A i \in 1 .. Len(a) : b[i] = a[i]
          /\ b[Len(a) + 1] = line[n + 1]
      BY <2>2, <3>1, <3>2
    <3>4. \A i \in 1 .. Len(b) : \E j \in 1 .. n + 1 : b[i] = line[j]
      <4> SUFFICES ASSUME NEW i \in 1 .. Len(b)  PROVE \E j \in 1 .. n + 1 : b[i] = line[j]
        OBVIOUS
      <4>1. CASE i \in 1 .. Len(a)
        <5>1. PICK j \in 1 .. n : a[i] = line[j]
          BY <2>1, <4>1 DEF a
        <5> QED  BY <3>3, <4>1, <5>1
      <4>2. CASE i = Len(a) + 1
        <5>1. b[i] = line[n + 1] /\ n + 1 \in 1 .. n + 1
          BY <3>3, <4>2
        <5> QED  BY <2>4, <5>1
      <4> QED  BY <3>2, <3>3, <4>1, <4>2
    <3>5. P(n + 1)
      BY <3>2, <3>3, <3>4 DEF b
    <3> QED  BY <3>5
  <2> QED  BY <2>3, <2>4
<1> HIDE DEF S
<1>5. Nat \subseteq S
  BY <1>3, <1>4, SetInduction
<1>6. P(Len(line))
  BY <1>5 DEF S
<1> QED  BY <1>1, <1>6

-----------------------------------------------------------------------------
\* The number of options directly before a position, from one to the next.
LEMMA RunIsLongest ==
  ASSUME NEW line, NEW i \in Nat \ {0}
  PROVE  \E m \in 1 .. i :
           /\ RunBefore(line, i) = i - m
           /\ \A k \in m .. i - 1 : line[k] \in Flags
           /\ \A j \in 1 .. i : (\A k \in j .. i - 1 : line[k] \in Flags) => m <= j
<1> DEFINE starts == {j \in 1 .. i : \A k \in j .. i - 1 : line[k] \in Flags}
           m == CHOOSE j \in starts : \A k \in starts : j <= k
<1>1. i \in starts /\ starts \in SUBSET Nat
  OBVIOUS
<1>2. RunBefore(line, i) = i - m
  BY DEF RunBefore
<1> HIDE DEF m
<1>3. m \in starts /\ \A k \in starts : m <= k
  <2> HIDE DEF starts
  <2>1. \E j \in starts : \A k \in starts : j <= k
    BY <1>1, LeastMember
  <2> QED  BY <2>1, Zenon DEF m
<1> QED  BY <1>2, <1>3

LEMMA RunAfterFlag ==
  ASSUME NEW line, NEW i \in Nat \ {0}, line[i] \in Flags
  PROVE  RunBefore(line, i + 1) = RunBefore(line, i) + 1
<1>1. PICK m \in 1 .. i :
        /\ RunBefore(line, i) = i - m
        /\ \A k \in m .. i - 1 : line[k] \in Flags
        /\ \A j \in 1 .. i : (\A k \in j .. i - 1 : line[k] \in Flags) => m <= j
  BY RunIsLongest
<1>2. PICK n \in 1 .. i + 1 :
        /\ RunBefore(line, i + 1) = i + 1 - n
        /\ \A k \in n .. i : line[k] \in Flags
        /\ \A j \in 1 .. i + 1 : (\A k \in j .. i : line[k] \in Flags) => n <= j
  <2> DEFINE h == i + 1
  <2>1. h \in Nat \ {0} /\ h - 1 = i
    OBVIOUS
  <2> HIDE DEF h
  <2>2. PICK n \in 1 .. h :
          /\ RunBefore(line, h) = h - n
          /\ \A k \in n .. h - 1 : line[k] \in Flags
          /\ \A j \in 1 .. h : (\A k \in j .. h - 1 : line[k] \in Flags) => n <= j
    BY <2>1, RunIsLongest
  <2> QED  BY <2>1, <2>2 DEF h
<1>3. \A k \in m .. i : line[k] \in Flags
  BY <1>1
<1>4. n <= m
  BY <1>2, <1>3
<1>5. n \in 1 .. i /\ \A k \in n .. i - 1 : line[k] \in Flags
  BY <1>2, <1>4
<1>6. m <= n
  BY <1>1, <1>5
<1> QED  BY <1>1, <1>2, <1>4, <1>6

LEMMA RunAfterWord ==
  ASSUME NEW line, NEW i \in Nat, i = 0 \/ line[i] \notin Flags
  PROVE  RunBefore(line, i + 1) = 0
<1>1. PICK n \in 1 .. i + 1 :
        /\ RunBefore(line, i + 1) = i + 1 - n
        /\ \A k \in n .. i : line[k] \in Flags
  <2>1. i + 1 \in Nat \ {0} /\ (i + 1) - 1 = i
    OBVIOUS
  <2> QED  BY <2>1, RunIsLongest
<1>2. n = i + 1
  BY <1>1
<1> QED  BY <1>1, <1>2

LEMMA RunIsNatural ==
  ASSUME NEW line, NEW i \in Nat \ {0}
  PROVE  RunBefore(line, i) \in Nat
BY RunIsLongest

-----------------------------------------------------------------------------
(***************************************************************************)
(* Where __without_globals puts the arguments it keeps: c[i] of the first  *)
(* i arguments are kept, so that the i-th one, if it is, becomes the       *)
(* c[i]-th.                                                                *)
(***************************************************************************)
IsPlacing(line, w, c) ==
  /\ c[0] = 0 /\ c[Len(line)] = Len(w)
  /\ \A i \in 0 .. Len(line) : c[i] \in Nat
  /\ \A i \in 1 .. Len(line) : line[i] \in Globals => c[i] = c[i - 1]
  /\ \A i \in 1 .. Len(line) : line[i] \notin Globals => c[i] = c[i - 1] + 1 /\ w[c[i]] = line[i]

LEMMA PlacingExists ==
  ASSUME NEW line \in Seq(Args)
  PROVE  \E c : IsPlacing(line, WithoutGlobals(line), c)
<1>1. PICK g : IsKept(line, g, Len(line)) /\ WithoutGlobals(line) = g[Len(line)]
  BY KeptIsComputed
<1>2. \A k \in 0 .. Len(line) : g[k] = KeptStep(line, g, k)
  BY <1>1 DEF IsKept
<1> DEFINE P(n) ==
      /\ g[n] \in Seq(Args)
      /\ \A i \in 1 .. n : line[i] \notin Globals =>
           Len(g[i]) \in 1 .. Len(g[n]) /\ g[n][Len(g[i])] = line[i]
    S == {n \in Nat : n <= Len(line) => P(n)}
<1>3. 0 \in S
  <2>1. g[0] = <<>>
    BY <1>2 DEF KeptStep
  <2>2. P(0)
    BY <2>1
  <2> QED  BY <2>2
<1>4. ASSUME NEW n \in Nat, n \in S, n + 1 <= Len(line)
      PROVE  /\ P(n + 1)
             /\ line[n + 1] \in Globals => g[n + 1] = g[n]
             /\ line[n + 1] \notin Globals => Len(g[n + 1]) = Len(g[n]) + 1
  <2>1. P(n)
    BY <1>4
  <2>2. /\ line[n + 1] \in Args /\ n + 1 \in 0 .. Len(line)
        /\ \A i \in 1 .. n + 1 : i \in 1 .. n \/ i = n + 1
    BY <1>4
  <2>3. g[n + 1] = KeptStep(line, g, n + 1) /\ n + 1 # 0 /\ (n + 1) - 1 = n
    BY <1>2, <2>2
  <2>4. CASE line[n + 1] \in Globals
    <3>1. g[n + 1] = g[n]
      BY <2>3, <2>4 DEF KeptStep
    <3> QED  BY <2>1, <2>2, <2>4, <3>1
  <2>5. CASE line[n + 1] \notin Globals
    <3> DEFINE a == g[n]
               b == g[n + 1]
    <3>1. b = Append(a, line[n + 1])
      BY <2>3, <2>5 DEF KeptStep
    <3>2. a \in Seq(Args)
      BY <2>1
    <3>3. /\ b \in Seq(Args) /\ Len(b) = Len(a) + 1
          /\ \A i \in 1 .. Len(a) : b[i] = a[i]
          /\ b[Len(a) + 1] = line[n + 1]
      <4> HIDE DEF a, b
      <4> QED  BY <2>2, <3>1, <3>2
    <3>4. ASSUME NEW i \in 1 .. n + 1, line[i] \notin Globals
          PROVE  Len(g[i]) \in 1 .. Len(b) /\ b[Len(g[i])] = line[i]
      <4>1. CASE i = n + 1
        <5>1. Len(g[i]) = Len(b) /\ Len(b) = Len(a) + 1 /\ Len(a) \in Nat
          BY <3>2, <3>3, <4>1
        <5> QED  BY <3>3, <4>1, <5>1
      <4>2. CASE i \in 1 .. n
        <5>1. Len(g[i]) \in 1 .. Len(a) /\ a[Len(g[i])] = line[i]
          BY <2>1, <3>4, <4>2
        <5> QED  BY <3>2, <3>3, <5>1
      <4> QED  BY <2>2, <4>1, <4>2
    <3>5. P(n + 1)
      BY <3>3, <3>4
    <3> QED  BY <2>5, <3>3, <3>5
  <2> QED  BY <2>4, <2>5
<1>5. \A n \in Nat : n \in S => n + 1 \in S
  BY <1>4
<1>6. Nat \subseteq S
  <2> HIDE DEF S
  <2> QED  BY <1>3, <1>5, SetInduction
<1>7. \A n \in 0 .. Len(line) : P(n)
  BY <1>6
<1> DEFINE c == [i \in 0 .. Len(line) |-> Len(g[i])]
<1>8. \A i \in 0 .. Len(line) : c[i] = Len(g[i]) /\ Len(g[i]) \in Nat
  BY <1>7
<1>9. c[0] = 0 /\ c[Len(line)] = Len(WithoutGlobals(line))
  <2>1. g[0] = <<>>
    BY <1>2 DEF KeptStep
  <2> QED  BY <1>1, <1>8, <2>1
<1>10. ASSUME NEW i \in 1 .. Len(line)
       PROVE  /\ line[i] \in Globals => c[i] = c[i - 1]
              /\ line[i] \notin Globals =>
                   c[i] = c[i - 1] + 1 /\ WithoutGlobals(line)[c[i]] = line[i]
  <2>1. PICK n \in Nat : n + 1 = i /\ i - 1 = n
    <3>1. i - 1 \in Nat /\ (i - 1) + 1 = i
      OBVIOUS
    <3> QED  BY <3>1
  <2>2. n \in S /\ n + 1 <= Len(line)
    BY <1>6, <2>1
  <2>3. /\ line[n + 1] \in Globals => g[n + 1] = g[n]
        /\ line[n + 1] \notin Globals => Len(g[n + 1]) = Len(g[n]) + 1
    <3> HIDE DEF S, P
    <3> QED  BY <1>4, <2>2
  <2>4. line[i] \notin Globals => g[Len(line)][Len(g[i])] = line[i]
    BY <1>7
  <2>5. c[i] = Len(g[i]) /\ c[i - 1] = Len(g[n])
    BY <1>8, <2>1
  <2> HIDE DEF c, S, P
  <2> QED  BY <1>1, <2>1, <2>3, <2>4, <2>5
<1> HIDE DEF c, S, P
<1>11. IsPlacing(line, WithoutGlobals(line), c)
  BY <1>8, <1>9, <1>10 DEF IsPlacing
<1> QED  BY <1>11

\* The kept arguments stay in their order.
LEMMA PlacesAscend ==
  ASSUME NEW line \in Seq(Args), NEW w, NEW c, IsPlacing(line, w, c)
  PROVE  \A j \in 0 .. Len(line) : \A i \in 0 .. j : c[i] <= c[j]
<1> DEFINE S == {n \in Nat : n <= Len(line) => \A i \in 0 .. n : c[i] <= c[n]}
<1>1. 0 \in S
  BY DEF IsPlacing
<1>2. ASSUME NEW n \in Nat, n \in S  PROVE n + 1 \in S
  <2> SUFFICES ASSUME n + 1 <= Len(line), NEW i \in 0 .. n + 1  PROVE c[i] <= c[n + 1]
    OBVIOUS
  <2>1. \A k \in 0 .. n : c[k] <= c[n]
    BY <1>2
  <2>2. n + 1 \in 1 .. Len(line) /\ (n + 1) - 1 = n /\ (i \in 0 .. n \/ i = n + 1)
    OBVIOUS
  <2>3. c[n] \in Nat /\ c[i] \in Nat /\ (c[n + 1] = c[n] \/ c[n + 1] = c[n] + 1)
    BY <2>2 DEF IsPlacing
  <2> QED  BY <2>1, <2>2, <2>3
<1> HIDE DEF S
<1>3. Nat \subseteq S
  BY <1>1, <1>2, SetInduction
<1> QED  BY <1>3 DEF S

\* Every argument that is left was there.
LEMMA PlacesCover ==
  ASSUME NEW line \in Seq(Args), NEW w \in Seq(Args), NEW c, IsPlacing(line, w, c),
         NEW k \in 1 .. Len(w)
  PROVE  \E i \in 1 .. Len(line) : line[i] \notin Globals /\ c[i] = k
<1> DEFINE Covered(n) == \E i \in 1 .. n : line[i] \notin Globals /\ c[i] = k
           S == {n \in Nat : n <= Len(line) /\ k <= c[n] => Covered(n)}
<1>1. 0 \in S
  BY DEF IsPlacing
<1>2. ASSUME NEW n \in Nat, n \in S  PROVE n + 1 \in S
  <2> SUFFICES ASSUME n + 1 <= Len(line), k <= c[n + 1]  PROVE Covered(n + 1)
    OBVIOUS
  <2>1. n + 1 \in 1 .. Len(line) /\ (n + 1) - 1 = n /\ n \in 0 .. Len(line) /\ n <= Len(line)
    OBVIOUS
  <2>2. c[n] \in Nat
    BY <2>1 DEF IsPlacing
  <2>3. CASE k <= c[n]
    BY <1>2, <2>1, <2>3
  <2>4. CASE ~(k <= c[n])
    <3>1. line[n + 1] \notin Globals /\ c[n + 1] = c[n] + 1
      BY <2>1, <2>2, <2>4 DEF IsPlacing
    <3> QED  BY <2>2, <2>4, <3>1
  <2> QED  BY <2>3, <2>4
<1> HIDE DEF S
<1>3. Nat \subseteq S
  BY <1>1, <1>2, SetInduction
<1>4. k <= c[Len(line)]
  BY DEF IsPlacing
<1> QED  BY <1>3, <1>4 DEF S

(***************************************************************************)
(* Taking out globals that stand alone does not change what is an option   *)
(* and what is its argument: the options before a place are as many, but   *)
(* for an even number.                                                     *)
(***************************************************************************)
Alone(line) == \A i \in 1 .. Len(line) : line[i] \in Globals => RunBefore(line, i) % 2 = 0

LEMMA RunsAgree ==
  ASSUME NEW line \in Seq(Args), NEW w, NEW c, IsPlacing(line, w, c), Alone(line)
  PROVE  \A n \in 0 .. Len(line) : RunBefore(w, c[n] + 1) % 2 = RunBefore(line, n + 1) % 2
<1> DEFINE Agree(n) == RunBefore(w, c[n] + 1) % 2 = RunBefore(line, n + 1) % 2
           S == {n \in Nat : n <= Len(line) => Agree(n)}
<1>1. 0 \in S
  <2>1. c[0] = 0 /\ RunBefore(w, 0 + 1) = 0 /\ RunBefore(line, 0 + 1) = 0
    BY RunAfterWord DEF IsPlacing
  <2> QED  BY <2>1
<1>2. ASSUME NEW n \in Nat, n \in S, n + 1 <= Len(line)  PROVE Agree(n + 1)
  <2>1. /\ n + 1 \in 1 .. Len(line) /\ n + 1 \in Nat \ {0} /\ (n + 1) - 1 = n
        /\ n \in 0 .. Len(line) /\ n <= Len(line)
    BY <1>2
  <2>2. Agree(n)
    BY <1>2, <2>1
  <2>3. c[n] \in Nat /\ c[n] + 1 \in Nat \ {0}
    BY <2>1 DEF IsPlacing
  <2>4. Globals \cap Flags = {}
    BY DEF Globals, Flags, Options
  <2>5. CASE line[n + 1] \in Globals
    <3>1. c[n + 1] = c[n]
      BY <2>1, <2>5 DEF IsPlacing
    <3>2. RunBefore(line, n + 1) % 2 = 0
      BY <2>1, <2>5 DEF Alone
    <3>3. RunBefore(line, (n + 1) + 1) = 0
      BY <2>1, <2>4, <2>5, RunAfterWord
    <3> QED  BY <2>2, <3>1, <3>2, <3>3
  <2>6. CASE line[n + 1] \in Flags
    <3>1. c[n + 1] = c[n] + 1 /\ w[c[n] + 1] = line[n + 1]
      BY <2>1, <2>4, <2>6 DEF IsPlacing
    <3>2. RunBefore(w, (c[n] + 1) + 1) = RunBefore(w, c[n] + 1) + 1
      BY <2>3, <2>6, <3>1, RunAfterFlag
    <3>3. RunBefore(line, (n + 1) + 1) = RunBefore(line, n + 1) + 1
      BY <2>1, <2>6, RunAfterFlag
    <3>4. RunBefore(w, c[n] + 1) \in Nat /\ RunBefore(line, n + 1) \in Nat
      BY <2>1, <2>3, RunIsNatural
    <3>5. \A a, b \in Nat : a % 2 = b % 2 => (a + 1) % 2 = (b + 1) % 2
      OBVIOUS
    <3>6. (RunBefore(w, c[n] + 1) + 1) % 2 = (RunBefore(line, n + 1) + 1) % 2
      BY <2>2, <3>4, <3>5
    <3> QED  BY <3>1, <3>2, <3>3, <3>6
  <2>7. CASE line[n + 1] \notin Globals \cup Flags
    <3>1. c[n + 1] = c[n] + 1 /\ w[c[n] + 1] = line[n + 1]
      BY <2>1, <2>7 DEF IsPlacing
    <3>2. RunBefore(w, (c[n] + 1) + 1) = 0
      BY <2>3, <2>7, <3>1, RunAfterWord
    <3>3. RunBefore(line, (n + 1) + 1) = 0
      BY <2>1, <2>7, RunAfterWord
    <3> QED  BY <3>1, <3>2, <3>3
  <2> QED  BY <2>5, <2>6, <2>7
<1>3. \A n \in Nat : n \in S => n + 1 \in S
  BY <1>2
<1> HIDE DEF S
<1>4. Nat \subseteq S
  BY <1>1, <1>3, SetInduction
<1> QED  BY <1>4 DEF S

\* An argument that is kept is an option where it was one, and its argument is kept behind it.
LEMMA OptionsAgree ==
  ASSUME NEW line \in Seq(Args), NEW w \in Seq(Args), NEW c, IsPlacing(line, w, c), Alone(line),
         NEW i \in 1 .. Len(line), line[i] \notin Globals
  PROVE  /\ c[i] \in 1 .. Len(w) /\ w[c[i]] = line[i]
         /\ IsOption(w, c[i]) <=> IsOption(line, i)
         /\ IsOption(line, i) => /\ c[i] < Len(w) <=> i < Len(line)
                                 /\ i < Len(line) => w[c[i] + 1] = line[i + 1]
<1>1. PICK n \in 0 .. Len(line) : n + 1 = i /\ n = i - 1
  <2>1. i - 1 \in 0 .. Len(line) /\ (i - 1) + 1 = i
    OBVIOUS
  <2> QED  BY <2>1
<1>2. /\ c[n] \in Nat /\ c[i] = c[n] + 1 /\ w[c[i]] = line[i]
      /\ c[Len(line)] = Len(w)
  BY <1>1 DEF IsPlacing
<1>3. c[i] <= c[Len(line)]
  BY PlacesAscend
<1>4. RunBefore(w, c[i]) % 2 = RunBefore(line, i) % 2
  BY <1>1, <1>2, RunsAgree
<1>5. IsOption(w, c[i]) <=> IsOption(line, i)
  BY <1>2, <1>4 DEF IsOption
<1>6. ASSUME IsOption(line, i), i < Len(line)
      PROVE  c[i] < Len(w) /\ w[c[i] + 1] = line[i + 1]
  <2>1. /\ RunBefore(line, i + 1) = RunBefore(line, i) + 1
        /\ RunBefore(line, i) \in Nat /\ RunBefore(line, i) % 2 = 0
    BY <1>6, RunAfterFlag, RunIsNatural DEF IsOption
  <2>2. RunBefore(line, i + 1) % 2 # 0
    BY <2>1
  <2>3. i + 1 \in 1 .. Len(line) /\ (i + 1) - 1 = i
    BY <1>6
  <2>4. line[i + 1] \notin Globals
    BY <2>2, <2>3 DEF Alone
  <2>5. c[i + 1] = c[i] + 1 /\ w[c[i + 1]] = line[i + 1]
    BY <2>3, <2>4 DEF IsPlacing
  <2>6. c[i + 1] <= c[Len(line)]
    BY <2>3, PlacesAscend
  <2> QED  BY <1>2, <2>5, <2>6
<1>7. ASSUME c[i] < Len(w)  PROVE i < Len(line)
  BY <1>2, <1>7
<1> QED  BY <1>2, <1>3, <1>5, <1>6, <1>7

\* So the options have the values they had, and are understood as they were.
LEMMA LastOf ==
  ASSUME NEW line \in Seq(Args), NEW o, NEW i \in Positions(line, o),
         \A j \in Positions(line, o) : j <= i
  PROVE  ValueOf(line, o) = line[i + 1]
<1> DEFINE last == CHOOSE k \in Positions(line, o) : \A j \in Positions(line, o) : j <= k
<1>1. last \in Positions(line, o) /\ \A j \in Positions(line, o) : j <= last
  BY Zenon
<1> HIDE DEF last
<1>2. Positions(line, o) \subseteq Nat
  BY DEF Positions
<1>3. last = i
  BY <1>1, <1>2
<1> QED  BY <1>3 DEF ValueOf, last

LEMMA PositionsAgree ==
  ASSUME NEW line \in Seq(Args), NEW w \in Seq(Args), NEW c, IsPlacing(line, w, c), Alone(line),
         NEW o \in Options
  PROVE  /\ \A i \in Positions(line, o) :
              c[i] \in Positions(w, o) /\ w[c[i] + 1] = line[i + 1]
         /\ \A k \in Positions(w, o) : \E i \in Positions(line, o) : c[i] = k
<1>1. o \notin Globals
  BY DEF Globals, Options
<1>2. ASSUME NEW i \in Positions(line, o)
      PROVE  c[i] \in Positions(w, o) /\ w[c[i] + 1] = line[i + 1]
  <2>1. i \in 1 .. Len(line) /\ i < Len(line) /\ line[i] = o /\ IsOption(line, i)
    BY DEF Positions
  <2>2. /\ c[i] \in 1 .. Len(w) /\ w[c[i]] = line[i] /\ IsOption(w, c[i])
        /\ c[i] < Len(w) /\ w[c[i] + 1] = line[i + 1]
    BY <1>1, <2>1, OptionsAgree
  <2> QED  BY <2>1, <2>2 DEF Positions
<1>3. ASSUME NEW k \in Positions(w, o)  PROVE \E i \in Positions(line, o) : c[i] = k
  <2>1. k \in 1 .. Len(w) /\ k < Len(w) /\ w[k] = o /\ IsOption(w, k)
    BY DEF Positions
  <2>2. PICK i \in 1 .. Len(line) : line[i] \notin Globals /\ c[i] = k
    BY <2>1, PlacesCover
  <2>3. line[i] = o /\ IsOption(line, i) /\ i < Len(line)
    BY <2>1, <2>2, OptionsAgree
  <2>4. i \in Positions(line, o)
    BY <2>3 DEF Positions
  <2> QED  BY <2>2, <2>4
<1> QED  BY <1>2, <1>3

LEMMA ValuesAgree ==
  ASSUME NEW line \in Seq(Args), Alone(line), NEW o \in Options
  PROVE  ValueOf(WithoutGlobals(line), o) = ValueOf(line, o)
<1> DEFINE w == WithoutGlobals(line)
<1>1. w \in Seq(Args)
  BY WhatIsLeft
<1>2. PICK c : IsPlacing(line, w, c)
  BY PlacingExists
<1> HIDE DEF w
<1>3. /\ \A i \in Positions(line, o) :
           c[i] \in Positions(w, o) /\ w[c[i] + 1] = line[i + 1]
      /\ \A k \in Positions(w, o) : \E i \in Positions(line, o) : c[i] = k
  BY <1>1, <1>2, PositionsAgree
<1>4. CASE Positions(line, o) = {}
  <2>1. Positions(w, o) = {}
    BY <1>3, <1>4
  <2> QED  BY <1>4, <2>1 DEF ValueOf, w
<1>5. CASE Positions(line, o) # {}
  <2>1. PICK i \in Positions(line, o) : \A j \in Positions(line, o) : j <= i
    <3> DEFINE Later == {n \in Nat : \A j \in Positions(line, o) : j <= n}
    <3>1. Len(line) \in Later /\ Later \in SUBSET Nat
      BY DEF Positions
    <3>2. PICK m \in Later : \A n \in Later : m <= n
      <4> HIDE DEF Later
      <4> QED  BY <3>1, LeastMember
    <3>3. Positions(line, o) \subseteq Nat \ {0}
      BY DEF Positions
    <3>4. m \in Positions(line, o)
      <4> SUFFICES ASSUME m \notin Positions(line, o)  PROVE FALSE
        OBVIOUS
      <4>1. m \in Nat /\ \A j \in Positions(line, o) : j <= m - 1
        BY <3>2, <3>3
      <4>2. m - 1 \in Nat
        BY <1>5, <3>3, <4>1
      <4>3. m - 1 \in Later
        BY <4>1, <4>2
      <4> HIDE DEF Later
      <4> QED  BY <3>2, <4>1, <4>2, <4>3
    <3> QED  BY <3>2, <3>4
  <2>2. c[i] \in Positions(w, o) /\ w[c[i] + 1] = line[i + 1]
    BY <1>3
  <2>3. ASSUME NEW k \in Positions(w, o)  PROVE k <= c[i]
    <3>1. PICK j \in Positions(line, o) : c[j] = k
      BY <1>3
    <3>2. j <= i /\ i \in 0 .. Len(line) /\ j \in 0 .. i
      BY <2>1 DEF Positions
    <3> QED  BY <1>2, <3>1, <3>2, PlacesAscend
  <2>4. ValueOf(w, o) = w[c[i] + 1]
    BY <1>1, <2>2, <2>3, LastOf
  <2>5. ValueOf(line, o) = line[i + 1]
    BY <2>1, LastOf
  <2> QED  BY <2>2, <2>4, <2>5 DEF w
<1> QED  BY <1>4, <1>5

LEMMA UnderstoodAgree ==
  ASSUME NEW line \in Seq(Args), Alone(line), NEW A,
         \A k \in 1 .. Len(WithoutGlobals(line)) :
            IsOption(WithoutGlobals(line), k) =>
              WithoutGlobals(line)[k] \in A /\ k < Len(WithoutGlobals(line)),
         NEW i \in 1 .. Len(line), IsOption(line, i)
  PROVE  line[i] \in A /\ i < Len(line)
<1> DEFINE w == WithoutGlobals(line)
<1>1. w \in Seq(Args)
  BY WhatIsLeft
<1>2. PICK c : IsPlacing(line, w, c)
  BY PlacingExists
<1>3. \A k \in 1 .. Len(w) : IsOption(w, k) => w[k] \in A /\ k < Len(w)
  OBVIOUS
<1> HIDE DEF w
<1>4. line[i] \notin Globals
  BY DEF IsOption, Globals, Flags, Options
<1>5. /\ c[i] \in 1 .. Len(w) /\ w[c[i]] = line[i] /\ IsOption(w, c[i])
      /\ c[i] < Len(w) <=> i < Len(line)
  BY <1>1, <1>2, <1>4, OptionsAgree
<1> QED  BY <1>3, <1>5

-----------------------------------------------------------------------------
(***************************************************************************)
(* The inductive invariant of both readings.  The router has the first     *)
(* word of the line; the command is always at a place of the line where an *)
(* option may stand, has the last value of each option before it and knows *)
(* all of them.                                                            *)
(***************************************************************************)
Line == WithoutGlobals(asked)

FirstWord == \E p \in 1 .. Len(asked) :
               /\ asked[p] = name /\ name \in Words
               /\ \A j \in 1 .. p - 1 : asked[j] \in Globals

Before(o, n) == {i \in Positions(Line, o) : i < n}

HasLast(o, n) ==
  \/ opts[o] = None /\ Before(o, n) = {}
  \/ \E i \in Before(o, n) : opts[o] = Line[i + 1] /\ \A j \in Before(o, n) : j <= i

Taken(n) == \A o \in Options : HasLast(o, n)

Understood(n) ==
  \A i \in 1 .. Len(Line) : i < n /\ IsOption(Line, i) => Line[i] \in Accepted /\ i < Len(Line)

RouteInv ==
  /\ pc = "route" => /\ argv = asked /\ rc = "reading"
                     /\ name = None => \A j \in 1 .. next - 1 : asked[j] \in Globals
  /\ name # None => FirstWord
  /\ pc \in {"route", "dispatch"} => opts = [o \in Options |-> None]
  /\ pc = "dispatch" => argv = asked

OptionsInv ==
  /\ pc \in {"options", "package", "decide"} => name \in Names /\ argv = Line
  /\ pc = "options" => /\ next \in 1 .. Len(Line) + 1
                       /\ RunBefore(Line, next) % 2 = 0
                       /\ Taken(next) /\ Understood(next)
  /\ pc \in {"package", "decide"} /\ rc = "end" =>
       Taken(Len(Line) + 1) /\ Understood(Len(Line) + 1)
  /\ pc \in {"route", "dispatch", "options", "package"} => rpm = None
  /\ pc = "decide" /\ name = "apply" /\ opts["-p"] # None =>
       rpm \in {PackageName[w] : w \in DOMAIN PackageName}

OutcomeInv ==
  /\ pc # "done" => effect = Nothing /\ status = "none" /\ said = "nothing"
  /\ DoesWhatWasAsked /\ StatusTellsEffect

LineIInv == TypeOK /\ RouteInv /\ OptionsInv /\ OutcomeInv

LEMMA SameLine == ASSUME asked' = asked  PROVE Line' = Line
BY DEF Line

LEMMA LineTyped ==
  ASSUME asked \in Seq(Args)
  PROVE  /\ Line \in Seq(Args) /\ Len(Line) <= Len(asked)
         /\ \A i \in 1 .. Len(Line) : Line[i] \in Given
<1>1. /\ Line \in Seq(Args) /\ Len(Line) <= Len(asked)
      /\ \A i \in 1 .. Len(Line) : \E j \in 1 .. Len(asked) : Line[i] = asked[j]
  BY WhatIsLeft DEF Line
<1> QED  BY <1>1 DEF Given

\* When all of the line was read the options have the values it gives them.
LEMMA ValuesRead ==
  ASSUME asked \in Seq(Args), Taken(Len(Line) + 1), NEW o \in Options
  PROVE  opts[o] = ValueOf(Line, o)
<1>1. Before(o, Len(Line) + 1) = Positions(Line, o)
  BY LineTyped DEF Before, Positions
<1>2. HasLast(o, Len(Line) + 1)
  BY DEF Taken
<1>3. CASE Positions(Line, o) = {}
  BY <1>1, <1>2, <1>3 DEF HasLast, ValueOf
<1>4. CASE Positions(Line, o) # {}
  <2> DEFINE last == CHOOSE i \in Positions(Line, o) : \A j \in Positions(Line, o) : j <= i
  <2>1. PICK i \in Positions(Line, o) :
          opts[o] = Line[i + 1] /\ \A j \in Positions(Line, o) : j <= i
    BY <1>1, <1>2, <1>4 DEF HasLast
  <2>2. last \in Positions(Line, o) /\ \A j \in Positions(Line, o) : j <= last
    BY <2>1, Zenon
  <2> HIDE DEF last
  <2>3. Positions(Line, o) \subseteq Nat
    BY DEF Positions
  <2>4. last = i
    BY <2>1, <2>2, <2>3
  <2> QED  BY <1>4, <2>1, <2>4 DEF ValueOf, last
<1> QED  BY <1>3, <1>4

LEMMA InitLineIInv == Init => LineIInv
<1> SUFFICES ASSUME Init PROVE LineIInv
  OBVIOUS
<1> USE DEF Init
<1>1. asked \in Seq(Args) /\ next = 1
  BY CommandLineAssumption
<1>2. TypeOK
  <2>1. next \in 1 .. Len(asked) + 1
    BY <1>1
  <2>2. opts \in [Options -> Given \cup {None}]
    OBVIOUS
  <2> QED  BY <1>1, <2>1, <2>2 DEF TypeOK
<1>3. RouteInv /\ OptionsInv
  BY <1>1 DEF RouteInv, OptionsInv
<1>4. OutcomeInv
  BY DEF OutcomeInv, DoesWhatWasAsked, StatusTellsEffect, Nothing
<1> QED  BY <1>2, <1>3, <1>4 DEF LineIInv

\* Steps that neither say, begin nor end anything.
LEMMA StillReading ==
  ASSUME LineIInv, pc # "done", UNCHANGED <<said, effect, status, asked>>
  PROVE  OutcomeInv'
<1>1. effect' = Nothing /\ status' = "none" /\ said' = "nothing"
  BY DEF LineIInv, OutcomeInv
<1> QED  BY <1>1 DEF OutcomeInv, DoesWhatWasAsked, StatusTellsEffect, Nothing

LEMMA RouteStep ==
  ASSUME LineIInv, RouteGlobal \/ RouteWord \/ RouteStops
  PROVE  LineIInv'
<1>1. /\ pc = "route" /\ pc' \in {"route", "dispatch"}
      /\ UNCHANGED <<argv, opts, rpm, said, effect, status, asked>>
  BY DEF RouteGlobal, RouteWord, RouteStops, results, routed
<1>2. /\ TypeOK /\ argv = asked /\ rc = "reading" /\ opts = [o \in Options |-> None]
      /\ name = None => \A j \in 1 .. next - 1 : asked[j] \in Globals
      /\ name # None => FirstWord
      /\ rpm = None
  BY <1>1 DEF LineIInv, RouteInv, OptionsInv
<1>3. asked \in Seq(Args) /\ next \in 1 .. Len(asked) + 1
  BY <1>2 DEF TypeOK
<1>4. HasNext => next \in 1 .. Len(asked) /\ Arg = asked[next]
  BY <1>2, <1>3 DEF HasNext, Arg
<1>5. OutcomeInv'
  BY <1>1, StillReading
<1>6. OptionsInv'
  BY <1>1, <1>2 DEF OptionsInv
<1>7. CASE RouteGlobal
  <2>1. /\ HasNext /\ Arg \in Globals /\ next' = next + 1 /\ UNCHANGED <<pc, name, rc>>
        /\ help' = (help \/ Arg = "--help") /\ version' = (version \/ Arg = "--version")
    BY <1>7 DEF RouteGlobal
  <2>2. next' \in 1 .. Len(asked) + 1
    BY <1>3, <1>4, <2>1
  <2>3. TypeOK'
    BY <1>1, <1>2, <2>1, <2>2 DEF TypeOK, Given
  <2>4. name = None => \A j \in 1 .. next' - 1 : asked[j] \in Globals
    <3>1. \A j \in 1 .. next' - 1 : j \in 1 .. next - 1 \/ j = next
      BY <1>3, <2>1
    <3> QED  BY <1>2, <1>4, <2>1, <3>1
  <2>5. RouteInv'
    BY <1>1, <1>2, <2>1, <2>4 DEF RouteInv, FirstWord
  <2> QED  BY <1>5, <1>6, <2>3, <2>5 DEF LineIInv
<1>8. CASE RouteWord
  <2>1. /\ HasNext /\ Arg \in Words /\ next' = next + 1 /\ UNCHANGED <<pc, help, version, rc>>
        /\ name' = IF name = None THEN Arg ELSE name
    BY <1>8 DEF RouteWord
  <2>2. next' \in 1 .. Len(asked) + 1
    BY <1>3, <1>4, <2>1
  <2>3. TypeOK'
    BY <1>1, <1>2, <2>1, <2>2 DEF TypeOK, Given
  <2>4. name' # None
    BY <2>1, CommandLineAssumption DEF Args
  <2>5. FirstWord'
    <3>1. CASE name = None
      <4>1. /\ asked'[next] = name' /\ name' \in Words
            /\ \A j \in 1 .. next - 1 : asked'[j] \in Globals
        BY <1>1, <1>2, <1>4, <2>1, <3>1
      <4>2. next \in 1 .. Len(asked')
        BY <1>1, <1>4, <2>1
      <4> QED  BY <4>1, <4>2 DEF FirstWord
    <3>2. CASE name # None
      BY <1>1, <1>2, <2>1, <3>2 DEF FirstWord
    <3> QED  BY <3>1, <3>2
  <2>6. RouteInv'
    BY <1>1, <1>2, <2>1, <2>4, <2>5 DEF RouteInv
  <2> QED  BY <1>5, <1>6, <2>3, <2>6 DEF LineIInv
<1>9. CASE RouteStops
  <2>1. /\ rc' \in {"end", "badopt"} /\ pc' = "dispatch" /\ UNCHANGED <<next, help, version, name>>
    BY <1>9 DEF RouteStops, routed
  <2>2. TypeOK'
    BY <1>1, <1>2, <2>1 DEF TypeOK, Given
  <2>3. RouteInv'
    BY <1>1, <1>2, <2>1 DEF RouteInv, FirstWord
  <2> QED  BY <1>5, <1>6, <2>2, <2>3 DEF LineIInv
<1> QED  BY <1>7, <1>8, <1>9

\* What the router says in place of a command: nothing is begun.
LEMMA SaidStep ==
  ASSUME LineIInv, pc # "done", pc' = "done",
         UNCHANGED <<next, help, version, name, rc, opts, rpm, effect, asked>>,
         argv' \in Seq(Args),
         said' \in {"nothing", "help", "version", "error"},
         status' \in {"success", "failure", "aborted"},
         status' = "failure" => said' = "error", status' = "success" => said' # "nothing"
  PROVE  LineIInv'
<1>1. TypeOK /\ RouteInv /\ effect' = Nothing
  BY DEF LineIInv, OutcomeInv
<1>2. TypeOK'
  BY <1>1 DEF TypeOK, Given
<1>3. RouteInv'
  BY <1>1 DEF RouteInv, FirstWord
<1>4. OptionsInv'
  BY DEF OptionsInv
<1>5. OutcomeInv'
  BY <1>1 DEF OutcomeInv, DoesWhatWasAsked, StatusTellsEffect, Nothing
<1> QED  BY <1>2, <1>3, <1>4, <1>5 DEF LineIInv

LEMMA DispatchStep ==
  ASSUME LineIInv, PrintVersion \/ NoSuchCommand \/ CommandHelp
  PROVE  LineIInv'
<1>1. asked \in Seq(Args) /\ argv \in Seq(Args)
  BY DEF LineIInv, TypeOK
<1>2. /\ pc = "dispatch" /\ pc' = "done"
      /\ UNCHANGED <<next, help, version, name, rc, opts, rpm, effect, asked>>
      /\ argv' \in {argv, WithoutGlobals(argv)}
      /\ said' \in {"help", "version", "error"} /\ status' = "success"
  BY DEF PrintVersion, NoSuchCommand, CommandHelp, Say, routed
<1>3. argv' \in Seq(Args)
  BY <1>1, <1>2, WhatIsLeft
<1> QED  BY <1>2, <1>3, SaidStep

LEMMA ExecStep == ASSUME LineIInv, Exec  PROVE LineIInv'
<1>1. /\ pc = "dispatch" /\ pc' = "options" /\ name \in Names
      /\ argv' = WithoutGlobals(argv) /\ next' = 1 /\ rc' = "reading"
      /\ UNCHANGED <<help, version, name, opts, rpm, said, effect, status, asked>>
  BY DEF Exec, routed, results
<1>2. /\ TypeOK /\ asked \in Seq(Args) /\ argv = asked /\ opts = [o \in Options |-> None]
      /\ name # None => FirstWord
      /\ rpm = None
  BY <1>1 DEF LineIInv, TypeOK, RouteInv, OptionsInv
<1>3. argv' = Line /\ Line' = Line /\ Line \in Seq(Args)
  BY <1>1, <1>2, LineTyped, SameLine DEF Line
<1>4. TypeOK'
  <2>1. next' \in 1 .. Len(asked') + 1
    BY <1>1, <1>2
  <2> QED  BY <1>1, <1>2, <1>3, <2>1 DEF TypeOK, Given
<1>5. RouteInv'
  BY <1>1, <1>2 DEF RouteInv, FirstWord
<1>6. OptionsInv'
  <2>1. next' \in 1 .. Len(Line) + 1
    BY <1>1, <1>3
  <2>2. RunBefore(Line, next') % 2 = 0
    <3>1. RunBefore(Line, 0 + 1) = 0
      BY RunAfterWord
    <3> QED  BY <1>1, <3>1
  <2>3. Taken(next)'
    <3>1. \A o \in Options : Before(o, next)' = {} /\ opts'[o] = None
      BY <1>1, <1>2, <1>3 DEF Before, Positions
    <3> QED  BY <3>1 DEF Taken, HasLast
  <2>4. Understood(next)'
    BY <1>1, <1>3 DEF Understood
  <2> QED  BY <1>1, <1>2, <1>3, <2>1, <2>2, <2>3, <2>4 DEF OptionsInv
<1>7. OutcomeInv'
  BY <1>1, StillReading
<1> QED  BY <1>4, <1>5, <1>6, <1>7 DEF LineIInv

-----------------------------------------------------------------------------
\* What is known while the command reads.
LEMMA ReadingFacts ==
  ASSUME LineIInv, pc = "options"
  PROVE  /\ TypeOK /\ asked \in Seq(Args) /\ argv = Line /\ name \in Names /\ rpm = None
         /\ Line \in Seq(Args) /\ Len(Line) <= Len(asked)
         /\ next \in 1 .. Len(Line) + 1
         /\ RunBefore(Line, next) \in Nat /\ RunBefore(Line, next) % 2 = 0
         /\ Taken(next) /\ Understood(next)
         /\ HasNext => next \in 1 .. Len(Line) /\ Arg = Line[next] /\ Arg \in Given
<1>1. /\ TypeOK /\ asked \in Seq(Args) /\ argv = Line /\ name \in Names /\ rpm = None
      /\ next \in 1 .. Len(Line) + 1
      /\ RunBefore(Line, next) % 2 = 0
      /\ Taken(next) /\ Understood(next)
  BY DEF LineIInv, TypeOK, OptionsInv
<1>2. /\ Line \in Seq(Args) /\ Len(Line) <= Len(asked)
      /\ \A i \in 1 .. Len(Line) : Line[i] \in Given
  BY <1>1, LineTyped
<1>3. RunBefore(Line, next) \in Nat
  BY <1>1, RunIsNatural
<1>4. HasNext => next \in 1 .. Len(Line) /\ Arg = Line[next]
  BY <1>1, <1>2 DEF HasNext, Arg
<1> QED  BY <1>1, <1>2, <1>3, <1>4

LEMMA AcceptedAreOptions == Accepted \subseteq Options /\ Options \subseteq Flags
BY DEF Accepted, Options, Flags

LEMMA SkipWordStep == ASSUME LineIInv, SkipWord  PROVE LineIInv'
<1>1. /\ pc = "options" /\ HasNext /\ Arg \notin Flags /\ next' = next + 1
      /\ UNCHANGED <<argv, pc, help, version, name, rc, opts, rpm, said, effect, status, asked>>
  BY DEF SkipWord, routed, results
<1>2. /\ TypeOK /\ asked \in Seq(Args) /\ argv = Line /\ name \in Names /\ rpm = None
      /\ Line \in Seq(Args) /\ Len(Line) <= Len(asked)
      /\ Taken(next) /\ Understood(next)
      /\ next \in 1 .. Len(Line) /\ Line[next] \notin Flags
  BY <1>1, ReadingFacts
<1>3. next' \in 1 .. Len(Line) + 1 /\ next' \in 1 .. Len(asked) + 1
  BY <1>1, <1>2
<1>4. Line' = Line
  BY <1>1, SameLine
<1>5. TypeOK'
  BY <1>1, <1>2, <1>3 DEF TypeOK, Given
<1>6. RouteInv'
  BY <1>1 DEF LineIInv, RouteInv, FirstWord
<1>7. \A i \in 1 .. Len(Line) : i < next' /\ IsOption(Line, i) => i < next
  BY <1>1, <1>2 DEF IsOption
<1>8. \A o \in Options : Before(o, next') = Before(o, next)
  BY <1>1, <1>2, <1>7 DEF Before, Positions
<1>9. Taken(next)'
  BY <1>1, <1>2, <1>4, <1>8 DEF Taken, HasLast, Before
<1>10. Understood(next)'
  BY <1>1, <1>2, <1>4, <1>7 DEF Understood, Accepted
<1>11. RunBefore(Line, next') = 0
  BY <1>1, <1>2, RunAfterWord
<1>12. OptionsInv'
  BY <1>1, <1>2, <1>3, <1>4, <1>9, <1>10, <1>11 DEF OptionsInv
<1>13. OutcomeInv'
  BY <1>1, StillReading
<1> QED  BY <1>5, <1>6, <1>12, <1>13 DEF LineIInv

\* The options before a position, after one that stands there took its value.
LEMMA PositionsStep ==
  ASSUME NEW i \in Nat \ {0}, i < Len(Line), Line \in Seq(Args), Line[i] \in Flags,
         RunBefore(Line, i) \in Nat, RunBefore(Line, i) % 2 = 0
  PROVE  /\ IsOption(Line, i) /\ ~IsOption(Line, i + 1)
         /\ RunBefore(Line, i + 2) % 2 = 0
         /\ \A o \in Options : Before(o, i + 2) = Before(o, i) \cup (IF Line[i] = o THEN {i} ELSE {})
<1>1. RunBefore(Line, i + 1) = RunBefore(Line, i) + 1
  BY RunAfterFlag
<1>2. IsOption(Line, i) /\ ~IsOption(Line, i + 1)
  BY <1>1 DEF IsOption
<1>3. RunBefore(Line, i + 2) % 2 = 0
  <2>1. (i + 1) + 1 = i + 2 /\ i + 1 \in Nat \ {0}
    OBVIOUS
  <2>2. CASE Line[i + 1] \in Flags
    <3>1. RunBefore(Line, (i + 1) + 1) = RunBefore(Line, i + 1) + 1
      BY <2>1, <2>2, RunAfterFlag
    <3> QED  BY <1>1, <2>1, <3>1
  <2>3. CASE Line[i + 1] \notin Flags
    <3>1. RunBefore(Line, (i + 1) + 1) = 0
      BY <2>1, <2>3, RunAfterWord
    <3> QED  BY <2>1, <3>1
  <2> QED  BY <2>2, <2>3
<1>4. ASSUME NEW o \in Options
      PROVE  Before(o, i + 2) = Before(o, i) \cup (IF Line[i] = o THEN {i} ELSE {})
  <2>1. \A k \in Nat : k < i + 2 <=> k < i \/ k = i \/ k = i + 1
    OBVIOUS
  <2>2. i \in 1 .. Len(Line) - 1
    OBVIOUS
  <2>3. \A k : k \in Before(o, i + 2) <=> k \in Before(o, i) \/ (k = i /\ Line[i] = o)
    BY <1>2, <2>1, <2>2 DEF Before, Positions
  <2> QED  BY <2>3
<1> QED  BY <1>2, <1>3, <1>4

LEMMA TakeOptionStep == ASSUME LineIInv, TakeOption  PROVE LineIInv'
<1>1. /\ pc = "options" /\ HasNext /\ Arg \in Accepted /\ next < Len(argv)
      /\ opts' = [opts EXCEPT ![Arg] = argv[next + 1]] /\ next' = next + 2
      /\ UNCHANGED <<argv, pc, help, version, name, rc, rpm, said, effect, status, asked>>
  BY DEF TakeOption, routed, results
<1>2. /\ TypeOK /\ asked \in Seq(Args) /\ argv = Line /\ name \in Names /\ rpm = None
      /\ Line \in Seq(Args) /\ Len(Line) <= Len(asked)
      /\ RunBefore(Line, next) \in Nat /\ RunBefore(Line, next) % 2 = 0
      /\ Taken(next) /\ Understood(next)
      /\ next \in 1 .. Len(Line) /\ next < Len(Line) /\ Arg = Line[next]
  BY <1>1, ReadingFacts
<1>3. Line[next] \in Accepted /\ Line[next] \in Options /\ Line[next] \in Flags
  BY <1>1, <1>2, AcceptedAreOptions
<1>4. /\ next' \in 1 .. Len(Line) + 1 /\ next' \in 1 .. Len(asked) + 1
      /\ next \in Nat \ {0} /\ next + 1 \in 1 .. Len(Line)
  BY <1>1, <1>2
<1>5. Line' = Line /\ \A i \in 1 .. Len(Line) : Line[i] \in Given
  BY <1>1, <1>2, SameLine, LineTyped
<1>6. /\ IsOption(Line, next) /\ ~IsOption(Line, next + 1)
      /\ RunBefore(Line, next + 2) % 2 = 0
      /\ \A o \in Options :
           Before(o, next + 2) = Before(o, next) \cup (IF Line[next] = o THEN {next} ELSE {})
  BY <1>2, <1>3, <1>4, PositionsStep
<1>7. /\ opts \in [Options -> Given \cup {None}]
      /\ opts' = [opts EXCEPT ![Line[next]] = Line[next + 1]]
  BY <1>1, <1>2 DEF TypeOK
<1>8. opts' \in [Options -> Given' \cup {None}]
  <2>1. Given' = Given
    BY <1>1 DEF Given
  <2>2. Line[next + 1] \in Given
    BY <1>4, <1>5
  <2> QED  BY <1>7, <2>1, <2>2
<1>9. TypeOK'
  BY <1>1, <1>2, <1>4, <1>8 DEF TypeOK, Given
<1>10. RouteInv'
  BY <1>1 DEF LineIInv, RouteInv, FirstWord
<1>11. Taken(next)'
  <2> SUFFICES ASSUME NEW o \in Options
               PROVE  \/ opts'[o] = None /\ Before(o, next + 2) = {}
                      \/ \E i \in Before(o, next + 2) :
                           opts'[o] = Line[i + 1] /\ \A j \in Before(o, next + 2) : j <= i
    BY <1>1, <1>5 DEF Taken, HasLast, Before
  <2>1. CASE Line[next] = o
    <3>1. opts'[o] = Line[next + 1] /\ next \in Before(o, next + 2)
      BY <1>3, <1>6, <1>7, <2>1
    <3>2. \A j \in Before(o, next + 2) : j <= next
      BY <1>4, <1>6, <2>1 DEF Before, Positions
    <3> QED  BY <3>1, <3>2
  <2>2. CASE Line[next] # o
    <3>1. opts'[o] = opts[o] /\ Before(o, next + 2) = Before(o, next)
      BY <1>6, <1>7, <2>2
    <3> QED  BY <1>2, <3>1 DEF Taken, HasLast
  <2> QED  BY <2>1, <2>2
<1>12. Understood(next)'
  <2>1. \A i \in 1 .. Len(Line) : i < next + 2 => i < next \/ i = next \/ i = next + 1
    BY <1>4
  <2>2. \A i \in 1 .. Len(Line) :
          i < next + 2 /\ IsOption(Line, i) => Line[i] \in Accepted /\ i < Len(Line)
    BY <1>2, <1>3, <1>6, <2>1 DEF Understood
  <2>3. Accepted' = Accepted
    BY <1>1 DEF Accepted
  <2> QED  BY <1>1, <1>5, <2>2, <2>3 DEF Understood
<1>13. OptionsInv'
  BY <1>1, <1>2, <1>4, <1>5, <1>6, <1>11, <1>12 DEF OptionsInv
<1>14. OutcomeInv'
  BY <1>1, StillReading
<1> QED  BY <1>9, <1>10, <1>13, <1>14 DEF LineIInv

LEMMA ReadingStopsStep == ASSUME LineIInv, ReadingStops  PROVE LineIInv'
<1>1. /\ pc = "options" /\ rc' \in {"end", "noarg", "badopt"} /\ (rc' = "end" => ~HasNext)
      /\ pc' \in {"package", "decide"} /\ (name = "apply" => pc' = "package")
      /\ UNCHANGED <<argv, next, help, version, name, opts, rpm, said, effect, status, asked>>
  BY DEF ReadingStops, routed, results
<1>2. /\ TypeOK /\ argv = Line /\ name \in Names /\ rpm = None /\ Line \in Seq(Args)
      /\ next \in 1 .. Len(Line) + 1 /\ Taken(next) /\ Understood(next)
  BY <1>1, ReadingFacts
<1>3. rc' = "end" => next = Len(Line) + 1
  BY <1>1, <1>2 DEF HasNext
<1>4. Line' = Line
  BY <1>1, SameLine
<1>5. TypeOK'
  BY <1>1, <1>2 DEF TypeOK, Given
<1>6. RouteInv'
  BY <1>1 DEF LineIInv, RouteInv, FirstWord
<1>7. OptionsInv'
  <2>1. Taken(next)' /\ Understood(next)'
    BY <1>1, <1>2, <1>4 DEF Taken, HasLast, Before, Understood, Accepted
  <2>2. rc' = "end" => Taken(Len(Line) + 1)' /\ Understood(Len(Line) + 1)'
    BY <1>1, <1>3, <1>4, <2>1
  <2> QED  BY <1>1, <1>2, <1>4, <2>2 DEF OptionsInv
<1>8. OutcomeInv'
  BY <1>1, StillReading
<1> QED  BY <1>5, <1>6, <1>7, <1>8 DEF LineIInv

LEMMA OpenPackageStep == ASSUME LineIInv, OpenPackage  PROVE LineIInv'
<1>1. /\ pc = "package" /\ pc' = "decide"
      /\ opts["-p"] # None => opts["-p"] \in DOMAIN PackageName
      /\ rpm' = IF opts["-p"] = None THEN None ELSE PackageName[opts["-p"]]
      /\ UNCHANGED <<argv, next, help, version, name, rc, opts, said, effect, status, asked>>
  BY DEF OpenPackage, routed, results
<1>2. TypeOK /\ name \in Names /\ argv = Line
  BY <1>1 DEF LineIInv, OptionsInv
<1>3. Line' = Line
  BY <1>1, SameLine
<1>4. /\ rpm' \in {None} \cup {PackageName[w] : w \in DOMAIN PackageName}
      /\ opts["-p"] # None => rpm' \in {PackageName[w] : w \in DOMAIN PackageName}
  BY <1>1
<1>5. TypeOK'
  BY <1>1, <1>2, <1>4 DEF TypeOK, Given
<1>6. RouteInv'
  BY <1>1 DEF LineIInv, RouteInv, FirstWord
<1>7. OptionsInv'
  <2>1. rc = "end" => Taken(Len(Line) + 1) /\ Understood(Len(Line) + 1)
    BY <1>1 DEF LineIInv, OptionsInv
  <2>2. rc' = "end" => Taken(Len(Line) + 1)' /\ Understood(Len(Line) + 1)'
    BY <1>1, <1>3, <2>1 DEF Taken, HasLast, Before, Understood, Accepted
  <2> QED  BY <1>1, <1>2, <1>3, <1>4, <2>2 DEF OptionsInv
<1>8. OutcomeInv'
  BY <1>1, StillReading
<1> QED  BY <1>5, <1>6, <1>7, <1>8 DEF LineIInv

LEMMA GivesUpStep ==
  ASSUME LineIInv, NotAPackage \/ ReportBadOption \/ ReportInvalid
  PROVE  LineIInv'
<1>1. said = "nothing" \/ pc = "done"
  BY DEF LineIInv, OutcomeInv
<1>2. /\ pc \in {"package", "decide"} /\ pc' = "done"
      /\ UNCHANGED <<argv, next, help, version, name, rc, opts, rpm, effect, asked>>
      /\ \/ status' = "aborted" /\ said' = said
         \/ status' \in {"success", "failure"} /\ said' = "error"
  BY DEF NotAPackage, ReportBadOption, ReportInvalid, Say, routed
<1>3. argv' \in Seq(Args)
  BY <1>2 DEF LineIInv, TypeOK
<1> QED  BY <1>1, <1>2, <1>3, SaidStep

\* What put, def, get and apply begin, from options that were all read.
LEMMA WorkOfWrite ==
  ASSUME TypeOK, name \in {"put", "def"}, Valid
  PROVE  /\ Work.op = name /\ Work # Nothing
         /\ Work.ns = opts["-n"] /\ Work.key = opts["-k"] /\ Work.val = opts["-v"]
         /\ {Work.ns, Work.key, Work.val} \subseteq Given
<1>1. name # "get" /\ name # "apply"
  OBVIOUS
<1>2. Work = [op |-> name, ns |-> opts["-n"], key |-> opts["-k"], val |-> opts["-v"]]
  BY <1>1 DEF Work, WriteWork
<1>3. opts["-n"] # None /\ opts["-k"] # None /\ opts["-v"] # None
  BY <1>1 DEF Valid, ValidWrite, IsGiven
<1>4. {opts["-n"], opts["-k"], opts["-v"]} \subseteq Given
  BY <1>3 DEF TypeOK, Options
<1>5. Nothing.op = "nothing"
  BY DEF Nothing
<1> HIDE DEF Nothing
<1>6. Work.op = name /\ Work.ns = opts["-n"] /\ Work.key = opts["-k"] /\ Work.val = opts["-v"]
  BY <1>2
<1> QED  BY <1>4, <1>5, <1>6

LEMMA WorkOfGet ==
  ASSUME TypeOK, name = "get", Valid
  PROVE  /\ Work # Nothing
         /\ \/ Work = [op |-> "spaces"]
            \/ Work.op = "list" /\ Work.ns \in Given
            \/ Work.op = "read" /\ {Work.ns, Work.key} \subseteq Given
<1>1. opts["-k"] # None => opts["-n"] # None
  BY DEF Valid, ValidGet, IsGiven
<1>2. \A o \in {"-n", "-k"} : opts[o] # None => opts[o] \in Given
  BY DEF TypeOK, Options
<1>3. Work = GetWork
  BY DEF Work
<1>4. CASE opts["-k"] # None
  BY <1>1, <1>2, <1>3, <1>4 DEF GetWork, IsGiven, Nothing
<1>5. CASE opts["-k"] = None /\ opts["-n"] # None
  BY <1>2, <1>3, <1>5 DEF GetWork, IsGiven, Nothing
<1>6. CASE opts["-k"] = None /\ opts["-n"] = None
  <2>1. Work = [op |-> "spaces"]
    BY <1>3, <1>6 DEF GetWork, IsGiven
  <2>2. Work.op = "spaces" /\ Nothing.op = "nothing"
    BY <2>1 DEF Nothing
  <2> QED  BY <2>1, <2>2
<1> QED  BY <1>4, <1>5, <1>6

LEMMA WorkOfApply ==
  ASSUME TypeOK, name = "apply", Valid,
         opts["-p"] # None => rpm \in {PackageName[w] : w \in DOMAIN PackageName}
  PROVE  \/ Work = Nothing /\ opts["-n"] # None /\ opts["-p"] # None
         \/ /\ Work.op = "apply" /\ Work # Nothing
            /\ Work.file = opts["-f"] /\ Work.file \in Given
            /\ Work.ns \in Given \cup {PackageName[w] : w \in DOMAIN PackageName}
            /\ opts["-n"] \in {None, Work.ns}
<1>1. opts["-f"] # None /\ (opts["-n"] # None \/ opts["-p"] # None)
  BY DEF Valid, ValidApply, IsGiven
<1>2. \A o \in {"-n", "-f"} : opts[o] # None => opts[o] \in Given
  BY DEF TypeOK, Options
<1>3. Work = ApplyWork
  BY DEF Work
<1>4. CASE opts["-n"] # None /\ opts["-p"] # None
  BY <1>3, <1>4 DEF ApplyWork, IsGiven
<1>5. CASE opts["-n"] # None /\ opts["-p"] = None
  <2>1. Work = [op |-> "apply", file |-> opts["-f"], ns |-> opts["-n"]]
    BY <1>3, <1>5 DEF ApplyWork, ApplyTo, IsGiven
  <2> QED  BY <1>1, <1>2, <1>5, <2>1 DEF Nothing
<1>6. CASE opts["-n"] = None /\ opts["-p"] # None
  <2>1. Work = [op |-> "apply", file |-> opts["-f"], ns |-> rpm]
    BY <1>3, <1>6 DEF ApplyWork, ApplyTo, IsGiven
  <2> QED  BY <1>1, <1>2, <1>6, <2>1 DEF Nothing
<1> QED  BY <1>1, <1>4, <1>5, <1>6

LEMMA PerformStep == ASSUME LineIInv, Perform  PROVE LineIInv'
<1>1. /\ pc = "decide" /\ pc' = "done" /\ rc = "end" /\ Valid /\ effect' = Work
      /\ status' \in {"success", "aborted"}
      /\ UNCHANGED <<argv, next, help, version, name, rc, opts, rpm, said, asked>>
  BY DEF Perform, routed
<1>2. /\ TypeOK /\ asked \in Seq(Args) /\ name \in Names
      /\ Taken(Len(Line) + 1) /\ Understood(Len(Line) + 1) /\ FirstWord
      /\ name = "apply" /\ opts["-p"] # None => rpm \in {PackageName[w] : w \in DOMAIN PackageName}
  <2>1. name \in Names => name # None
    BY CommandLineAssumption DEF Args
  <2> QED  BY <1>1, <2>1 DEF LineIInv, TypeOK, RouteInv, OptionsInv
<1>3. GlobalsStandAlone => \A o \in Options : opts[o] = ValueOf(asked, o)
  BY <1>2, ValuesRead, ValuesAgree DEF GlobalsStandAlone, Alone, Line
<1>4. GlobalsStandAlone =>
        \A i \in 1 .. Len(asked) : IsOption(asked, i) => asked[i] \in Accepted /\ i < Len(asked)
  <2>1. \A i \in 1 .. Len(Line) : IsOption(Line, i) => Line[i] \in Accepted /\ i < Len(Line)
    BY <1>2, LineTyped DEF Understood
  <2> QED  BY <1>2, <2>1, UnderstoodAgree DEF GlobalsStandAlone, Alone, Line
<1>5. \E i \in Front(asked) : asked[i] = name /\ \A j \in 1 .. i - 1 : asked[j] \in Globals
  <2>1. PICK p \in 1 .. Len(asked) :
          asked[p] = name /\ name \in Words /\ \A j \in 1 .. p - 1 : asked[j] \in Globals
    BY <1>2 DEF FirstWord
  <2>2. name \notin Flags /\ Globals \cap Flags = {}
    BY <2>1, CommandLineAssumption DEF Globals, Flags, Options
  <2>3. \A j \in 1 .. p : j \in 1 .. p - 1 \/ j = p
    OBVIOUS
  <2>4. p \in Front(asked)
    BY <2>1, <2>2, <2>3 DEF Front
  <2> QED  BY <2>1, <2>4
<1>6. RouteInv' /\ OptionsInv'
  BY <1>1, <1>2 DEF RouteInv, OptionsInv, FirstWord
<1>7. /\ asked' = asked /\ Accepted' = Accepted /\ GlobalsStandAlone' = GlobalsStandAlone
      /\ said' = "nothing"
  BY <1>1 DEF Accepted, GlobalsStandAlone, LineIInv, OutcomeInv
<1>8. {"-n", "-k", "-v", "-p", "-f"} \subseteq Options
  BY DEF Options
<1>9. CASE name = "get"
  <2>1. /\ effect' # Nothing
        /\ \/ effect' = [op |-> "spaces"]
           \/ effect'.op = "list" /\ effect'.ns \in Given
           \/ effect'.op = "read" /\ {effect'.ns, effect'.key} \subseteq Given
    BY <1>1, <1>2, <1>9, WorkOfGet
  <2>2. TypeOK'
    BY <1>1, <1>2, <2>1 DEF TypeOK, Given
  <2>3. OutcomeInv'
    BY <1>1, <1>7, <2>1 DEF OutcomeInv, DoesWhatWasAsked, StatusTellsEffect
  <2> QED  BY <1>6, <2>2, <2>3 DEF LineIInv
<1>10. CASE name \in {"put", "def"}
  <2>1. /\ effect'.op = name /\ effect' # Nothing
        /\ effect'.ns = opts["-n"] /\ effect'.key = opts["-k"] /\ effect'.val = opts["-v"]
        /\ {effect'.ns, effect'.key, effect'.val} \subseteq Given
    BY <1>1, <1>2, <1>10, WorkOfWrite
  <2>2. TypeOK'
    BY <1>1, <1>2, <1>10, <2>1 DEF TypeOK, Given
  <2>3. DoesWhatWasAsked'
    BY <1>3, <1>4, <1>5, <1>7, <1>8, <1>10, <2>1 DEF DoesWhatWasAsked
  <2>4. OutcomeInv'
    BY <1>1, <1>7, <2>1, <2>3 DEF OutcomeInv, StatusTellsEffect
  <2> QED  BY <1>6, <2>2, <2>4 DEF LineIInv
<1>11. CASE name = "apply"
  <2>1. \/ effect' = Nothing /\ opts["-n"] # None /\ opts["-p"] # None
        \/ /\ effect'.op = "apply" /\ effect' # Nothing
           /\ effect'.file = opts["-f"] /\ effect'.file \in Given
           /\ effect'.ns \in Given \cup {PackageName[w] : w \in DOMAIN PackageName}
           /\ opts["-n"] \in {None, effect'.ns}
    BY <1>1, <1>2, <1>11, WorkOfApply
  <2>2. CASE effect' = Nothing /\ opts["-n"] # None /\ opts["-p"] # None
    <3>1. TypeOK'
      BY <1>1, <1>2, <2>2 DEF TypeOK, Given
    <3>2. StatusTellsEffect'
      BY <1>1, <1>3, <1>7, <1>8, <1>11, <2>2 DEF StatusTellsEffect
    <3>3. OutcomeInv'
      BY <1>1, <2>2, <3>2 DEF OutcomeInv, DoesWhatWasAsked, Nothing
    <3> QED  BY <1>6, <3>1, <3>3 DEF LineIInv
  <2>3. CASE effect'.op = "apply" /\ effect' # Nothing
    <3>1. /\ effect'.file = opts["-f"] /\ effect'.file \in Given
          /\ effect'.ns \in Given \cup {PackageName[w] : w \in DOMAIN PackageName}
          /\ opts["-n"] \in {None, effect'.ns}
      BY <2>1, <2>3
    <3>2. TypeOK'
      BY <1>1, <1>2, <2>3, <3>1 DEF TypeOK, Given
    <3>3. DoesWhatWasAsked'
      BY <1>3, <1>4, <1>5, <1>7, <1>8, <1>11, <2>3, <3>1 DEF DoesWhatWasAsked
    <3>4. OutcomeInv'
      BY <1>1, <1>7, <2>3, <3>3 DEF OutcomeInv, StatusTellsEffect
    <3> QED  BY <1>6, <3>2, <3>4 DEF LineIInv
  <2> QED  BY <2>1, <2>2, <2>3
<1> QED  BY <1>2, <1>9, <1>10, <1>11 DEF Names

LEMMA LineStutters == ASSUME LineIInv, UNCHANGED vars  PROVE LineIInv'
<1>1. /\ UNCHANGED <<argv, next, pc, help, version, name, rc, opts, rpm, asked>>
      /\ UNCHANGED <<said, effect, status>>
  BY DEF vars
<1>2. TypeOK' /\ RouteInv'
  BY <1>1 DEF LineIInv, TypeOK, Given, RouteInv, FirstWord
<1>3. OptionsInv'
  BY <1>1 DEF LineIInv, OptionsInv, Taken, HasLast, Before, Understood, Accepted, Line
<1>4. OutcomeInv'
  BY <1>1 DEF LineIInv, OutcomeInv, DoesWhatWasAsked, StatusTellsEffect, GlobalsStandAlone, Accepted
<1> QED  BY <1>2, <1>3, <1>4 DEF LineIInv

LEMMA NextLineIInv == LineIInv /\ [Next]_vars => LineIInv'
<1> SUFFICES ASSUME LineIInv, [Next]_vars  PROVE LineIInv'
  OBVIOUS
<1>1. CASE RouteGlobal \/ RouteWord \/ RouteStops          BY <1>1, RouteStep
<1>2. CASE PrintVersion \/ NoSuchCommand \/ CommandHelp    BY <1>2, DispatchStep
<1>3. CASE Exec                                            BY <1>3, ExecStep
<1>4. CASE SkipWord                                        BY <1>4, SkipWordStep
<1>5. CASE TakeOption                                      BY <1>5, TakeOptionStep
<1>6. CASE ReadingStops                                    BY <1>6, ReadingStopsStep
<1>7. CASE OpenPackage                                     BY <1>7, OpenPackageStep
<1>8. CASE NotAPackage \/ ReportBadOption \/ ReportInvalid BY <1>8, GivesUpStep
<1>9. CASE Perform                                         BY <1>9, PerformStep
<1>10. CASE UNCHANGED vars                                 BY <1>10, LineStutters
<1> QED
  BY <1>1, <1>2, <1>3, <1>4, <1>5, <1>6, <1>7, <1>8, <1>9, <1>10 DEF Next, Exited

LEMMA LineInvariance == Spec => []LineIInv
BY InitLineIInv, NextLineIInv, PTL DEF Spec

(***************************************************************************)
(* route and exec keep their variables' types, and a command begins only   *)
(* what arguments of its line name.                                        *)
(***************************************************************************)
THEOREM CommandLineTypeCorrect == Spec => []TypeOK
<1>1. LineIInv => TypeOK
  BY DEF LineIInv
<1> QED  BY <1>1, LineInvariance, PTL

(***************************************************************************)
(* What is put, defined or applied is what the command line says as it was *)
(* typed, for command lines of any length and however options, values and  *)
(* words are mixed in them: taking --help and --version out of it          *)
(* (__without_globals) changes nothing unless one of them is an option's   *)
(* argument.                                                               *)
(***************************************************************************)
THEOREM BegunAsAsked == Spec => []DoesWhatWasAsked
<1>1. LineIInv => DoesWhatWasAsked
  BY DEF LineIInv, OutcomeInv
<1> QED  BY <1>1, LineInvariance, PTL

(***************************************************************************)
(* A failure status means that an error was said, and with an error        *)
(* nothing was begun; a success without a word or a deed is an apply with  *)
(* both -n and -p.                                                         *)
(***************************************************************************)
THEOREM StatusIsRight == Spec => []StatusTellsEffect
<1>1. LineIInv => StatusTellsEffect
  BY DEF LineIInv, OutcomeInv
<1> QED  BY <1>1, LineInvariance, PTL
=============================================================================

------------------------- MODULE ScopedFiles_proofs -------------------------
(***************************************************************************)
(* Proofs about ScopedFiles, for any number of objects, streams and names. *)
(***************************************************************************)
EXTENDS ScopedFiles, TLAPS

\* The three invariants need one another.
IInv == TypeOK /\ StreamsHeld /\ NamesOwned

(***************************************************************************)
(* scoped_fh::open closes one stream and opens another: with a type and    *)
(* one holder for each stream before, so it is behind.                     *)
(***************************************************************************)
LEMMA OpenStreamHolds ==
  ASSUME TypeOK, StreamsHeld,
         NEW o \in Objects, NEW s \in Streams \cup {NULL}, OpenStream(o, s)
  PROVE  /\ fh' \in [Objects -> Streams \cup {NULL}]
         /\ opened' \subseteq Streams
         /\ opened' = {fh'[q] : q \in Objects} \ {NULL}
         /\ \A q, r \in Objects : fh'[q] = fh'[r] /\ fh'[q] # NULL => q = r
         /\ \A q \in Objects \ {o} : fh'[q] = fh[q]
         /\ fh'[o] = s
<1>1. /\ fh' = [fh EXCEPT ![o] = s]
      /\ opened' = (opened \ {fh[o]}) \cup ({s} \ {NULL})
      /\ s = NULL \/ s \notin opened \ {fh[o]}
  BY DEF OpenStream
<1>2. fh \in [Objects -> Streams \cup {NULL}] /\ opened \subseteq Streams
  BY DEF TypeOK
<1>3. /\ fh'[o] = s
      /\ \A q \in Objects \ {o} : fh'[q] = fh[q]
      /\ fh' \in [Objects -> Streams \cup {NULL}]
  BY <1>1, <1>2
<1>4. opened' \subseteq Streams
  BY <1>1, <1>2
<1>5. opened' = {fh'[q] : q \in Objects} \ {NULL}
  BY <1>1, <1>2, <1>3 DEF StreamsHeld
<1>6. \A q, r \in Objects : fh'[q] = fh'[r] /\ fh'[q] # NULL => q = r
  BY <1>1, <1>2, <1>3 DEF StreamsHeld
<1>7. QED
  BY <1>3, <1>4, <1>5, <1>6

LEMMA InitIInv == Init => IInv
  BY DEF Init, IInv, TypeOK, StreamsHeld, NamesOwned

LEMMA StepIInv == IInv /\ [Next]_vars => IInv'
<1> SUFFICES ASSUME IInv, [Next]_vars PROVE IInv'
  OBVIOUS
<1> USE ScopedAssumption
<1>0. TypeOK /\ StreamsHeld /\ NamesOwned
  BY DEF IInv
<1>1. CASE UNCHANGED vars
  BY <1>0, <1>1 DEF IInv, TypeOK, StreamsHeld, NamesOwned, vars
<1>2. ASSUME NEW o \in Objects, ConstructFh(o) PROVE IInv'
  BY <1>0, <1>2 DEF ConstructFh, IInv, TypeOK, StreamsHeld, NamesOwned
<1>3. ASSUME NEW o \in Objects, MoveAway(o) PROVE IInv'
  <2>1. orphans \subseteq dir'
    BY <1>0, <1>3 DEF MoveAway, TypeOK, NamesOwned
  <2>2. QED
    BY <1>0, <1>3, <2>1 DEF MoveAway, IInv, TypeOK, StreamsHeld, NamesOwned
<1>4. ASSUME NEW o \in Objects, Destroy(o) PROVE IInv'
  <2>1. OpenStream(o, NULL)
    BY <1>4 DEF Destroy
  <2>2. TypeOK'
    BY <1>0, <1>4, <2>1, OpenStreamHolds DEF Destroy, TypeOK, NamesOwned
  <2>3. StreamsHeld'
    BY <1>0, <1>4, <2>1, OpenStreamHolds DEF Destroy, TypeOK, StreamsHeld
  <2>4. NamesOwned'
    BY <1>0, <1>4 DEF Destroy, TypeOK, NamesOwned
  <2>5. QED
    BY <2>2, <2>3, <2>4 DEF IInv
<1>5. ASSUME NEW o \in Objects, NEW s \in Streams \cup {NULL}, ConstructOpened(o, s) PROVE IInv'
  <2>1. OpenStream(o, s)
    BY <1>5 DEF ConstructOpened
  <2>2. TypeOK'
    BY <1>0, <1>5, <2>1, OpenStreamHolds DEF ConstructOpened, TypeOK
  <2>3. StreamsHeld'
    BY <1>0, <1>5, <2>1, OpenStreamHolds DEF ConstructOpened, TypeOK, StreamsHeld
  <2>4. NamesOwned'
    BY <1>0, <1>5 DEF ConstructOpened, TypeOK, NamesOwned
  <2>5. QED
    BY <2>2, <2>3, <2>4 DEF IInv
<1>6. ASSUME NEW o \in Objects, NEW s \in Streams \cup {NULL}, Open(o, s) PROVE IInv'
  <2>1. OpenStream(o, s)
    BY <1>6 DEF Open
  <2>2. TypeOK'
    BY <1>0, <1>6, <2>1, OpenStreamHolds DEF Open, TypeOK
  <2>3. StreamsHeld'
    BY <1>0, <1>6, <2>1, OpenStreamHolds DEF Open, TypeOK, StreamsHeld
  <2>4. NamesOwned'
    BY <1>0, <1>6 DEF Open, TypeOK, NamesOwned
  <2>5. QED
    BY <2>2, <2>3, <2>4 DEF IInv
<1>7. ASSUME NEW o \in Objects, NEW s \in Streams \cup {NULL}, NEW p \in Paths,
             ConstructTmpfh(o, p, s)
      PROVE  IInv'
  <2>1. OpenStream(o, s)
    BY <1>7 DEF ConstructTmpfh
  <2>2. TypeOK'
    BY <1>0, <1>7, <2>1, OpenStreamHolds DEF ConstructTmpfh, TypeOK
  <2>3. StreamsHeld'
    BY <1>0, <1>7, <2>1, OpenStreamHolds DEF ConstructTmpfh, TypeOK, StreamsHeld
  <2>4. NamesOwned'
    <3>1. CASE s = NULL
      BY <1>0, <1>7, <3>1 DEF ConstructTmpfh, TypeOK, NamesOwned
    <3>2. CASE s # NULL
      BY <1>0, <1>7, <3>2 DEF ConstructTmpfh, TypeOK, NamesOwned
    <3>3. QED
      BY <3>1, <3>2
  <2>5. QED
    BY <2>2, <2>3, <2>4 DEF IInv
<1>8. QED
  BY <1>1, <1>2, <1>3, <1>4, <1>5, <1>6, <1>7 DEF Next

LEMMA AlwaysIInv == Spec => []IInv
  BY InitIInv, StepIInv, PTL DEF Spec

(***************************************************************************)
(* The open streams are always those that objects hold, each held once.    *)
(***************************************************************************)
THEOREM EveryStreamHeld == Spec => []StreamsHeld
<1>1. IInv => StreamsHeld
  BY DEF IInv
<1>2. QED
  BY <1>1, AlwaysIInv, PTL

(***************************************************************************)
(* Every temporary name has one owner, or is that of a constructor that    *)
(* threw.                                                                  *)
(***************************************************************************)
THEOREM EveryNameOwned == Spec => []NamesOwned
<1>1. IInv => NamesOwned
  BY DEF IInv
<1>2. QED
  BY <1>1, AlwaysIInv, PTL

(***************************************************************************)
(* Types: what an object has is a stream or a name that was made for it.   *)
(***************************************************************************)
THEOREM ScopedTypeCorrect == Spec => []TypeOK
<1>1. IInv => TypeOK
  BY DEF IInv
<1>2. QED
  BY <1>1, AlwaysIInv, PTL
=============================================================================

-------------------------- MODULE RpmPackage_proofs --------------------------
(***************************************************************************)
(* Proofs about RpmPackage, for any packages, files and descriptors.       *)
(***************************************************************************)
EXTENDS RpmPackage, TLAPS

\* A call that is about a file has its name and an object.
CallHasFile ==
  /\ pc \in {"none", "header"} => hdr = NULL
  /\ pc \notin {"none", "header"} => hdr \in Packages
  /\ pc \in {"payload", "entries", "data", "chown", "chmod"} => arg \in Files

\* Behind chown the owner is the declared one, and no set-ID bit is left, unless another
\* process came between.
OwnerFirst ==
  pc = "chmod" /\ arg \notin overtaken =>
                  /\ owner[arg] = Owner[hdr][arg]
                  /\ ~(mode[arg] \in Packages /\ arg \in Special[mode[arg]])

\* No entry the reader has passed has the name it looks for.
NoneBefore ==
  pc \in {"entries", "data"} =>
    /\ entry <= Len(Archive) + 1
    /\ \A i \in 1 .. entry - 1 : Archive[i].name # arg

\* What the sink has is what it was given, the beginning of the entry.
Held == file \o buffered

Prefix ==
  pc = "data" => /\ entry <= Len(Archive)
                 /\ Archive[entry].name = arg
                 /\ given <= Len(Data)
                 /\ ~bad => Held = SubSeq(Data, 1, given)

Nothing == pc \in {"payload", "entries"} => given = 0 /\ file = <<>> /\ buffered = <<>>

PermInv == SpecialOnlyForOwner /\ OwnerFirst
ReadInv == WholeFile /\ NoneBefore /\ Prefix /\ Nothing
IInv == TypeOK /\ DescriptorsHeld /\ CallHasFile /\ PermInv /\ ReadInv

(***************************************************************************)
(* What concatenation and SubSeq do.                                       *)
(***************************************************************************)
LEMMA AppendBehind ==
  ASSUME NEW S, NEW s \in Seq(S), NEW t \in Seq(S), NEW e \in S
  PROVE  /\ s \o t \in Seq(S)
         /\ s \o Append(t, e) = Append(s \o t, e)
         /\ s \o <<>> = s
OBVIOUS

LEMMA BeginningTyped ==
  ASSUME NEW S, NEW s \in Seq(S), NEW n \in 0 .. Len(s)
  PROVE  SubSeq(s, 1, n) \in Seq(S)
OBVIOUS

LEMMA BeginningGrows ==
  ASSUME NEW S, NEW s \in Seq(S), NEW n \in Nat, n < Len(s)
  PROVE  /\ s[n + 1] \in S
         /\ SubSeq(s, 1, n + 1) = Append(SubSeq(s, 1, n), s[n + 1])
         /\ SubSeq(s, 1, 0) = <<>>
OBVIOUS

\* (A constant-level fact, so that the record's fields are looked at only here.)
LEMMA PayloadTyped ==
  ASSUME NEW pkg \in Packages, NEW e \in 1 .. Len(Payload[pkg])
  PROVE  Payload[pkg][e].name \in Files /\ Payload[pkg][e].data \in Seq(Blocks)
<1> DEFINE R == [name : Files, data : Seq(Blocks)]
<1>1. Payload \in [Packages -> Seq(R)]
  BY PackageAssumption
<1>2. \A r \in R : r.name \in Files /\ r.data \in Seq(Blocks)
  OBVIOUS
<1> HIDE DEF R
<1>3. Payload[pkg] \in Seq(R)
  BY <1>1
<1>4. Payload[pkg][e] \in R
  BY <1>3
<1> QED  BY <1>2, <1>4

LEMMA EmptyTyped == <<>> \in Seq(Blocks)
OBVIOUS

LEMMA ArchiveLength == ASSUME NEW pkg \in Packages PROVE Len(Payload[pkg]) \in Nat
<1> DEFINE R == [name : Files, data : Seq(Blocks)]
<1>1. Payload \in [Packages -> Seq(R)]
  BY PackageAssumption
<1> HIDE DEF R
<1> QED  BY <1>1

(***************************************************************************)
(* A block goes to the end of what the sink was given, whether the stream  *)
(* holds it back or writes what it has.                                    *)
(***************************************************************************)
LEMMA BlockWritten ==
  ASSUME TypeOK, NEW block \in Blocks, Write(block)
  PROVE  /\ file' \in Seq(Blocks) /\ buffered' \in Seq(Blocks) /\ bad' \in BOOLEAN
         /\ ~bad' => ~bad /\ Held' = Append(Held, block)
<1> DEFINE pending == Append(buffered, block)
<1>1. file \in Seq(Blocks) /\ buffered \in Seq(Blocks) /\ bad \in BOOLEAN /\ pending \in Seq(Blocks)
  BY DEF TypeOK
<1>2. file \o pending = Append(Held, block)
  BY <1>1, AppendBehind DEF Held
<1>3. \/ ~bad /\ file' = file \o pending /\ buffered' = <<>> /\ bad' = bad
      \/ ~bad /\ buffered' = pending /\ file' = file /\ bad' = bad
      \/ bad' = TRUE /\ buffered' = buffered /\ \E n \in 0 .. Len(pending) : file' = file \o SubSeq(pending, 1, n)
      \/ bad /\ file' = file /\ buffered' = buffered /\ bad' = bad
  BY DEF Write
<1> HIDE DEF pending
<1>4. file \o pending \in Seq(Blocks) /\ (file \o pending) \o <<>> = file \o pending
  <2>1. file \o pending \in Seq(Blocks)
    BY <1>1
  <2> QED  BY <2>1
<1>5. ASSUME NEW n \in 0 .. Len(pending) PROVE file \o SubSeq(pending, 1, n) \in Seq(Blocks)
  <2>1. SubSeq(pending, 1, n) \in Seq(Blocks)
    BY <1>1, BeginningTyped
  <2> QED  BY <1>1, <2>1
<1> QED  BY <1>1, <1>2, <1>3, <1>4, <1>5, EmptyTyped DEF Held

LEMMA SinkFlushed ==
  ASSUME TypeOK, Flush
  PROVE  /\ file' \in Seq(Blocks) /\ buffered' \in Seq(Blocks) /\ bad' \in BOOLEAN
         /\ ~bad' => ~bad /\ file' = Held
<1>1. file \in Seq(Blocks) /\ buffered \in Seq(Blocks) /\ bad \in BOOLEAN
  BY DEF TypeOK
<1>2. file \o buffered \in Seq(Blocks)
  BY <1>1
<1>3. ASSUME NEW n \in 0 .. Len(buffered) PROVE file \o SubSeq(buffered, 1, n) \in Seq(Blocks)
  <2>1. SubSeq(buffered, 1, n) \in Seq(Blocks)
    BY <1>1, BeginningTyped
  <2> QED  BY <1>1, <2>1
<1> QED  BY <1>1, <1>2, <1>3, EmptyTyped DEF Flush, Held

LEMMA BlockGiven ==
  ASSUME TypeOK, Prefix, GiveBlock
  PROVE  /\ file' \in Seq(Blocks) /\ buffered' \in Seq(Blocks) /\ bad' \in BOOLEAN
         /\ given' \in Nat /\ given' <= Len(Data)
         /\ ~bad' => Held' = SubSeq(Data, 1, given')
<1>1. pc = "data" /\ given \in Nat /\ given < Len(Data) /\ given' = given + 1 /\ Write(Data[given + 1])
  BY DEF GiveBlock, TypeOK
<1>2. Data \in Seq(Blocks)
  BY PayloadTyped DEF TypeOK, Prefix, GiveBlock, Data, Archive
<1>3. /\ Data[given + 1] \in Blocks
      /\ SubSeq(Data, 1, given + 1) = Append(SubSeq(Data, 1, given), Data[given + 1])
  BY <1>1, <1>2, BeginningGrows
<1>4. given' <= Len(Data)
  <2>1. Len(Data) \in Nat
    BY <1>2
  <2> QED  BY <1>1, <2>1
<1>5. ~bad => Held = SubSeq(Data, 1, given)
  BY <1>1 DEF Prefix
<1>6. /\ file' \in Seq(Blocks) /\ buffered' \in Seq(Blocks) /\ bad' \in BOOLEAN
      /\ ~bad' => ~bad /\ Held' = Append(Held, Data[given + 1])
  BY <1>1, <1>3, BlockWritten
<1>7. ASSUME ~bad' PROVE Held' = SubSeq(Data, 1, given')
  BY <1>1, <1>3, <1>5, <1>6, <1>7
<1>8. given' \in Nat
  BY <1>1
<1> QED  BY <1>4, <1>6, <1>7, <1>8

LEMMA InitIInv == Init => IInv
<1> SUFFICES ASSUME Init PROVE IInv
  OBVIOUS
<1>1. TypeOK /\ DescriptorsHeld /\ CallHasFile
  <2>1. /\ owner \in [Files -> Owners]
        /\ mode \in [Files -> Packages \cup {"temporary", "cleared"}]
    BY PackageAssumption DEF Init
  <2>2. pc \notin Reading /\ fds = {} /\ lost = {}
    BY DEF Init, Reading
  <2>3. fds = lost \cup ({fd} \ {NULL}) /\ fd \notin lost
    BY DEF Init
  <2>4. pc \in Reading <=> fd \in fds \ lost
    BY <2>2
  <2>5. entry \in Nat \ {0} /\ given \in Nat /\ bad \in BOOLEAN /\ cut \in BOOLEAN /\ fds \subseteq Descriptors
    <3>1. entry = 1 /\ given = 0 /\ fds = {}
      BY DEF Init
    <3>2. cut \in BOOLEAN /\ bad \in BOOLEAN
      BY DEF Init
    <3> QED  BY <3>1, <3>2
  <2>6. TypeOK
    BY EmptyTyped, <2>1, <2>4, <2>5 DEF Init, TypeOK
  <2>7. CallHasFile
    BY DEF Init, CallHasFile
  <2> QED
    BY <2>3, <2>6, <2>7 DEF DescriptorsHeld
<1>2. PermInv
  BY PackageAssumption DEF Init, PermInv, SpecialOnlyForOwner, OwnerFirst
<1>3. ReadInv
  BY DEF Init, ReadInv, WholeFile, NoneBefore, Prefix, Nothing
<1> QED  BY <1>1, <1>2, <1>3 DEF IInv

(***************************************************************************)
(* Types, descriptors and the call's arguments.                            *)
(***************************************************************************)
LEMMA FrameStep ==
  ASSUME IInv, [Next]_vars
  PROVE  TypeOK' /\ DescriptorsHeld' /\ CallHasFile'
<1> USE PackageAssumption
<1> USE DEF Reading, TypeOK, DescriptorsHeld, CallHasFile, objectVars, descriptorVars, sinkVars, permVars, Return
<1>0. TypeOK /\ DescriptorsHeld /\ CallHasFile
  BY DEF IInv
<1>1. CASE UNCHANGED vars
  BY <1>0, <1>1 DEF vars
<1>2. CASE ReadHeader
  BY <1>0, <1>2 DEF ReadHeader, Fclose
<1>3. CASE ReadPayload
  BY <1>0, <1>3 DEF ReadPayload
<1>4. CASE FindEntry
  BY <1>0, <1>4 DEF FindEntry, AtEntry
<1>5. CASE SkipEntry
  BY <1>0, <1>5 DEF SkipEntry, AtEntry
<1>6. CASE NotFound
  BY <1>0, <1>6 DEF NotFound, Fclose
<1>8. CASE EndEntry
  <2>1. file' \in Seq(Blocks) /\ buffered' \in Seq(Blocks) /\ bad' \in BOOLEAN
    BY <1>0, <1>8, SinkFlushed DEF EndEntry
  <2>2. cut' \in BOOLEAN
    <3>1. CASE given < Len(Data)
      BY <1>8, <3>1 DEF EndEntry
    <3>2. CASE ~(given < Len(Data))
      BY <1>8, <3>2 DEF EndEntry
    <3> QED  BY <3>1, <3>2
  <2> QED  BY <1>0, <1>8, <2>1, <2>2 DEF EndEntry, Fclose
<1>9. CASE Chown
  BY <1>0, <1>9 DEF Chown, Cleared
<1>10. CASE Chmod
  BY <1>0, <1>10 DEF Chmod
<1>11. CASE HeaderUnreadable
  BY <1>0, <1>11 DEF HeaderUnreadable
<1>12. CASE PermsRefused
  BY <1>0, <1>12 DEF PermsRefused
<1>13. CASE Construct
  BY <1>0, <1>13 DEF Construct, Fopen
<1>14. CASE Destroy
  BY <1>0, <1>14 DEF Destroy
<1>15. CASE Replace
  BY <1>0, <1>15 DEF Replace
<1>16. ASSUME NEW f \in Files, ReadFile(f) PROVE TypeOK' /\ DescriptorsHeld' /\ CallHasFile'
  BY <1>0, <1>16, EmptyTyped DEF ReadFile, Fopen
<1>17. ASSUME NEW f \in Files, SetPerms(f) PROVE TypeOK' /\ DescriptorsHeld' /\ CallHasFile'
  BY <1>0, <1>17 DEF SetPerms
<1>18. ASSUME NEW f \in Files, NewFile(f) PROVE TypeOK' /\ DescriptorsHeld' /\ CallHasFile'
  BY <1>0, <1>18 DEF NewFile, Overtake
<1>19. ASSUME NEW f \in Files, OtherChown(f) PROVE TypeOK' /\ DescriptorsHeld' /\ CallHasFile'
  BY <1>0, <1>19 DEF OtherChown, Overtake, Cleared
<1>7. CASE GiveBlock
  <2>1. file' \in Seq(Blocks) /\ buffered' \in Seq(Blocks) /\ bad' \in BOOLEAN /\ given' \in Nat
    BY <1>0, <1>7, BlockGiven DEF IInv, ReadInv
  <2> QED  BY <1>0, <1>7, <2>1 DEF GiveBlock
<1> QED
  BY <1>1, <1>2, <1>3, <1>4, <1>5, <1>6, <1>7, <1>8, <1>9, <1>10, <1>11, <1>12, <1>13, <1>14,
     <1>15, <1>16, <1>17, <1>18, <1>19 DEF Next, Progress

(***************************************************************************)
(* Only Chown, Chmod and other processes change owners and modes.          *)
(***************************************************************************)
LEMMA PermStep == ASSUME IInv, [Next]_vars PROVE PermInv'
<1> USE PackageAssumption
<1> USE DEF PermInv, SpecialOnlyForOwner, OwnerFirst, permVars, objectVars
<1>0. TypeOK /\ CallHasFile /\ PermInv
  BY DEF IInv
<1>t. /\ owner \in [Files -> Owners]
      /\ mode \in [Files -> Packages \cup {"temporary", "cleared"}]
  BY <1>0 DEF TypeOK
<1>1. CASE /\ UNCHANGED <<owner, mode, overtaken>>
           /\ pc' # "chmod" \/ UNCHANGED <<pc, arg, hdr>>
  BY <1>0, <1>1
<1>2. CASE Chown
  <2>1. arg \in Files /\ hdr \in Packages
    BY <1>0, <1>2 DEF Chown, CallHasFile
  <2>2. /\ owner' = [owner EXCEPT ![arg] = Owner[hdr][arg]]
        /\ mode' = [mode EXCEPT ![arg] = Cleared(arg)]
        /\ overtaken' = overtaken \ {arg}
        /\ UNCHANGED <<arg, hdr>>
    BY <1>2 DEF Chown
  <2>3. ~(Cleared(arg) \in Packages /\ arg \in Special[Cleared(arg)])
    BY DEF Cleared
  <2> QED  BY <1>0, <1>t, <2>1, <2>2, <2>3
<1>3. CASE Chmod
  <2>1. /\ arg \in Files /\ hdr \in Packages
        /\ arg \notin overtaken => owner[arg] = Owner[hdr][arg]
    BY <1>0, <1>3 DEF Chmod, CallHasFile
  <2>2. mode' = [mode EXCEPT ![arg] = hdr] /\ owner' = owner /\ overtaken' = overtaken /\ hdr' = hdr
    BY <1>3 DEF Chmod
  <2>3. pc' # "chmod"
    BY <1>3 DEF Chmod, Return
  <2> QED  BY <1>0, <1>t, <2>1, <2>2, <2>3
<1>4. ASSUME NEW f \in Files, NewFile(f) PROVE PermInv'
  BY <1>0, <1>4, <1>t DEF NewFile, Overtake
<1>9. ASSUME NEW f \in Files, OtherChown(f) PROVE PermInv'
  <2>1. ~(Cleared(f) \in Packages /\ f \in Special[Cleared(f)])
    BY DEF Cleared
  <2>2. PICK pkg \in Packages : owner' = [owner EXCEPT ![f] = Owner[pkg][f]]
    BY <1>9 DEF OtherChown
  <2>3. mode' = [mode EXCEPT ![f] = Cleared(f)] /\ Overtake(f)
    BY <1>9 DEF OtherChown
  <2> QED  BY <1>0, <1>t, <2>1, <2>2, <2>3 DEF Overtake
<1>5. CASE UNCHANGED vars
  BY <1>1, <1>5 DEF vars
<1>6. CASE ReadHeader \/ ReadPayload \/ FindEntry \/ SkipEntry \/ NotFound \/ GiveBlock \/ EndEntry
  BY <1>1, <1>6 DEF ReadHeader, ReadPayload, FindEntry, SkipEntry, NotFound, GiveBlock, EndEntry, AtEntry, Return
<1>7. CASE HeaderUnreadable \/ PermsRefused \/ Construct \/ Destroy \/ Replace
  BY <1>1, <1>7 DEF HeaderUnreadable, PermsRefused, Construct, Destroy, Replace, Fopen, Return
<1>8. ASSUME NEW f \in Files, ReadFile(f) \/ SetPerms(f) PROVE PermInv'
  BY <1>1, <1>8 DEF ReadFile, SetPerms, Fopen, Return
<1> QED
  BY <1>2, <1>3, <1>4, <1>5, <1>6, <1>7, <1>8, <1>9 DEF Next, Progress

(***************************************************************************)
(* A call of read_file: outside it nothing of what it read changes.        *)
(***************************************************************************)
LEMMA QuietReadStep ==
  ASSUME IInv, UNCHANGED <<entry, sinkVars>>,
         pc' \in {"none", "header"} \/ UNCHANGED reading,
         pc' \notin {"payload", "entries", "data"} \/ UNCHANGED <<pc, arg>>,
         outcome' # "read" \/ pc' # "idle" \/ UNCHANGED <<pc, outcome, arg>>
  PROVE  ReadInv'
BY DEF IInv, ReadInv, WholeFile, NoneBefore, Prefix, Nothing, Archive, Data, Held, sinkVars

LEMMA EmptyHeld == ASSUME file = <<>>, buffered = <<>> PROVE Held = <<>>
BY DEF Held

LEMMA ReadStep == ASSUME IInv, [Next]_vars PROVE ReadInv'
<1> USE PackageAssumption
<1> USE DEF objectVars, sinkVars
<1>0. TypeOK /\ ReadInv
  BY DEF IInv
<1>1. CASE UNCHANGED vars
  BY <1>1, QuietReadStep DEF vars
<1>2. CASE Chown \/ Chmod \/ PermsRefused \/ HeaderUnreadable \/ ReadHeader \/ NotFound \/ Construct
  BY <1>2, QuietReadStep DEF Chown, Chmod, PermsRefused, HeaderUnreadable, ReadHeader, NotFound, Construct, Fopen, Return
<1>3. CASE Destroy \/ Replace
  BY <1>3, QuietReadStep DEF Destroy, Replace, Return
<1>4. ASSUME NEW f \in Files, SetPerms(f) \/ NewFile(f) \/ OtherChown(f) PROVE ReadInv'
  BY <1>4, QuietReadStep DEF SetPerms, NewFile, OtherChown, Overtake, Return
<1>5. ASSUME NEW f \in Files, ReadFile(f) PROVE ReadInv'
  <2>1. given' = 0 /\ file' = <<>> /\ buffered' = <<>>
    BY <1>5 DEF ReadFile
  <2>2. pc' # "entries" /\ pc' # "data" /\ (pc' = "idle" => outcome' # "read")
    BY <1>5 DEF ReadFile, Fopen, Return
  <2> QED  BY <2>1, <2>2 DEF ReadInv, WholeFile, NoneBefore, Prefix, Nothing
<1>6. CASE ReadPayload
  <2>1. /\ pc = "payload" /\ pc' = "entries" /\ entry' = 1
        /\ UNCHANGED <<reading, given, file, buffered>>
    BY <1>6 DEF ReadPayload
  <2>2. Archive' = Archive
    BY <2>1 DEF Archive
  <2>3. Len(Archive) \in Nat
    BY <1>0, ArchiveLength DEF TypeOK, Archive
  <2>4. Nothing' /\ Prefix' /\ WholeFile'
    BY <1>0, <2>1, <2>2 DEF ReadInv, Nothing, Prefix, WholeFile
  <2>5. NoneBefore'
    BY <2>1, <2>2, <2>3 DEF NoneBefore
  <2> QED  BY <2>4, <2>5 DEF ReadInv
<1>7. CASE FindEntry
  <2>1. /\ pc = "entries" /\ pc' = "data" /\ entry <= Len(Archive) /\ Archive[entry].name = arg
        /\ UNCHANGED <<reading, entry, arg, given, file, buffered>>
    BY <1>7 DEF FindEntry, AtEntry
  <2>2. Archive' = Archive /\ Data' = Data /\ Held' = <<>> /\ given' = 0
    BY <1>0, <2>1, EmptyHeld DEF ReadInv, Nothing, Archive, Data, Held
  <2>3. Data \in Seq(Blocks)
    BY <1>0, <2>1, PayloadTyped, ArchiveLength DEF TypeOK, Data, Archive
  <2>4. Nothing' /\ WholeFile' /\ NoneBefore'
    BY <1>0, <2>1, <2>2 DEF ReadInv, Nothing, WholeFile, NoneBefore
  <2>5. Len(Data) \in Nat /\ SubSeq(Data, 1, 0) = <<>>
    BY <2>3
  <2>6. Prefix'
    BY <2>1, <2>2, <2>5 DEF Prefix
  <2> QED  BY <2>4, <2>6 DEF ReadInv
<1>8. CASE SkipEntry
  <2>1. /\ pc = "entries" /\ pc' = "entries" /\ entry <= Len(Archive) /\ Archive[entry].name # arg
        /\ entry' = entry + 1
        /\ UNCHANGED <<reading, arg, given, file, buffered>>
    BY <1>8 DEF SkipEntry, AtEntry
  <2>2. Archive' = Archive
    BY <2>1 DEF Archive
  <2>3. Len(Archive) \in Nat /\ entry \in Nat
    BY <1>0, ArchiveLength DEF TypeOK, Archive
  <2>4. Nothing' /\ WholeFile' /\ Prefix'
    BY <1>0, <2>1, <2>2 DEF ReadInv, Nothing, WholeFile, Prefix
  <2>5. NoneBefore'
    BY <1>0, <2>1, <2>2, <2>3 DEF ReadInv, NoneBefore
  <2> QED  BY <2>4, <2>5 DEF ReadInv
<1>9. CASE GiveBlock
  <2>1. /\ pc = "data" /\ pc' = "data"
        /\ UNCHANGED <<reading, entry, arg>>
    BY <1>9 DEF GiveBlock
  <2>2. Archive' = Archive /\ Data' = Data
    BY <2>1 DEF Archive, Data
  <2>3. given' <= Len(Data) /\ (~bad' => Held' = SubSeq(Data, 1, given'))
    BY <1>0, <1>9, BlockGiven DEF ReadInv
  <2>4. Nothing' /\ WholeFile' /\ NoneBefore'
    BY <1>0, <2>1, <2>2 DEF ReadInv, Nothing, WholeFile, NoneBefore
  <2>5. Prefix'
    BY <1>0, <2>1, <2>2, <2>3 DEF ReadInv, Prefix
  <2> QED  BY <2>4, <2>5 DEF ReadInv
<1>10. CASE EndEntry
  <2>1. /\ pc = "data" /\ pc' \in {"none", "idle"}
        /\ cut' = (given < Len(Data))
        /\ UNCHANGED <<reading, entry, arg>>
    BY <1>10 DEF EndEntry, Return
  <2>2. Archive' = Archive
    BY <2>1 DEF Archive
  <2>3. /\ entry <= Len(Archive) /\ Archive[entry].name = arg /\ given <= Len(Data)
        /\ ~bad => Held = SubSeq(Data, 1, given)
        /\ \A i \in 1 .. entry - 1 : Archive[i].name # arg
    BY <1>0, <2>1 DEF ReadInv, Prefix, NoneBefore
  <2>4. Data \in Seq(Blocks) /\ entry \in 1 .. Len(Archive) /\ given \in Nat
    BY <1>0, <2>1, <2>3, PayloadTyped, ArchiveLength DEF TypeOK, Data, Archive
  <2>5. ~bad' => file' = SubSeq(Data, 1, given)
    BY <1>0, <1>10, <2>3, SinkFlushed DEF EndEntry
  <2>6. given \in 0 .. Len(Data) /\ (given = Len(Data) \/ cut')
    <3>1. Len(Data) \in Nat
      BY <2>4
    <3>2. ~cut' => ~(given < Len(Data))
      BY <2>1
    <3> QED  BY <2>3, <2>4, <3>1, <3>2
  <2>7. WholeFile'
    BY <2>1, <2>2, <2>3, <2>4, <2>5, <2>6 DEF WholeFile, Data
  <2> QED  BY <2>1, <2>7 DEF ReadInv, NoneBefore, Prefix, Nothing
<1> QED
  BY <1>1, <1>2, <1>3, <1>4, <1>5, <1>6, <1>7, <1>8, <1>9, <1>10 DEF Next, Progress

LEMMA AlwaysIInv == Spec => []IInv
<1>1. IInv /\ [Next]_vars => IInv'
  BY FrameStep, PermStep, ReadStep DEF IInv
<1> QED  BY <1>1, InitIInv, PTL DEF Spec

(***************************************************************************)
(* read_file and the constructor close what they open, on every way out    *)
(* but that of an unreadable header.                                       *)
(***************************************************************************)
THEOREM DescriptorsAreHeld == Spec => []DescriptorsHeld
<1>1. IInv => DescriptorsHeld
  BY DEF IInv
<1> QED  BY <1>1, AlwaysIInv, PTL

(***************************************************************************)
(* Types: while a call reads from the package (read_file, the constructor) *)
(* its descriptor is open, and no call touches a closed one.               *)
(***************************************************************************)
THEOREM PackageTypeCorrect == Spec => []TypeOK
<1>1. IInv => TypeOK
  BY DEF IInv
<1> QED  BY <1>1, AlwaysIInv, PTL

(***************************************************************************)
(* Behind read_file the sink's file holds the beginning of one packaged    *)
(* file, and all of it when no archive error cut it, unless the stream     *)
(* failed, which file_sink does not ask.                                   *)
(***************************************************************************)
THEOREM FileIsWhole == Spec => []WholeFile
<1>1. IInv => WholeFile
  BY DEF IInv, ReadInv
<1> QED  BY <1>1, AlwaysIInv, PTL

(***************************************************************************)
(* A set-ID mode only meets the owner it was declared with, unless another *)
(* process came between the chown and the chmod of set_perms.              *)
(***************************************************************************)
THEOREM SetIdNeedsOwner == Spec => []SpecialOnlyForOwner
<1>1. IInv => SpecialOnlyForOwner
  BY DEF IInv, PermInv
<1> QED  BY <1>1, AlwaysIInv, PTL
=============================================================================

----------------------------- MODULE RpmPackage -----------------------------
(***************************************************************************)
(* rpmctl::rpm (rpm.cc) and the file_sink its files are read into, for a   *)
(* caller that makes the calls in any order.  The path of the package may  *)
(* come to name another package between any two steps, and other processes *)
(* reach the files by their names.  One action is one call into librpm,    *)
(* libarchive or the system, and each of them may fail, those whose result *)
(* nobody asks for included.                                               *)
(***************************************************************************)
EXTENDS Integers, Sequences

CONSTANTS Packages,    \* what the path of the package may name
          Files,       \* file names
          Blocks,      \* what archive_read_data returns at a time
          Payload,     \* package -> its archive, a sequence of named files
          Declared,    \* package -> the files its header lists
          Owner,       \* package -> file -> owner and group in the header
          Special,     \* package -> its files with a set-user or set-group-ID mode
          Owners,
          Caller,      \* the owner of a file that was just made
          Descriptors, \* the file descriptors the process may have
          NULL

ASSUME PackageAssumption ==
  /\ NULL \notin Packages \cup Files \cup Descriptors
  /\ Payload \in [Packages -> Seq([name : Files, data : Seq(Blocks)])]
  /\ Declared \in [Packages -> SUBSET Files]
  /\ Special \in [Packages -> SUBSET Files]
  /\ Owner \in [Packages -> [Files -> Owners]]
  /\ Caller \in Owners
  /\ {"temporary", "cleared"} \cap Packages = {}

VARIABLES
  disk,     \* the package the path names
  pc,       \* where the call in progress is
  outcome,  \* how the last call ended
  arg,      \* the file name it was given
  hdr,      \* the package whose header _rpmhdr is, NULL when there is no object
  fd,       \* the descriptor of the call in progress
  fds,      \* the descriptors that are open
  lost,     \* history: those nobody will close
  reading,  \* the package that was opened last
  entry,    \* the archive entry the reader is at
  given,    \* how many blocks of the entry were given to the sink
  buffered, \* what file_sink's ofstream holds back
  file,     \* what is in the sink's file
  bad,      \* the ofstream could not be opened, or a write failed
  cut,      \* history: an archive error ended the last entry
  owner,    \* file name -> owner
  mode,     \* file name -> "temporary", "cleared", or the package whose mode it has
  overtaken \* history: the files another process reached between our chown and chmod

objectVars == <<hdr, arg>>
descriptorVars == <<fd, fds, lost>>
sinkVars == <<given, buffered, file, bad, cut>>
permVars == <<owner, mode, overtaken>>
vars == <<disk, pc, outcome, objectVars, descriptorVars, reading, entry, sinkVars, permVars>>

Init == /\ disk \in Packages /\ reading = disk
        /\ pc = "none" /\ outcome = "none"
        /\ arg = NULL /\ hdr = NULL
        /\ fd = NULL /\ fds = {} /\ lost = {}
        /\ entry = 1
        /\ given = 0 /\ buffered = <<>> /\ file = <<>> /\ bad = FALSE /\ cut = FALSE
        /\ owner = [f \in Files |-> Caller]
        /\ mode = [f \in Files |-> "temporary"]
        /\ overtaken = {}

-----------------------------------------------------------------------------
Return(how) == /\ pc' = IF hdr' = NULL THEN "none" ELSE "idle"
               /\ outcome' = how

\* Fopen of the package, by its path; it fails for one when no descriptor is left.
Fopen(there) ==
  \/ /\ \E d \in Descriptors \ fds : fd' = d /\ fds' = fds \cup {d}
     /\ reading' = disk
     /\ pc' = there
     /\ UNCHANGED <<outcome, hdr, lost>>
  \/ /\ UNCHANGED <<hdr, descriptorVars, reading>>
     /\ Return("thrown")

Fclose == /\ fds' = fds \ {fd}
          /\ fd' = NULL
          /\ UNCHANGED lost

-----------------------------------------------------------------------------
\* rpm(file)
Construct == /\ pc = "none"
             /\ Fopen("header")
             /\ UNCHANGED <<disk, arg, entry, sinkVars, permVars>>

ReadHeader == /\ pc = "header"
              /\ hdr' = reading
              /\ Fclose
              /\ Return("constructed")
              /\ UNCHANGED <<disk, arg, reading, entry, sinkVars, permVars>>

\* read_file(f, sink), with a file_sink that was just made: nobody asks whether its stream
\* could open the file.
ReadFile(f) == /\ pc = "idle"
               /\ arg' = f
               /\ given' = 0 /\ buffered' = <<>> /\ file' = <<>>
               /\ bad' \in BOOLEAN /\ cut' = FALSE
               /\ Fopen("payload")
               /\ UNCHANGED <<disk, entry, permVars>>

\* __read_payload goes on with the descriptor.  The mutant closes it, as the constructor does.
ReadPayloadCloses == /\ pc = "payload"
                     /\ entry' = 1
                     /\ pc' = "entries"
                     /\ fds' = fds \ {fd}
                     /\ UNCHANGED <<disk, outcome, objectVars, fd, lost, reading, sinkVars, permVars>>

ReadPayload == /\ pc = "payload"
               /\ entry' = 1
               /\ pc' = "entries"
               /\ UNCHANGED <<disk, outcome, objectVars, descriptorVars, reading, sinkVars, permVars>>

\* The package's header cannot be read, or Fdopen fails: what is thrown has no descriptor.
HeaderUnreadable == /\ pc \in {"header", "payload"}
                    /\ lost' = lost \cup {fd}
                    /\ fd' = NULL
                    /\ UNCHANGED hdr
                    /\ Return("thrown")
                    /\ UNCHANGED <<disk, arg, fds, reading, entry, sinkVars, permVars>>

-----------------------------------------------------------------------------
Archive == Payload[reading]

AtEntry == pc = "entries" /\ entry <= Len(Archive)

FindEntry == /\ AtEntry
             /\ Archive[entry].name = arg
             /\ pc' = "data"
             /\ UNCHANGED <<disk, outcome, objectVars, descriptorVars, reading, entry, sinkVars, permVars>>

\* The mutant does not leave the entry.
SkipEntryStays == /\ AtEntry
                  /\ Archive[entry].name # arg
                  /\ UNCHANGED vars

SkipEntry == /\ AtEntry
             /\ Archive[entry].name # arg
             /\ entry' = entry + 1
             /\ UNCHANGED <<disk, pc, outcome, objectVars, descriptorVars, reading, sinkVars, permVars>>

\* The end of the archive or an error in it: not found, whichever of them it is.
NotFound == /\ pc = "entries"
            /\ Fclose
            /\ UNCHANGED hdr
            /\ Return("thrown")
            /\ UNCHANGED <<disk, arg, reading, entry, sinkVars, permVars>>

Data == Archive[entry].data

\* ofstream::write: the stream holds back or writes what it has, fails to write some of it
\* (the disk is full), and does nothing any more when it failed before.
Write(block) ==
  LET pending == Append(buffered, block)
  IN  \/ ~bad /\ file' = file \o pending /\ buffered' = <<>> /\ UNCHANGED bad
      \/ ~bad /\ buffered' = pending /\ UNCHANGED <<file, bad>>
      \/ /\ ~bad /\ bad' = TRUE /\ UNCHANGED buffered
         /\ \E n \in 0 .. Len(pending) : file' = file \o SubSeq(pending, 1, n)
      \/ bad /\ UNCHANGED <<file, buffered, bad>>

\* ofstream::flush, which tries again what a failed write left behind.
Flush == \/ ~bad /\ file' = file \o buffered /\ buffered' = <<>> /\ UNCHANGED bad
         \/ /\ bad' = TRUE /\ UNCHANGED buffered
            /\ \E n \in 0 .. Len(buffered) : file' = file \o SubSeq(buffered, 1, n)

\* file_sink::operator()
GiveBlock == /\ pc = "data"
             /\ given < Len(Data)
             /\ given' = given + 1
             /\ Write(Data[given + 1])
             /\ UNCHANGED <<disk, pc, outcome, objectVars, descriptorVars, reading, entry, cut, permVars>>

\* archive_read_data returned 0, or an error: eof flushes the sink, ~archive_handler closes.
\* The mutants do not flush, and do not close.
EndEntryUnflushed == /\ pc = "data"
                     /\ cut' = (given < Len(Data))
                     /\ Fclose
                     /\ UNCHANGED hdr
                     /\ Return("read")
                     /\ UNCHANGED <<disk, arg, reading, entry, given, buffered, file, bad, permVars>>

EndEntryOpen == /\ pc = "data"
                /\ cut' = (given < Len(Data))
                /\ Flush
                /\ fd' = NULL
                /\ UNCHANGED hdr
                /\ Return("read")
                /\ UNCHANGED <<disk, arg, fds, lost, reading, entry, given, permVars>>

EndEntry == /\ pc = "data"
            /\ cut' = (given < Len(Data))
            /\ Flush
            /\ Fclose
            /\ UNCHANGED hdr
            /\ Return("read")
            /\ UNCHANGED <<disk, arg, reading, entry, given, permVars>>

-----------------------------------------------------------------------------
(***************************************************************************)
(* set_perms(f): nothing for a file the header does not list; else owner   *)
(* and group are looked up, chown, then chmod.  chown takes set-ID bits    *)
(* away.                                                                   *)
(***************************************************************************)
SetPerms(f) == /\ pc = "idle"
               /\ arg' = f
               /\ UNCHANGED hdr
               /\ IF f \in Declared[hdr] THEN pc' = "chown" /\ UNCHANGED outcome
                                         ELSE Return("set")
               /\ UNCHANGED <<disk, descriptorVars, reading, entry, sinkVars, permVars>>

Cleared(f) == IF mode[f] \in Packages /\ f \in Special[mode[f]] THEN "cleared" ELSE mode[f]

\* The mutant changes the mode first.
ChmodFirst == /\ pc = "chown"
              /\ mode' = [mode EXCEPT ![arg] = hdr]
              /\ pc' = "chmod"
              /\ UNCHANGED <<disk, outcome, objectVars, descriptorVars, reading, entry, sinkVars, owner, overtaken>>

Chown == /\ pc = "chown"
         /\ owner' = [owner EXCEPT ![arg] = Owner[hdr][arg]]
         /\ mode' = [mode EXCEPT ![arg] = Cleared(arg)]
         /\ overtaken' = overtaken \ {arg}
         /\ pc' = "chmod"
         /\ UNCHANGED <<disk, outcome, objectVars, descriptorVars, reading, entry, sinkVars>>

Chmod == /\ pc = "chmod"
         /\ mode' = [mode EXCEPT ![arg] = hdr]
         /\ UNCHANGED hdr
         /\ Return("set")
         /\ UNCHANGED <<disk, arg, descriptorVars, reading, entry, sinkVars, owner, overtaken>>

\* An unknown owner or group, or a chown or chmod that fails.
PermsRefused == /\ pc \in {"chown", "chmod"}
                /\ UNCHANGED hdr
                /\ Return("thrown")
                /\ UNCHANGED <<disk, arg, descriptorVars, reading, entry, sinkVars, permVars>>

-----------------------------------------------------------------------------
\* ~rpm
Destroy == /\ pc = "idle"
           /\ hdr' = NULL
           /\ Return("none")
           /\ UNCHANGED <<disk, arg, descriptorVars, reading, entry, sinkVars, permVars>>

\* Somebody else puts another package in the place of the package ...
Replace == \E pkg \in Packages \ {disk} :
             /\ disk' = pkg
             /\ UNCHANGED <<pc, outcome, objectVars, descriptorVars, reading, entry, sinkVars, permVars>>

(***************************************************************************)
(* ... and other processes (or this one between two calls) reach f by its  *)
(* name: an apply moves a new file into its place, or gives it the owner   *)
(* that its own version of the package declares.                           *)
(***************************************************************************)
Overtake(f) ==
  /\ overtaken' = IF pc = "chmod" /\ arg = f THEN overtaken \cup {f} ELSE overtaken \ {f}
  /\ UNCHANGED <<disk, pc, outcome, objectVars, descriptorVars, reading, entry, sinkVars>>

NewFile(f) == /\ owner' = [owner EXCEPT ![f] = Caller]
              /\ mode' = [mode EXCEPT ![f] = "temporary"]
              /\ Overtake(f)

OtherChown(f) == /\ \E pkg \in Packages : owner' = [owner EXCEPT ![f] = Owner[pkg][f]]
                 /\ mode' = [mode EXCEPT ![f] = Cleared(f)]
                 /\ Overtake(f)

\* What a call does when nothing fails.
Progress == \/ ReadHeader \/ ReadPayload
            \/ FindEntry \/ SkipEntry \/ (NotFound /\ ~AtEntry)
            \/ GiveBlock \/ (EndEntry /\ ~cut')
            \/ Chown \/ Chmod

Next == \/ Progress
        \/ HeaderUnreadable \/ NotFound \/ EndEntry \/ PermsRefused
        \/ Construct \/ Destroy \/ Replace
        \/ \E f \in Files : ReadFile(f) \/ SetPerms(f) \/ NewFile(f) \/ OtherChown(f)

\* Nothing the calls do waits for another process, and nothing needs to fail.
Spec == Init /\ [][Next]_vars /\ WF_vars(Progress)

-----------------------------------------------------------------------------
Reading == {"header", "payload", "entries", "data"}

(***************************************************************************)
(* Type correctness; what a call reads from is open.                       *)
(***************************************************************************)
TypeOK == /\ disk \in Packages /\ reading \in Packages
          /\ pc \in {"none", "idle", "chown", "chmod"} \cup Reading
          /\ outcome \in {"none", "constructed", "read", "set", "thrown"}
          /\ arg \in Files \cup {NULL} /\ hdr \in Packages \cup {NULL}
          /\ fd \in Descriptors \cup {NULL} /\ fds \subseteq Descriptors
          /\ entry \in Nat \ {0}
          /\ given \in Nat /\ buffered \in Seq(Blocks) /\ file \in Seq(Blocks)
          /\ bad \in BOOLEAN /\ cut \in BOOLEAN
          /\ owner \in [Files -> Owners]
          /\ mode \in [Files -> Packages \cup {"temporary", "cleared"}]
          /\ overtaken \subseteq Files
          /\ pc \in Reading <=> fd \in fds \ lost

(***************************************************************************)
(* Between two calls no descriptor is open but those of packages whose     *)
(* header could not be read: every other way out of read_file, found or    *)
(* not, closes what it opened, and closes nothing it does not own.         *)
(***************************************************************************)
DescriptorsHeld == fds = lost \cup ({fd} \ {NULL}) /\ fd \notin lost

(***************************************************************************)
(* When read_file returns, the sink's file, which apply's parser reads     *)
(* while the sink is still open, holds the beginning of the first archive  *)
(* entry of that name in one package, also when the path meanwhile names   *)
(* another, and all of it unless reading the archive failed; when          *)
(* read_file throws the file is empty.  Only when the stream failed, which *)
(* read_file does not tell either, may the file be anything else.          *)
(***************************************************************************)
WholeFile ==
  /\ pc = "idle" /\ outcome = "read" /\ ~bad => \E e \in 1 .. Len(Archive) :
       /\ Archive[e].name = arg /\ \A i \in 1 .. e - 1 : Archive[i].name # arg
       /\ \E n \in 0 .. Len(Archive[e].data) : /\ file = SubSeq(Archive[e].data, 1, n)
                                               /\ n = Len(Archive[e].data) \/ cut
  /\ pc \in {"payload", "entries"} => file = <<>> /\ buffered = <<>>

(***************************************************************************)
(* set_perms changes the owner first, which takes set-ID bits away: also   *)
(* when it stops half way, a file gets a set-ID mode only together with    *)
(* the owner that is declared with the mode.  The one exception are files  *)
(* that another process puts or chowns there, by name, between the chown   *)
(* and the chmod; and they are well again behind the next chown.           *)
(***************************************************************************)
SpecialOnlyForOwner ==
  \A f \in Files \ overtaken : mode[f] \in Packages /\ f \in Special[mode[f]]
                                 => owner[f] = Owner[mode[f]][f]

(***************************************************************************)
(* Every call comes to an end.                                             *)
(***************************************************************************)
CallsEnd == []<>(pc \in {"none", "idle"})
=============================================================================

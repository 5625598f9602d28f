---------------------------- MODULE ApplyCommand ----------------------------
(***************************************************************************)
(* rpmctl apply: apply_command::exec from the point where its options are  *)
(* valid, with stemplate, scoped_tmpfh, file_utils::move and the package's *)
(* read_file and set_perms, run by several processes on one configuration  *)
(* file.  Puts of other processes go on meanwhile.                         *)
(*                                                                         *)
(* Files are directory entries that name inodes.  A template is a sequence *)
(* of items: pieces of text and placeholders.  The parser hands them over  *)
(* one after the other (TemplateParser), and the environment answers all   *)
(* lookups of one process from the variables as they were when it opened   *)
(* the store, or fails (BdbEnvironment): opening the store fences those    *)
(* that opened it before.                                                  *)
(***************************************************************************)
EXTENDS Integers, Sequences

CONSTANTS Procs,      \* processes, each of which runs one apply
          NoProc,     \* owner of the store and of files when it is none of them
          Keys,       \* the variables, and the placeholders for them
          Vals,       \* their values, which may read as placeholders
          Undefined,  \* the value of a variable nobody defined
          Text,       \* a piece of text
          Template,   \* the configuration file, as installed and as packaged
          Versions,   \* the versions of the package, which declare permissions
          Package,    \* process -> the version it is given with -p
          SetId,      \* the versions that declare a set-user-ID or set-group-ID mode
          Faults      \* which of the failures the code does not notice may happen

ASSUME ApplyAssumption ==
  /\ NoProc \notin Procs
  /\ Undefined \notin Vals /\ Text \notin Keys \cup Vals
  /\ Template \in Seq(Keys \cup {Text})
  /\ Package \in [Procs -> Versions] /\ SetId \subseteq Versions /\ "own" \notin Versions
  /\ Faults \subseteq {"archive", "write"}

Items == Keys \cup Vals \cup {Text}

\* Names and inodes: the configuration file and the temporary files of a process.
Config     == <<NoProc, "config">>
Outer(p)   == <<p, "outer">>      \* apply_command's scoped_tmpfh tmpfile
Inner(p)   == <<p, "inner">>      \* stemplate_handler's _tmpfh
Names      == {Config} \cup (Procs \X {"outer", "inner"})
NoInode    == <<NoProc, "none">>

(***************************************************************************)
(* The permissions of an inode: the version that declares its owner and    *)
(* the one that declares its mode ("own" for those it was made with),      *)
(* whether the set-ID bits of that mode were taken away again, and, a      *)
(* history, the processes whose set_perms came to it.                      *)
(***************************************************************************)
Permissions == [owner : Versions \cup {"own"}, mode : Versions \cup {"own"},
                cleared : BOOLEAN, by : SUBSET Procs]
AsMade      == [owner |-> "own", mode |-> "own", cleared |-> FALSE, by |-> {}]

VARIABLES
  defs,     \* the variables in the store
  region,   \* the process that opened the store last
  dir,      \* directory: name -> inode
  content,  \* inode -> what was written to it
  perm,     \* inode -> its permissions
  pc,       \* where each process is
  source,   \* "namespace" or "package": which of -n and -p was given
  snapshot, \* history: the variables when the process opened the store
  input,    \* what the parser reads
  buffer,   \* what was written to the handler's temporary file
  installer \* history: the process that last replaced the configuration file

storeVars == <<defs, region>>
fileVars  == <<dir, content, perm, installer>>
procVars  == <<source, snapshot, input, buffer>>
vars      == <<storeVars, fileVars, pc, procVars>>

Init == /\ defs = [k \in Keys |-> Undefined]
        /\ region = NoProc
        /\ dir = [n \in Names |-> IF n = Config THEN Config ELSE NoInode]
        /\ content = [n \in Names |-> IF n = Config THEN Template ELSE <<>>]
        /\ perm = [n \in Names |-> AsMade]
        /\ pc = [p \in Procs |-> "start"]
        /\ source \in [Procs -> {"namespace", "package"}]
        /\ snapshot = [p \in Procs |-> defs]
        /\ input = [p \in Procs |-> <<>>]
        /\ buffer = [p \in Procs |-> <<>>]
        /\ installer = NoProc

-----------------------------------------------------------------------------
Goto(p, there) == pc' = [pc EXCEPT ![p] = there]

Ended == {"ok", "aborted", "unopened", "killed"}

\* What a placeholder becomes: its value, or the placeholder itself.
Expand(item, d) ==
  IF item \in Keys /\ d[item] # Undefined THEN d[item] ELSE item

Render(items, d) == [i \in 1 .. Len(items) |-> Expand(items[i], d)]

Create(name) == /\ dir' = [dir EXCEPT ![name] = name]
                /\ UNCHANGED <<content, perm, installer>>

Unlink(name) == /\ dir' = [dir EXCEPT ![name] = NoInode]
                /\ UNCHANGED <<content, perm, installer>>

\* rename(2): the entry `to' names the inode of `from', which is no longer a name.
Move(p, from, to) ==
  /\ dir' = [dir EXCEPT ![to] = dir[from], ![from] = NoInode]
  /\ installer' = IF to = Config THEN p ELSE installer
  /\ UNCHANGED <<content, perm>>

\* The file the parser reads and replaces.
Target(p) == IF source[p] = "package" THEN Outer(p) ELSE Config

\* file_sink, when the archive's reader calls it with the first n items.
Sink(p, n) ==
  content' = [content EXCEPT ![Outer(p)] = SubSeq(Template, 1, n)]

-----------------------------------------------------------------------------
\* bdb_environment env(...)
OpenEnv(p) == /\ pc[p] = "start"
              /\ region' = p
              /\ snapshot' = [snapshot EXCEPT ![p] = defs]
              /\ Goto(p, "tmpfile")
              /\ UNCHANGED <<defs, fileVars, source, input, buffer>>

\* scoped_tmpfh tmpfile(basedir), whichever of -n and -p was given.
MakeTmpfile(p) == /\ pc[p] = "tmpfile"
                  /\ Create(Outer(p))
                  /\ Goto(p, IF source[p] = "package" THEN "extract" ELSE "on_start")
                  /\ UNCHANGED <<storeVars, procVars>>

(***************************************************************************)
(* read_file copies the packaged file to the temporary file.  Its loop     *)
(* ends as well when reading the archive fails, and file_sink does not ask *)
(* whether its writes succeeded: the copy may then be any prefix.          *)
(***************************************************************************)
Extract(p) == /\ pc[p] = "extract"
              /\ \E n \in 0 .. Len(Template) :
                   /\ n = Len(Template) \/ Faults # {}
                   /\ Sink(p, n)
              /\ Goto(p, "on_start")
              /\ UNCHANGED <<storeVars, dir, perm, installer, procVars>>

\* stemplate::on_start
OnStart(p) == /\ pc[p] = "on_start"
              /\ Create(Inner(p))
              /\ Goto(p, "open")
              /\ UNCHANGED <<storeVars, procVars>>

\* scoped_fh fh(file, "r"): from here on the inode is read, whatever its name.
OpenFile(p) == /\ pc[p] = "open"
               /\ input' = [input EXCEPT ![p] = content[dir[Target(p)]]]
               /\ Goto(p, "events")
               /\ UNCHANGED <<storeVars, fileVars, source, snapshot, buffer>>

(***************************************************************************)
(* The parser's loop.  Its read may answer nothing and u_feof stay false   *)
(* (the template is a directory, an I/O error): the loop goes round and    *)
(* reads again, before the first item or behind any other.                 *)
(***************************************************************************)
ReadNothing(p) == /\ pc[p] = "events"
                  /\ Goto(p, "again")
                  /\ UNCHANGED <<storeVars, fileVars, procVars>>

ReadAgain(p) == /\ pc[p] = "again"
                /\ Goto(p, "events")
                /\ UNCHANGED <<storeVars, fileVars, procVars>>

Item(p) == input[p][Len(buffer[p]) + 1]

Write(p, item) == buffer' = [buffer EXCEPT ![p] = Append(@, item)]

\* stemplate::on_text.  The mutant's write loop makes no progress.
OnTextWritesNone(p) == /\ pc[p] = "events"
                       /\ Len(buffer[p]) < Len(input[p])
                       /\ Item(p) \notin Keys
                       /\ UNCHANGED vars

OnText(p) == /\ pc[p] = "events"
             /\ Len(buffer[p]) < Len(input[p])
             /\ Item(p) \notin Keys
             /\ Write(p, Item(p))
             /\ UNCHANGED <<storeVars, fileVars, pc, source, snapshot, input>>

\* stemplate::on_variable and on_qualified_variable.  The mutant reads past the fence.
OnVariableUnfenced(p) ==
  /\ pc[p] = "events"
  /\ Len(buffer[p]) < Len(input[p])
  /\ Item(p) \in Keys
  /\ Write(p, Expand(Item(p), defs))
  /\ UNCHANGED <<storeVars, fileVars, pc, source, snapshot, input>>

OnVariable(p) == /\ pc[p] = "events"
                 /\ Len(buffer[p]) < Len(input[p])
                 /\ Item(p) \in Keys
                 /\ region = p
                 /\ Write(p, Expand(Item(p), defs))
                 /\ UNCHANGED <<storeVars, fileVars, pc, source, snapshot, input>>

(***************************************************************************)
(* stemplate::on_eof: flush, move over the file that was read, and delete  *)
(* the handler, whose temporary file is unlinked by name.  u_fflush does   *)
(* not tell when the disk is full.                                         *)
(***************************************************************************)
FlushLater(p) == /\ pc[p] = "events"
                 /\ Len(buffer[p]) = Len(input[p])
                 /\ Goto(p, "rename")
                 /\ UNCHANGED <<storeVars, fileVars, procVars>>

Flush(p) == /\ pc[p] = "events"
            /\ Len(buffer[p]) = Len(input[p])
            /\ \E n \in 0 .. Len(buffer[p]) :
                 /\ n = Len(buffer[p]) \/ "write" \in Faults
                 /\ content' = [content EXCEPT ![Inner(p)] = SubSeq(buffer[p], 1, n)]
            /\ Goto(p, "rename")
            /\ UNCHANGED <<storeVars, dir, perm, installer, procVars>>

Replace(p) == /\ pc[p] = "rename"
              /\ Move(p, Inner(p), Target(p))
              /\ Goto(p, "discard")
              /\ UNCHANGED <<storeVars, procVars>>

Discard(p) == /\ pc[p] = "discard"
              /\ Unlink(Inner(p))
              /\ Goto(p, IF source[p] = "package" THEN "install" ELSE "cleanup")
              /\ UNCHANGED <<storeVars, procVars>>

\* -p only: the expanded copy replaces the configuration file ...
Install(p) == /\ pc[p] = "install"
              /\ Move(p, Outer(p), Config)
              /\ Goto(p, "perms")
              /\ UNCHANGED <<storeVars, procVars>>

(***************************************************************************)
(* ... and gets the owner and then the mode its own version declares, by   *)
(* its name: whichever file another apply has put there by then.  chown(2) *)
(* clears the set-ID bits of a file.  (The package's header lists the      *)
(* file; RpmPackage has the other case.)  The mutant goes on when the      *)
(* owner cannot be changed.                                                *)
(***************************************************************************)
Restore(p, owner, mode, cleared, there) ==
  /\ perm' = [perm EXCEPT ![dir[Config]] = [owner |-> owner, mode |-> mode, cleared |-> cleared,
                                            by |-> perm[dir[Config]].by \cup {p}]]
  /\ Goto(p, there)
  /\ UNCHANGED <<storeVars, dir, content, installer, procVars>>

ChownSkipped(p) == /\ pc[p] = "perms"
                   /\ Goto(p, "chmod")
                   /\ UNCHANGED <<storeVars, fileVars, procVars>>

Chown(p) == LET mode == perm[dir[Config]].mode
            IN pc[p] = "perms" /\ Restore(p, Package[p], mode, mode \in SetId, "chmod")

Chmod(p) == LET owner == perm[dir[Config]].owner
            IN pc[p] = "chmod" /\ Restore(p, owner, Package[p], FALSE, "cleanup")

\* The destructor of tmpfile ...
CleanupForgets(p) == /\ pc[p] = "cleanup"
                     /\ Goto(p, "close")
                     /\ UNCHANGED <<storeVars, fileVars, procVars>>

Cleanup(p) == /\ pc[p] = "cleanup"
              /\ Unlink(Outer(p))
              /\ Goto(p, "close")
              /\ UNCHANGED <<storeVars, procVars>>

\* ... then that of env, which throws when the store was opened by another process.
CloseEnv(p) == /\ pc[p] = "close"
               /\ Goto(p, IF region = p THEN "ok" ELSE "aborted")
               /\ UNCHANGED <<storeVars, fileVars, procVars>>

-----------------------------------------------------------------------------
(***************************************************************************)
(* Exceptions.  In the parser's try block on_error deletes the handler and *)
(* its temporary file; main catches nothing, so no destructor of           *)
(* apply_command runs and the process aborts.  The mutant unlinks the file *)
(* the parser was reading.                                                 *)
(***************************************************************************)
InParser(p) == pc[p] \in {"open", "events", "rename"}

RaiseUnlinksTarget(p) == /\ InParser(p)
                         /\ Unlink(Target(p))
                         /\ Goto(p, "aborted")
                         /\ UNCHANGED <<storeVars, procVars>>

Raise(p) == /\ InParser(p)
            /\ Unlink(Inner(p))
            /\ Goto(p, "aborted")
            /\ UNCHANGED <<storeVars, procVars>>

\* The environment refuses a lookup of a process that is not the last to have opened it.
LookupFenced(p) == /\ pc[p] = "events"
                   /\ Len(buffer[p]) < Len(input[p])
                   /\ Item(p) \in Keys
                   /\ region # p
                   /\ Raise(p)

\* A call outside the parser's try block throws.
Abort(p) == /\ pc[p] \in {"start", "tmpfile", "extract", "on_start", "install", "perms", "chmod"}
            /\ Goto(p, "aborted")
            /\ UNCHANGED <<storeVars, fileVars, procVars>>

\* __mktemp makes the file and open throws: a constructor that throws unlinks nothing.
CannotOpen(p) == /\ pc[p] \in {"tmpfile", "on_start"}
                 /\ Create(IF pc[p] = "tmpfile" THEN Outer(p) ELSE Inner(p))
                 /\ Goto(p, "unopened")
                 /\ UNCHANGED <<storeVars, procVars>>

Kill(p) == /\ pc[p] \notin Ended
           /\ Goto(p, "killed")
           /\ UNCHANGED <<storeVars, fileVars, procVars>>

\* Another process opens the store, to put, to define or only to read ...
OtherOpens == /\ region' = NoProc
              /\ UNCHANGED <<defs, fileVars, pc, procVars>>

\* ... and what it puts is committed, unless an apply has opened the store since.
Put(k, v) == /\ region = NoProc
             /\ defs' = [defs EXCEPT ![k] = v]
             /\ UNCHANGED <<region, fileVars, pc, procVars>>

Step(p) == \/ OpenEnv(p) \/ MakeTmpfile(p) \/ Extract(p)
           \/ OnStart(p) \/ OpenFile(p) \/ ReadNothing(p) \/ ReadAgain(p)
           \/ OnText(p) \/ OnVariable(p) \/ LookupFenced(p)
           \/ Flush(p) \/ Replace(p) \/ Discard(p)
           \/ Install(p) \/ Chown(p) \/ Chmod(p) \/ Cleanup(p) \/ CloseEnv(p)

Next == \/ \E p \in Procs : Step(p) \/ Raise(p) \/ Abort(p) \/ CannotOpen(p) \/ Kill(p)
        \/ OtherOpens
        \/ \E k \in Keys, v \in Vals : Put(k, v)

Spec == Init /\ [][Next]_vars

\* Nothing apply calls waits for another process; and nothing needs to fail.
FairSpec == Spec /\ \A p \in Procs : WF_vars(Step(p) /\ ~ReadNothing(p))

-----------------------------------------------------------------------------
Steps == {"start", "tmpfile", "extract", "on_start", "open", "events", "again", "rename",
          "discard", "install", "perms", "chmod", "cleanup", "close"}

Variables == [Keys -> Vals \cup {Undefined}]

(***************************************************************************)
(* Type correctness.  The configuration file always exists, and so does    *)
(* the file a process is about to open or to move.                         *)
(***************************************************************************)
TypeOK ==
  /\ defs \in Variables
  /\ region \in Procs \cup {NoProc}
  /\ dir \in [Names -> Names \cup {NoInode}]
  /\ content \in [Names -> Seq(Items)]
  /\ perm \in [Names -> Permissions]
  /\ pc \in [Procs -> Steps \cup Ended]
  /\ source \in [Procs -> {"namespace", "package"}]
  /\ snapshot \in [Procs -> Variables]
  /\ input \in [Procs -> Seq(Items)]
  /\ buffer \in [Procs -> Seq(Items)]
  /\ installer \in Procs \cup {NoProc}
  /\ dir[Config] # NoInode
  /\ \A p \in Procs :
       /\ pc[p] = "open" => dir[Target(p)] # NoInode
       /\ pc[p] = "rename" => dir[Inner(p)] = Inner(p)
       /\ pc[p] = "install" => dir[Outer(p)] = Inner(p)

ConfigContent == content[dir[Config]]

\* What p must make of the configuration file.
Rendering(p) ==
  Render(IF source[p] = "package" THEN Template ELSE input[p], snapshot[p])

\* The file was replaced and apply goes on.
Replaced(p) == \/ pc[p] \in {"perms", "chmod", "cleanup", "close"}
               \/ pc[p] = "discard" /\ source[p] = "namespace"

(***************************************************************************)
(* apply implements the abstract configuration file: whoever looks at the  *)
(* file at whatever time sees it as it was or as one apply made it, whole  *)
(* and with all variables taken from one state of the store, never a part, *)
(* a mixture or nothing, whichever processes are killed, fenced, overtaken *)
(* or fail meanwhile; and exit status 0 means that it was replaced.        *)
(***************************************************************************)
Abstract == INSTANCE ConfigFile WITH
  file <- ConfigContent,
  status <- [p \in Procs |->
               CASE pc[p] = "start" -> "idle"
                 [] pc[p] = "ok" -> "ok"
                 [] pc[p] \in Ended \ {"ok"} -> "failed"
                 [] Replaced(p) -> "replaced"
                 [] source[p] = "namespace" /\ pc[p] \in {"tmpfile", "on_start", "open"} -> "begun"
                 [] OTHER -> "looked"],
  view <- snapshot,
  text <- [p \in Procs |-> IF source[p] = "package" THEN Template ELSE input[p]]

ConfigFileSpec == Abstract!Spec

(***************************************************************************)
(* A process that ends by itself leaves no handler's temporary file (but   *)
(* the one it made and could not open), and one that succeeds leaves no    *)
(* temporary file at all.                                                  *)
(***************************************************************************)
TemporariesRemoved ==
  \A p \in Procs :
    /\ pc[p] \in {"ok", "aborted"} => dir[Inner(p)] = NoInode
    /\ pc[p] = "ok" => dir[Outer(p)] = NoInode

(***************************************************************************)
(* When apply -p exits 0, and no other apply replaced the file since, the  *)
(* file has the owner and the mode its package declares: none of those of  *)
(* the temporary file are left.  Only the set_perms of another apply that  *)
(* reached this file late, by its name, may have put the owner or mode of  *)
(* its own version there, or taken set-ID bits away; so an apply that was  *)
(* not overtaken this way leaves exactly what its package declares.        *)
(***************************************************************************)
PermissionsRestored ==
  \A p \in Procs :
    pc[p] = "ok" /\ source[p] = "package" /\ installer = p
      => LET now      == perm[dir[Config]]
             declared == {Package[q] : q \in now.by}
         IN /\ now.owner \in declared /\ now.mode \in declared
            /\ now.cleared => now.mode \in SetId /\ now.by # {p}

(***************************************************************************)
(* An apply that exits 0 and was not followed by another one leaves the    *)
(* file expanded with the variables as they were when it started.          *)
(***************************************************************************)
SuccessIsApplied ==
  \A p \in Procs :
    pc[p] = "ok" /\ installer = p => ConfigContent = Rendering(p)

(***************************************************************************)
(* Every apply ends, whatever the others do and however often reading the  *)
(* template fails, as long as it does not fail for ever (TemplateParser    *)
(* shows that the parser's loop otherwise spins).                          *)
(***************************************************************************)
EveryApplyEnds ==
  \A p \in Procs : <>[][~ReadNothing(p)]_vars => <>(pc[p] \in Ended)

(***************************************************************************)
(* "You may do these steps again (put + apply) and the new variables will  *)
(* be redefined" (README.rst): an apply that exits 0 and was not followed  *)
(* by another one leaves the template expanded with its variables.         *)
(***************************************************************************)
ApplyRedefines ==
  \A p \in Procs :
    pc[p] = "ok" /\ installer = p => ConfigContent = Render(Template, snapshot[p])

(***************************************************************************)
(* "Reads the content of a file inside a RPM package ... until the         *)
(* contents of the file are consumed" (rpm.hh): what apply -p installs is  *)
(* the whole packaged file.                                                *)
(***************************************************************************)
PackageFileConsumed ==
  \A p \in Procs :
    pc[p] = "ok" /\ source[p] = "package" => Len(input[p]) = Len(Template)
=============================================================================

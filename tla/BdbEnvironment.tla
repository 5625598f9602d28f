--------------------------- MODULE BdbEnvironment ---------------------------
(***************************************************************************)
(* rpmctl::bdb_environment and the commands that run on it, each in a      *)
(* process of its own: the constructor, put, has, get, the two list        *)
(* methods and the destructor, one action per call into Berkeley DB.       *)
(*                                                                         *)
(* Berkeley DB is modelled from how the code uses it.                      *)
(*  - DB_RECOVER: opening the environment discards the shared region and   *)
(*    builds a new one from the log.  The processes attached to the old    *)
(*    region are fenced: their next call throws DB_RUNRECOVERY.  So one    *)
(*    process at a time, `region', can use the store.                      *)
(*  - DB_AUTO_COMMIT: a put is a transaction; its writes to the secondary  *)
(*    and to the master database reach the log together, at the commit.    *)
(*  - Without DB_INIT_LOCK no call waits for another process.              *)
(* A call checks for the fence and acts in one step; two recoveries do not *)
(* overlap.                                                                *)
(***************************************************************************)
EXTENDS EnvironmentTypes

\* The state of a database: the master file and the secondary index over it.
VARIABLES disk,      \* what recovery would rebuild: the committed state
          cache,     \* the region: what the attached process reads and writes
          region,    \* the process that created the region, or NoProc
          pc,        \* where each process is
          command,   \* what each process runs
          todo,      \* the variables a "read" has still to look up
          answer,    \* what each process has been told so far
          outcome    \* how the last run of each process ended

CONSTANT NoProc

ASSUME NoProcAssumption == NoProc \notin Procs

store   == <<disk, cache, region>>
client  == <<command, answer, outcome>>
bdbVars == <<disk, cache, region, pc, command, todo, answer, outcome>>

\* The secondary key of a master key: __index_package.  The mutant takes the name.
IndexPackageName(k) == k[2]

IndexPackage(k) == k[1]

\* What the index of a master database m must hold.
IndexOf(m) == {<<IndexPackage(k), k>> : k \in {k \in Keys : m[k] # Undefined}}

EmptyDb == [master |-> [k \in Keys |-> Undefined], index |-> {}]

Live(p) == region = p

Goto(p, there) == pc' = [pc EXCEPT ![p] = there]

BdbInit == /\ disk = EmptyDb
           /\ cache = EmptyDb
           /\ region = NoProc
           /\ pc = [p \in Procs |-> "idle"]
           /\ command = [p \in Procs |-> NoCommand]
           /\ todo = [p \in Procs |-> <<>>]
           /\ answer = [p \in Procs |-> {}]
           /\ outcome = [p \in Procs |-> "none"]

-----------------------------------------------------------------------------
\* A process is started on a command whose arguments are valid.
Run(p) == /\ pc[p] = "idle"
          /\ \E c \in Commands :
               /\ command' = [command EXCEPT ![p] = c]
               /\ todo' = [todo EXCEPT ![p] = IF c.op = "read" THEN c.keys ELSE <<>>]
          /\ outcome' = [outcome EXCEPT ![p] = "none"]
          /\ Goto(p, "open")
          /\ UNCHANGED <<store, answer>>

\* _env.open without DB_RECOVER joins the region it finds.
OpenEnvJoins(p) == /\ pc[p] = "open"
                   /\ cache' = cache
                   /\ region' = p
                   /\ Goto(p, "attach")
                   /\ UNCHANGED <<disk, client, todo>>

OpenEnv(p) == /\ pc[p] = "open"
              /\ cache' = disk
              /\ region' = p
              /\ Goto(p, "attach")
              /\ UNCHANGED <<disk, client, todo>>

\* The two databases are opened and associated; what comes next is the command's.
FirstCall(c) == CASE c.op = "put"  -> "index"
                  [] c.op = "def"  -> "has"
                  [] c.op = "read" -> IF c.keys = <<>> THEN "close" ELSE "probe"
                  [] OTHER         -> "cursor"

AttachDbs(p) == /\ pc[p] = "attach"
                /\ Live(p)
                /\ Goto(p, FirstCall(command[p]))
                /\ UNCHANGED <<store, client, todo>>

(***************************************************************************)
(* has: a probe with an empty buffer, DbMemoryException meaning "defined". *)
(* def_command puts the variable only when it is not.                      *)
(***************************************************************************)
HasInverted(p) ==
  /\ pc[p] = "has"
  /\ Live(p)
  /\ Goto(p, IF cache.master[command[p].key] = Undefined THEN "close" ELSE "index")
  /\ UNCHANGED <<store, client, todo>>

Has(p) == /\ pc[p] = "has"
          /\ Live(p)
          /\ Goto(p, IF cache.master[command[p].key] = Undefined THEN "index" ELSE "close")
          /\ UNCHANGED <<store, client, todo>>

\* _master->put: first the secondary index ...
PutIndexUnlogged(p) ==
  /\ pc[p] = "index"
  /\ Live(p)
  /\ cache' = [cache EXCEPT !.index =
                 @ \cup {<<IndexPackage(command[p].key), command[p].key>>}]
  /\ disk' = cache'
  /\ Goto(p, "master")
  /\ UNCHANGED <<region, client, todo>>

\* The mutant of a handle that is not fenced: the writes go through anyway.
PutIndexUnfenced(p) ==
  /\ pc[p] = "index"
  /\ cache' = [cache EXCEPT !.index =
                 @ \cup {<<IndexPackage(command[p].key), command[p].key>>}]
  /\ region' = p
  /\ Goto(p, "master")
  /\ UNCHANGED <<disk, client, todo>>

PutIndex(p) ==
  /\ pc[p] = "index"
  /\ Live(p)
  /\ cache' = [cache EXCEPT !.index =
                 @ \cup {<<IndexPackage(command[p].key), command[p].key>>}]
  /\ Goto(p, "master")
  /\ UNCHANGED <<disk, region, client, todo>>

\* ... then the master database ...
PutMaster(p) ==
  /\ pc[p] = "master"
  /\ Live(p)
  /\ cache' = [cache EXCEPT !.master[command[p].key] = command[p].val]
  /\ Goto(p, "commit")
  /\ UNCHANGED <<disk, region, client, todo>>

\* ... and the commit of the transaction, which makes both durable.
Commit(p) == /\ pc[p] = "commit"
             /\ Live(p)
             /\ disk' = cache
             /\ Goto(p, "close")
             /\ UNCHANGED <<cache, region, client, todo>>

(***************************************************************************)
(* get: a probe for the length of the value; the default is the answer     *)
(* when there is none ...                                                  *)
(***************************************************************************)
AfterLookup(p) == IF Len(todo[p]) = 1 THEN "close" ELSE "probe"

Reports(p, fact) == answer' = [answer EXCEPT ![p] = @ \cup {fact}]

Probe(p) == /\ pc[p] = "probe"
            /\ Live(p)
            /\ LET k == Head(todo[p])
               IN  IF cache.master[k] = Undefined
                   THEN /\ Reports(p, <<k, Undefined>>)
                        /\ todo' = [todo EXCEPT ![p] = Tail(@)]
                        /\ Goto(p, AfterLookup(p))
                   ELSE /\ Goto(p, "fetch")
                        /\ UNCHANGED <<answer, todo>>
            /\ UNCHANGED <<store, command, outcome>>

\* ... and a second get for the value.
Fetch(p) == /\ pc[p] = "fetch"
            /\ Live(p)
            /\ Reports(p, <<Head(todo[p]), cache.master[Head(todo[p])]>>)
            /\ todo' = [todo EXCEPT ![p] = Tail(@)]
            /\ Goto(p, AfterLookup(p))
            /\ UNCHANGED <<store, command, outcome>>

(***************************************************************************)
(* The two listings walk a cursor over the index: list(ns) over the        *)
(* duplicates of one secondary key, reading each variable's value in the   *)
(* master database; list() over the distinct secondary keys.               *)
(***************************************************************************)
Listing(c) ==
  IF c.op = "list"
  THEN {<<e[2], cache.master[e[2]]>> : e \in {e \in cache.index : e[1] = c.ns}}
  ELSE {e[1] : e \in cache.index}

CursorNext(p) == /\ pc[p] = "cursor"
                 /\ Live(p)
                 /\ \E fact \in Listing(command[p]) \ answer[p] : Reports(p, fact)
                 /\ UNCHANGED <<store, pc, command, todo, outcome>>

\* DB_NOTFOUND.  The mutant starts over with DB_SET and never sees it.
CursorEndNever(p) == /\ pc[p] = "cursor"
                     /\ Live(p)
                     /\ Listing(command[p]) = {}
                     /\ Goto(p, "close")
                     /\ UNCHANGED <<store, client, todo>>

CursorEnd(p) == /\ pc[p] = "cursor"
                /\ Live(p)
                /\ Listing(command[p]) \subseteq answer[p]
                /\ Goto(p, "close")
                /\ UNCHANGED <<store, client, todo>>

\* The process ends; what it printed or looked up goes with it.
Ends(p, how) == /\ outcome' = [outcome EXCEPT ![p] = how]
                /\ command' = [command EXCEPT ![p] = NoCommand]
                /\ answer' = [answer EXCEPT ![p] = {}]
                /\ todo' = [todo EXCEPT ![p] = <<>>]
                /\ Goto(p, "idle")
                /\ UNCHANGED store

\* The destructor closes the databases and the environment; the process exits 0.
Close(p) == pc[p] = "close" /\ Live(p) /\ Ends(p, "success")

(***************************************************************************)
(* A call on a fenced handle throws.  main catches nothing, so the process *)
(* aborts; also when it is the destructor that throws, after a commit.     *)
(***************************************************************************)
FenceNotSeenByClose(p) ==
  pc[p] \notin {"idle", "open", "close"} /\ ~Live(p) /\ Ends(p, "fenced")

Fenced(p) == pc[p] \notin {"idle", "open"} /\ ~Live(p) /\ Ends(p, "fenced")

\* The process is killed, or a call fails for a reason of its own.
Crash(p) == pc[p] # "idle" /\ Ends(p, "crashed")

Step(p) == \/ OpenEnv(p) \/ AttachDbs(p)
           \/ Has(p) \/ PutIndex(p) \/ PutMaster(p) \/ Commit(p)
           \/ Probe(p) \/ Fetch(p) \/ CursorNext(p) \/ CursorEnd(p)
           \/ Close(p) \/ Fenced(p)

BdbNext == \E p \in Procs : Run(p) \/ Step(p) \/ Crash(p)

BdbSpec == BdbInit /\ [][BdbNext]_bdbVars

\* No call waits for another process, so a process that is scheduled goes on.
FairBdbSpec == BdbSpec /\ \A p \in Procs : WF_bdbVars(Step(p))

-----------------------------------------------------------------------------
Steps == {"idle", "open", "attach", "has", "index", "master", "commit",
          "probe", "fetch", "cursor", "close"}

Databases == [master : [Keys -> Vals \cup {Undefined}], index : SUBSET (Spaces \X Keys)]

(***************************************************************************)
(* Type correctness; and what a process has printed is made of variables,  *)
(* values and namespaces that exist.                                       *)
(***************************************************************************)
BdbTypeOK ==
  /\ disk \in Databases
  /\ cache \in Databases
  /\ region \in Procs \cup {NoProc}
  /\ pc \in [Procs -> Steps]
  /\ command \in [Procs -> Commands \cup {NoCommand}]
  /\ todo \in [Procs -> Seq(Keys)]
  /\ answer \in [Procs -> SUBSET ((Keys \X (Vals \cup {Undefined})) \cup Spaces)]
  /\ outcome \in [Procs -> {"none", "success", "fenced", "crashed"}]

(***************************************************************************)
(* The secondary index holds exactly the defined variables, whatever was   *)
(* running when a process died: what recovery rebuilds is never a put of   *)
(* which only half arrived.  (list() shows what the index holds.)          *)
(***************************************************************************)
IndexMatchesMaster == disk.index = IndexOf(disk.master)

(***************************************************************************)
(* Outside a put of its own, the process that may use the store reads the  *)
(* committed state and nothing else.                                       *)
(***************************************************************************)
LiveReadsCommitted ==
  \A p \in Procs :
    Live(p) /\ pc[p] \notin {"idle", "open", "master", "commit"} => cache = disk

(***************************************************************************)
(* The value of a defined variable changes only by a put of that variable: *)
(* def, which looks first and writes later, never overwrites a value that  *)
(* was put between the two ("define variables if and only if they are      *)
(* undefined").                                                            *)
(***************************************************************************)
OverwrittenByPut ==
  \A k \in Keys :
    disk.master[k] # Undefined /\ disk'.master[k] # disk.master[k]
      => \E p \in Procs : /\ command[p].op = "put"
                          /\ command[p].key = k
                          /\ command[p].val = disk'.master[k]

OnlyPutOverwrites == [][OverwrittenByPut]_bdbVars

(***************************************************************************)
(* The store implements the environment: every command takes effect at one *)
(* instant.  A write does at its commit, a listing when its cursor ends, a *)
(* sequence of lookups at the last one, so that all of them saw the same   *)
(* variables.                                                              *)
(***************************************************************************)
Performed(p) == pc[p] = "close"

AbstractPhase   == [p \in Procs |-> IF pc[p] = "idle" THEN "idle"
                                    ELSE IF Performed(p) THEN "performed" ELSE "called"]
AbstractAnswer  == [p \in Procs |-> IF Performed(p) THEN answer[p] ELSE {}]
AbstractOutcome == [p \in Procs |-> IF outcome[p] \in {"fenced", "crashed"}
                                    THEN "died" ELSE outcome[p]]

Abstract == INSTANCE Environment WITH
  defs    <- disk.master,
  phase   <- AbstractPhase,
  answer  <- AbstractAnswer,
  outcome <- AbstractOutcome

EnvironmentSpec == Abstract!Spec

(***************************************************************************)
(* Every command that is started ends.                                     *)
(***************************************************************************)
EveryCommandEnds == \A p \in Procs : pc[p] # "idle" ~> pc[p] = "idle"

(***************************************************************************)
(* The last process to open the store is never fenced: it succeeds, unless *)
(* it is killed or another one opens the store after it.                   *)
(***************************************************************************)
LastOpenerSucceeds ==
  \A p \in Procs :
    Live(p) /\ pc[p] \notin {"idle", "open"}
      ~> \/ ~Live(p)
         \/ pc[p] = "idle" /\ outcome[p] \in {"success", "crashed"}
=============================================================================

------------------------ MODULE BdbEnvironment_proofs ------------------------
(***************************************************************************)
(* Proofs about the store, for every number of processes, variables and    *)
(* values: type correctness, the agreement of the index with the master    *)
(* database, and that nobody but put overwrites a variable.  What makes    *)
(* them inductive is what the region holds during a put: the committed     *)
(* state and the half of the transaction that was made.                    *)
(***************************************************************************)
EXTENDS BdbEnvironment, TLAPS

Writing == {"index", "master", "commit"}

\* Where a process is fits the command it runs.
RightCommand ==
  \A p \in Procs :
    /\ pc[p] # "idle" => command[p] \in Commands
    /\ pc[p] = "has" => command[p].op = "def"
    /\ pc[p] \in Writing => command[p].op \in {"put", "def"}
    /\ pc[p] \in {"probe", "fetch"} => todo[p] # <<>>
    /\ pc[p] = "cursor" => command[p].op \in {"list", "spaces"}
    /\ pc[p] \in {"open", "attach"} /\ command[p].op = "read"
         => todo[p] = command[p].keys

Entry(c) == <<IndexPackage(c.key), c.key>>

\* What the region holds while its owner is at each step.
RegionContents ==
  \A p \in Procs :
    Live(p) =>
      /\ pc[p] \notin {"idle", "open", "master", "commit"} => cache = disk
      /\ pc[p] = "master" =>
           /\ cache.master = disk.master
           /\ cache.index = disk.index \cup {Entry(command[p])}
      /\ pc[p] = "commit" =>
           /\ cache.master = [disk.master EXCEPT ![command[p].key] = command[p].val]
           /\ cache.index = disk.index \cup {Entry(command[p])}

\* A def that is going to write was not overtaken by a put.
DefStillUndefined ==
  \A p \in Procs :
    Live(p) /\ pc[p] \in Writing /\ command[p].op = "def"
      => disk.master[command[p].key] = Undefined

BdbIInv == /\ BdbTypeOK
           /\ IndexMatchesMaster
           /\ RightCommand
           /\ RegionContents
           /\ DefStillUndefined

-----------------------------------------------------------------------------
LEMMA WriteCommands ==
  ASSUME NEW c \in Commands, c.op \in {"put", "def"}
  PROVE  c.key \in Keys /\ c.val \in Vals
BY CommandsAssumption

LEMMA ReadCommands ==
  ASSUME NEW c \in Commands, c.op = "read"
  PROVE  c.keys \in Seq(Keys)
BY CommandsAssumption

LEMMA KnownCommands ==
  ASSUME NEW c \in Commands
  PROVE  c.op \in {"put", "def", "read", "list", "spaces"}
BY CommandsAssumption

LEMMA NotACommand == NoCommand \notin Commands
BY CommandsAssumption DEF NoCommand

LEMMA EntryType ==
  ASSUME NEW c \in Commands, c.op \in {"put", "def"}
  PROVE  Entry(c) \in Spaces \X Keys
BY WriteCommands DEF Entry, IndexPackage, Spaces

\* Defining a variable adds its entry to what the index must hold.
LEMMA IndexAfterPut ==
  ASSUME NEW m \in [Keys -> Vals \cup {Undefined}], NEW k \in Keys, NEW v \in Vals
  PROVE  IndexOf([m EXCEPT ![k] = v]) = IndexOf(m) \cup {<<IndexPackage(k), k>>}
<1> DEFINE n == [m EXCEPT ![k] = v]
<1>1. n[k] # Undefined
  BY UndefinedAssumption
<1>2. \A j \in Keys : j # k => n[j] = m[j]
  OBVIOUS
<1> HIDE DEF n
<1>3. {j \in Keys : n[j] # Undefined} = {j \in Keys : m[j] # Undefined} \cup {k}
  BY <1>1, <1>2
<1> QED  BY <1>3 DEF n, IndexOf

-----------------------------------------------------------------------------
LEMMA InitBdbIInv == BdbInit => BdbIInv
<1> SUFFICES ASSUME BdbInit  PROVE BdbIInv
  OBVIOUS
<1>1. EmptyDb \in Databases
  BY DEF EmptyDb, Databases
<1>2. BdbTypeOK
  BY <1>1 DEF BdbInit, BdbTypeOK, Steps
<1>3. IndexMatchesMaster
  BY DEF BdbInit, EmptyDb, IndexMatchesMaster, IndexOf
<1>4. RightCommand /\ RegionContents /\ DefStillUndefined
  BY NoProcAssumption
  DEF BdbInit, RightCommand, RegionContents, DefStillUndefined, Live, Writing
<1> QED  BY <1>2, <1>3, <1>4 DEF BdbIInv

\* What every step has to show of the process it moves, and of the others.
LEMMA MoveOne ==
  ASSUME BdbTypeOK, NEW p \in Procs, NEW there \in Steps, Goto(p, there)
  PROVE  /\ pc' \in [Procs -> Steps]
         /\ pc'[p] = there
         /\ \A q \in Procs \ {p} : pc'[q] = pc[q]
BY DEF BdbTypeOK, Goto

\* A step that leaves the store and the command alone, inside the same part of a command.
LEMMA QuietStep ==
  ASSUME BdbIInv, NEW p \in Procs, NEW there \in Steps, Goto(p, there),
         UNCHANGED <<store, command, outcome>>,
         todo' \in [Procs -> Seq(Keys)],
         answer' \in [Procs -> SUBSET ((Keys \X (Vals \cup {Undefined})) \cup Spaces)],
         \A q \in Procs \ {p} : todo'[q] = todo[q],
         Live(p), pc[p] \in {"attach", "has", "probe", "fetch", "cursor"},
         there \in {"has", "index", "probe", "fetch", "cursor", "close"},
         there = "has" => command[p].op = "def",
         there = "index" => /\ command[p].op \in {"put", "def"}
                            /\ command[p].op = "def"
                                 => disk.master[command[p].key] = Undefined,
         there \in {"probe", "fetch"} => todo'[p] # <<>>,
         there = "cursor" => command[p].op \in {"list", "spaces"}
  PROVE  BdbIInv'
<1>1. /\ pc' \in [Procs -> Steps] /\ pc'[p] = there
      /\ \A q \in Procs \ {p} : pc'[q] = pc[q]
  BY MoveOne DEF BdbIInv
<1>2. disk' = disk /\ cache' = cache /\ region' = region /\ command' = command /\ outcome' = outcome
  BY DEF store
<1>3. BdbTypeOK'
  BY <1>1, <1>2 DEF BdbIInv, BdbTypeOK
<1>4. IndexMatchesMaster'
  BY <1>2 DEF BdbIInv, IndexMatchesMaster, IndexOf
<1>5. RightCommand'
  <2> SUFFICES ASSUME NEW q \in Procs
               PROVE  /\ pc'[q] # "idle" => command'[q] \in Commands
                      /\ pc'[q] = "has" => command'[q].op = "def"
                      /\ pc'[q] \in Writing => command'[q].op \in {"put", "def"}
                      /\ pc'[q] \in {"probe", "fetch"} => todo'[q] # <<>>
                      /\ pc'[q] = "cursor" => command'[q].op \in {"list", "spaces"}
                      /\ pc'[q] \in {"open", "attach"} /\ command'[q].op = "read"
                           => todo'[q] = command'[q].keys
    BY DEF RightCommand
  <2>1. CASE q = p
    BY <1>1, <1>2, <2>1 DEF BdbIInv, RightCommand, Writing
  <2>2. CASE q # p
    BY <1>1, <1>2, <2>2 DEF BdbIInv, RightCommand
  <2> QED  BY <2>1, <2>2
<1>6. RegionContents'
  <2>1. cache = disk
    BY DEF BdbIInv, RegionContents
  <2>2. \A q \in Procs : Live(q)' => q = p
    BY <1>2 DEF Live
  <2> QED  BY <1>1, <1>2, <2>1, <2>2 DEF RegionContents
<1>7. DefStillUndefined'
  <2>1. \A q \in Procs : Live(q)' => q = p
    BY <1>2 DEF Live
  <2> QED  BY <1>1, <1>2, <2>1 DEF DefStillUndefined, Writing
<1> QED  BY <1>3, <1>4, <1>5, <1>6, <1>7 DEF BdbIInv

LEMMA AttachDbsStep == ASSUME BdbIInv, NEW p \in Procs, AttachDbs(p)  PROVE BdbIInv'
<1> DEFINE there == FirstCall(command[p])
<1>1. command[p] \in Commands
  BY DEF AttachDbs, BdbIInv, RightCommand
<1>2. /\ there \in {"has", "index", "probe", "cursor", "close"}
      /\ there = "has" => command[p].op = "def"
      /\ there = "index" => command[p].op = "put"
      /\ there = "probe" => command[p].op = "read" /\ command[p].keys # <<>>
      /\ there = "cursor" => command[p].op \in {"list", "spaces"}
  BY <1>1, KnownCommands DEF FirstCall
<1>3. there = "probe" => todo[p] # <<>>
  BY <1>2 DEF AttachDbs, BdbIInv, RightCommand
<1>4. /\ Live(p) /\ pc[p] = "attach" /\ Goto(p, there)
      /\ UNCHANGED <<store, command, outcome, answer, todo>>
  BY DEF AttachDbs, client
<1>5. there \in Steps
  BY <1>2 DEF Steps
<1>6. /\ todo' \in [Procs -> Seq(Keys)]
      /\ answer' \in [Procs -> SUBSET ((Keys \X (Vals \cup {Undefined})) \cup Spaces)]
  BY <1>4 DEF BdbIInv, BdbTypeOK
<1> HIDE DEF there
<1> QED  BY <1>2, <1>3, <1>4, <1>5, <1>6, QuietStep

LEMMA HasStep == ASSUME BdbIInv, NEW p \in Procs, Has(p)  PROVE BdbIInv'
<1> DEFINE there == IF cache.master[command[p].key] = Undefined THEN "index" ELSE "close"
<1>1. /\ Live(p) /\ pc[p] = "has" /\ Goto(p, there)
      /\ UNCHANGED <<store, command, outcome, answer, todo>>
  BY DEF Has, client
<1>2. command[p].op = "def" /\ cache = disk
  BY <1>1 DEF BdbIInv, RightCommand, RegionContents
<1>3. there = "index" => disk.master[command[p].key] = Undefined
  BY <1>2
<1>4. there \in {"index", "close"} /\ there \in Steps
  BY DEF Steps
<1>5. /\ todo' \in [Procs -> Seq(Keys)]
      /\ answer' \in [Procs -> SUBSET ((Keys \X (Vals \cup {Undefined})) \cup Spaces)]
  BY <1>1 DEF BdbIInv, BdbTypeOK
<1> HIDE DEF there
<1> QED  BY <1>1, <1>2, <1>3, <1>4, <1>5, QuietStep

LEMMA MoreThanOne ==
  ASSUME NEW S, NEW s \in Seq(S), s # <<>>, Tail(s) = <<>>
  PROVE  Len(s) = 1
<1>1. Len(s) \in Nat /\ Len(s) # 0
  OBVIOUS
<1>2. Len(Tail(s)) = Len(s) - 1
  OBVIOUS
<1>3. Len(Tail(s)) = 0
  <2>1. Len(<<>>) = 0
    OBVIOUS
  <2> QED  BY <2>1, Zenon
<1> QED  BY <1>1, <1>2, <1>3

\* The process at the end of a lookup.
LEMMA LookupTyped ==
  ASSUME BdbIInv, NEW p \in Procs, pc[p] \in {"probe", "fetch"}
  PROVE  /\ Head(todo[p]) \in Keys
         /\ Tail(todo[p]) \in Seq(Keys)
         /\ AfterLookup(p) \in {"probe", "close"}
         /\ AfterLookup(p) = "probe" => Tail(todo[p]) # <<>>
<1>1. todo[p] \in Seq(Keys) /\ todo[p] # <<>>
  BY DEF BdbIInv, BdbTypeOK, RightCommand
<1>2. Len(todo[p]) # 1 => Tail(todo[p]) # <<>>
  BY <1>1, MoreThanOne
<1> QED  BY <1>1, <1>2 DEF AfterLookup

Told == SUBSET ((Keys \X (Vals \cup {Undefined})) \cup Spaces)

LEMMA AnswerTyped ==
  ASSUME BdbTypeOK, NEW p \in Procs, NEW fact \in (Keys \X (Vals \cup {Undefined})) \cup Spaces,
         Reports(p, fact)
  PROVE  answer' \in [Procs -> Told]
BY DEF BdbTypeOK, Reports, Told

LEMMA ProbeStep == ASSUME BdbIInv, NEW p \in Procs, Probe(p)  PROVE BdbIInv'
<1>1. /\ Live(p) /\ pc[p] = "probe" /\ UNCHANGED <<store, command, outcome>>
  BY DEF Probe
<1> DEFINE k == Head(todo[p])
<1>2. k \in Keys /\ Tail(todo[p]) \in Seq(Keys)
  BY <1>1, LookupTyped
<1>3. todo \in [Procs -> Seq(Keys)] /\ answer \in [Procs -> Told]
  BY DEF BdbIInv, BdbTypeOK, Told
<1>4. CASE cache.master[k] = Undefined
  <2>1. /\ Reports(p, <<k, Undefined>>)
        /\ todo' = [todo EXCEPT ![p] = Tail(@)]
        /\ Goto(p, AfterLookup(p))
    BY <1>4 DEF Probe
  <2>2. answer' \in [Procs -> Told]
    BY <1>2, <2>1, AnswerTyped DEF BdbIInv
  <2>3. /\ todo' \in [Procs -> Seq(Keys)] /\ todo'[p] = Tail(todo[p])
        /\ \A q \in Procs \ {p} : todo'[q] = todo[q]
    BY <1>2, <1>3, <2>1
  <2>4. /\ AfterLookup(p) \in {"probe", "close"} /\ AfterLookup(p) \in Steps
        /\ AfterLookup(p) = "probe" => todo'[p] # <<>>
    BY <1>1, <2>3, LookupTyped DEF Steps
  <2> QED  BY <1>1, <2>1, <2>2, <2>3, <2>4, QuietStep DEF Told
<1>5. CASE cache.master[k] # Undefined
  <2>1. Goto(p, "fetch") /\ UNCHANGED <<answer, todo>>
    BY <1>5 DEF Probe
  <2>2. todo[p] # <<>> /\ "fetch" \in Steps
    BY <1>1 DEF BdbIInv, RightCommand, Steps
  <2> QED  BY <1>1, <1>3, <2>1, <2>2, QuietStep DEF Told
<1> QED  BY <1>4, <1>5

LEMMA FetchStep == ASSUME BdbIInv, NEW p \in Procs, Fetch(p)  PROVE BdbIInv'
<1> DEFINE k == Head(todo[p])
<1>1. /\ Live(p) /\ pc[p] = "fetch" /\ UNCHANGED <<store, command, outcome>>
      /\ Reports(p, <<k, cache.master[k]>>)
      /\ todo' = [todo EXCEPT ![p] = Tail(@)]
      /\ Goto(p, AfterLookup(p))
  BY DEF Fetch
<1>2. k \in Keys /\ Tail(todo[p]) \in Seq(Keys)
  BY <1>1, LookupTyped
<1>3. cache.master[k] \in Vals \cup {Undefined}
  BY <1>2 DEF BdbIInv, BdbTypeOK, Databases
<1>4. answer' \in [Procs -> Told]
  BY <1>1, <1>2, <1>3, AnswerTyped DEF BdbIInv
<1>5. /\ todo' \in [Procs -> Seq(Keys)] /\ todo'[p] = Tail(todo[p])
      /\ \A q \in Procs \ {p} : todo'[q] = todo[q]
  BY <1>1, <1>2 DEF BdbIInv, BdbTypeOK
<1>6. /\ AfterLookup(p) \in {"probe", "close"} /\ AfterLookup(p) \in Steps
      /\ AfterLookup(p) = "probe" => todo'[p] # <<>>
  BY <1>1, <1>5, LookupTyped DEF Steps
<1> QED  BY <1>1, <1>4, <1>5, <1>6, QuietStep DEF Told

\* What a listing tells are variables with their values, or namespaces.
LEMMA ListingTyped ==
  ASSUME BdbTypeOK, NEW c
  PROVE  Listing(c) \subseteq (Keys \X (Vals \cup {Undefined})) \cup Spaces
BY DEF BdbTypeOK, Databases, Listing

LEMMA CursorNextStep == ASSUME BdbIInv, NEW p \in Procs, CursorNext(p)  PROVE BdbIInv'
<1>1. /\ Live(p) /\ pc[p] = "cursor" /\ UNCHANGED <<store, pc, command, todo, outcome>>
  BY DEF CursorNext
<1>2. PICK fact \in Listing(command[p]) : Reports(p, fact)
  BY DEF CursorNext
<1>3. answer' \in [Procs -> Told]
  BY <1>2, ListingTyped, AnswerTyped DEF BdbIInv
<1>4. /\ BdbTypeOK /\ pc \in [Procs -> Steps] /\ todo' \in [Procs -> Seq(Keys)]
  BY <1>1 DEF BdbIInv, BdbTypeOK
<1>5. Goto(p, "cursor") /\ "cursor" \in Steps
  BY <1>1, <1>4 DEF Goto, Steps
<1>6. command[p].op \in {"list", "spaces"}
  BY <1>1 DEF BdbIInv, RightCommand
<1> QED  BY <1>1, <1>3, <1>4, <1>5, <1>6, QuietStep DEF Told

LEMMA CursorEndStep == ASSUME BdbIInv, NEW p \in Procs, CursorEnd(p)  PROVE BdbIInv'
<1>1. /\ Live(p) /\ pc[p] = "cursor" /\ Goto(p, "close")
      /\ UNCHANGED <<store, command, outcome, answer, todo>>
  BY DEF CursorEnd, client
<1>2. /\ todo' \in [Procs -> Seq(Keys)] /\ answer' \in [Procs -> Told]
  BY <1>1 DEF BdbIInv, BdbTypeOK, Told
<1>3. "close" \in Steps
  BY DEF Steps
<1> QED  BY <1>1, <1>2, <1>3, QuietStep DEF Told

-----------------------------------------------------------------------------
LEMMA RunStep == ASSUME BdbIInv, NEW p \in Procs, Run(p)  PROVE BdbIInv'
<1>1. /\ pc[p] = "idle" /\ Goto(p, "open") /\ UNCHANGED <<store, answer>>
      /\ outcome' = [outcome EXCEPT ![p] = "none"]
  BY DEF Run
<1>2. PICK c \in Commands :
        /\ command' = [command EXCEPT ![p] = c]
        /\ todo' = [todo EXCEPT ![p] = IF c.op = "read" THEN c.keys ELSE <<>>]
  BY DEF Run
<1>3. /\ pc' \in [Procs -> Steps] /\ pc'[p] = "open"
      /\ \A q \in Procs \ {p} : pc'[q] = pc[q]
  <2>1. "open" \in Steps
    BY DEF Steps
  <2> QED  BY <1>1, <2>1, MoveOne DEF BdbIInv
<1>4. disk' = disk /\ cache' = cache /\ region' = region
  BY <1>1 DEF store
<1>5. (IF c.op = "read" THEN c.keys ELSE <<>>) \in Seq(Keys)
  BY ReadCommands
<1>6. BdbTypeOK'
  BY <1>1, <1>2, <1>3, <1>4, <1>5 DEF BdbIInv, BdbTypeOK
<1>7. IndexMatchesMaster'
  BY <1>4 DEF BdbIInv, IndexMatchesMaster, IndexOf
<1>8. /\ command'[p] = c /\ todo'[p] = IF c.op = "read" THEN c.keys ELSE <<>>
      /\ \A q \in Procs \ {p} : command'[q] = command[q] /\ todo'[q] = todo[q]
  BY <1>2 DEF BdbIInv, BdbTypeOK
<1>9. RightCommand'
  BY <1>3, <1>8 DEF BdbIInv, RightCommand, Writing
<1>10. RegionContents'
  BY <1>3, <1>4, <1>8 DEF BdbIInv, RegionContents, Live
<1>11. DefStillUndefined'
  BY <1>3, <1>4, <1>8 DEF BdbIInv, DefStillUndefined, Live, Writing
<1> QED  BY <1>6, <1>7, <1>9, <1>10, <1>11 DEF BdbIInv

LEMMA OpenEnvStep == ASSUME BdbIInv, NEW p \in Procs, OpenEnv(p)  PROVE BdbIInv'
<1>1. /\ pc[p] = "open" /\ cache' = disk /\ region' = p /\ Goto(p, "attach")
      /\ disk' = disk /\ command' = command /\ answer' = answer
      /\ outcome' = outcome /\ todo' = todo
  BY DEF OpenEnv, client
<1>2. /\ pc' \in [Procs -> Steps] /\ pc'[p] = "attach"
      /\ \A q \in Procs \ {p} : pc'[q] = pc[q]
  <2>1. "attach" \in Steps
    BY DEF Steps
  <2> QED  BY <1>1, <2>1, MoveOne DEF BdbIInv
<1>3. BdbTypeOK'
  BY <1>1, <1>2 DEF BdbIInv, BdbTypeOK
<1>4. IndexMatchesMaster'
  BY <1>1 DEF BdbIInv, IndexMatchesMaster, IndexOf
<1>5. RightCommand'
  BY <1>1, <1>2 DEF BdbIInv, RightCommand, Writing
<1>6. RegionContents'
  BY <1>1, <1>2 DEF RegionContents, Live
<1>7. DefStillUndefined'
  BY <1>1, <1>2 DEF DefStillUndefined, Live, Writing
<1> QED  BY <1>3, <1>4, <1>5, <1>6, <1>7 DEF BdbIInv

\* The three steps of a put change the store and the place of the process, nothing else.
LEMMA PutStep ==
  ASSUME BdbIInv, NEW p \in Procs, pc[p] \in Writing, Live(p),
         NEW there \in {"master", "commit", "close"}, Goto(p, there),
         UNCHANGED <<region, client, todo>>
  PROVE  /\ pc' \in [Procs -> Steps] /\ pc'[p] = there
         /\ \A q \in Procs \ {p} : pc'[q] = pc[q]
         /\ disk' \in Databases /\ cache' \in Databases => BdbTypeOK'
         /\ RightCommand'
         /\ command' = command
         /\ \A q \in Procs : Live(q)' => q = p
         /\ command[p].op \in {"put", "def"} /\ command[p] \in Commands
<1>1. there \in Steps
  BY DEF Steps
<1>2. /\ pc' \in [Procs -> Steps] /\ pc'[p] = there
      /\ \A q \in Procs \ {p} : pc'[q] = pc[q]
  BY <1>1, MoveOne DEF BdbIInv
<1>3. /\ region' = region /\ command' = command /\ answer' = answer
      /\ outcome' = outcome /\ todo' = todo
  BY DEF client
<1>4. disk' \in Databases /\ cache' \in Databases => BdbTypeOK'
  BY <1>2, <1>3 DEF BdbIInv, BdbTypeOK
<1>5. RightCommand'
  BY <1>2, <1>3 DEF BdbIInv, RightCommand, Writing
<1>6. \A q \in Procs : Live(q)' => q = p
  BY <1>3 DEF Live
<1>7. command[p].op \in {"put", "def"} /\ command[p] \in Commands
  BY DEF BdbIInv, RightCommand, Writing
<1> QED  BY <1>2, <1>3, <1>4, <1>5, <1>6, <1>7

LEMMA PutIndexStep == ASSUME BdbIInv, NEW p \in Procs, PutIndex(p)  PROVE BdbIInv'
<1>1. /\ pc[p] = "index" /\ Live(p) /\ Goto(p, "master")
      /\ UNCHANGED <<region, client, todo>> /\ disk' = disk
      /\ cache' = [cache EXCEPT !.index = @ \cup {Entry(command[p])}]
  BY DEF PutIndex, Entry
<1>2. /\ pc'[p] = "master" /\ \A q \in Procs \ {p} : pc'[q] = pc[q]
      /\ disk' \in Databases /\ cache' \in Databases => BdbTypeOK'
      /\ RightCommand' /\ command' = command
      /\ \A q \in Procs : Live(q)' => q = p
      /\ command[p].op \in {"put", "def"} /\ command[p] \in Commands
  BY <1>1, PutStep DEF Writing
<1>3. cache = disk /\ cache \in Databases
  BY <1>1 DEF BdbIInv, BdbTypeOK, RegionContents
<1>4. Entry(command[p]) \in Spaces \X Keys
  BY <1>2, EntryType
<1>5. /\ cache' \in Databases /\ cache'.master = disk.master
      /\ cache'.index = disk.index \cup {Entry(command[p])}
  BY <1>1, <1>3, <1>4 DEF Databases
<1>6. BdbTypeOK'
  BY <1>1, <1>2, <1>3, <1>5
<1>7. IndexMatchesMaster'
  BY <1>1 DEF BdbIInv, IndexMatchesMaster, IndexOf
<1>8. RegionContents'
  BY <1>1, <1>2, <1>5 DEF RegionContents, Entry
<1>9. DefStillUndefined'
  BY <1>1, <1>2 DEF BdbIInv, DefStillUndefined, Writing
<1> QED  BY <1>2, <1>6, <1>7, <1>8, <1>9 DEF BdbIInv

LEMMA PutMasterStep == ASSUME BdbIInv, NEW p \in Procs, PutMaster(p)  PROVE BdbIInv'
<1>1. /\ pc[p] = "master" /\ Live(p) /\ Goto(p, "commit")
      /\ UNCHANGED <<region, client, todo>> /\ disk' = disk
      /\ cache' = [cache EXCEPT !.master[command[p].key] = command[p].val]
  BY DEF PutMaster
<1>2. /\ pc'[p] = "commit" /\ \A q \in Procs \ {p} : pc'[q] = pc[q]
      /\ disk' \in Databases /\ cache' \in Databases => BdbTypeOK'
      /\ RightCommand' /\ command' = command
      /\ \A q \in Procs : Live(q)' => q = p
      /\ command[p].op \in {"put", "def"} /\ command[p] \in Commands
  BY <1>1, PutStep DEF Writing
<1>3. /\ cache \in Databases /\ disk \in Databases /\ cache.master = disk.master
      /\ cache.index = disk.index \cup {Entry(command[p])}
  BY <1>1 DEF BdbIInv, BdbTypeOK, RegionContents
<1>4. command[p].key \in Keys /\ command[p].val \in Vals
  BY <1>2, WriteCommands
<1>5. /\ cache' \in Databases /\ cache'.index = cache.index
      /\ cache'.master = [disk.master EXCEPT ![command[p].key] = command[p].val]
  BY <1>1, <1>3, <1>4 DEF Databases
<1>6. BdbTypeOK'
  BY <1>1, <1>2, <1>3, <1>5
<1>7. IndexMatchesMaster'
  BY <1>1 DEF BdbIInv, IndexMatchesMaster, IndexOf
<1>8. RegionContents'
  BY <1>1, <1>2, <1>3, <1>5 DEF RegionContents, Entry
<1>9. DefStillUndefined'
  BY <1>1, <1>2 DEF BdbIInv, DefStillUndefined, Writing
<1> QED  BY <1>2, <1>6, <1>7, <1>8, <1>9 DEF BdbIInv

LEMMA CommitStep == ASSUME BdbIInv, NEW p \in Procs, Commit(p)  PROVE BdbIInv'
<1>1. /\ pc[p] = "commit" /\ Live(p) /\ Goto(p, "close")
      /\ UNCHANGED <<region, client, todo>> /\ disk' = cache /\ cache' = cache
  BY DEF Commit
<1>2. /\ pc'[p] = "close" /\ \A q \in Procs \ {p} : pc'[q] = pc[q]
      /\ disk' \in Databases /\ cache' \in Databases => BdbTypeOK'
      /\ RightCommand' /\ command' = command
      /\ \A q \in Procs : Live(q)' => q = p
      /\ command[p].op \in {"put", "def"} /\ command[p] \in Commands
  BY <1>1, PutStep DEF Writing
<1> DEFINE k == command[p].key
           v == command[p].val
<1>3. /\ cache \in Databases /\ disk \in Databases
      /\ cache.master = [disk.master EXCEPT ![k] = v]
      /\ cache.index = disk.index \cup {<<IndexPackage(k), k>>}
  BY <1>1 DEF BdbIInv, BdbTypeOK, RegionContents, Entry
<1>4. k \in Keys /\ v \in Vals
  BY <1>2, WriteCommands
<1>5. BdbTypeOK'
  BY <1>1, <1>2, <1>3
<1> HIDE DEF k, v
<1>6. IndexMatchesMaster'
  <2>1. disk.master \in [Keys -> Vals \cup {Undefined}] /\ disk.index = IndexOf(disk.master)
    BY <1>3 DEF Databases, BdbIInv, IndexMatchesMaster
  <2>2. cache.index = IndexOf(cache.master)
    BY <1>3, <1>4, <2>1, IndexAfterPut
  <2> QED  BY <1>1, <2>2 DEF IndexMatchesMaster, IndexOf
<1>7. RegionContents'
  BY <1>1, <1>2 DEF RegionContents
<1>8. DefStillUndefined'
  BY <1>2 DEF DefStillUndefined, Writing
<1> QED  BY <1>2, <1>5, <1>6, <1>7, <1>8 DEF BdbIInv

-----------------------------------------------------------------------------
LEMMA EndsStep ==
  ASSUME BdbIInv, NEW p \in Procs, pc[p] # "idle",
         NEW how \in {"success", "fenced", "crashed"}, Ends(p, how)
  PROVE  BdbIInv'
<1>1. /\ outcome' = [outcome EXCEPT ![p] = how]
      /\ command' = [command EXCEPT ![p] = NoCommand]
      /\ answer' = [answer EXCEPT ![p] = {}]
      /\ todo' = [todo EXCEPT ![p] = <<>>]
      /\ Goto(p, "idle") /\ disk' = disk /\ cache' = cache /\ region' = region
  BY DEF Ends, store
<1>2. /\ pc' \in [Procs -> Steps] /\ pc'[p] = "idle"
      /\ \A q \in Procs \ {p} : pc'[q] = pc[q]
  <2>1. "idle" \in Steps
    BY DEF Steps
  <2> QED  BY <1>1, <2>1, MoveOne DEF BdbIInv
<1>3. BdbTypeOK'
  <2>1. /\ command' \in [Procs -> Commands \cup {NoCommand}]
        /\ outcome' \in [Procs -> {"none", "success", "fenced", "crashed"}]
    BY <1>1 DEF BdbIInv, BdbTypeOK
  <2>2. todo' \in [Procs -> Seq(Keys)]
    BY <1>1 DEF BdbIInv, BdbTypeOK
  <2>3. answer' \in [Procs -> Told]
    BY <1>1 DEF BdbIInv, BdbTypeOK, Told
  <2> QED  BY <1>1, <1>2, <2>1, <2>2, <2>3 DEF BdbIInv, BdbTypeOK, Told
<1>4. IndexMatchesMaster'
  BY <1>1 DEF BdbIInv, IndexMatchesMaster, IndexOf
<1>5. \A q \in Procs \ {p} : command'[q] = command[q] /\ todo'[q] = todo[q]
  BY <1>1 DEF BdbIInv, BdbTypeOK
<1>6. RightCommand'
  BY <1>2, <1>5 DEF BdbIInv, RightCommand, Writing
<1>7. RegionContents'
  BY <1>1, <1>2, <1>5 DEF BdbIInv, RegionContents, Live
<1>8. DefStillUndefined'
  BY <1>1, <1>2, <1>5 DEF BdbIInv, DefStillUndefined, Live, Writing
<1> QED  BY <1>3, <1>4, <1>6, <1>7, <1>8 DEF BdbIInv

LEMMA StutterBdb == ASSUME BdbIInv, UNCHANGED bdbVars  PROVE BdbIInv'
<1>1. /\ disk' = disk /\ cache' = cache /\ region' = region /\ pc' = pc /\ todo' = todo
      /\ command' = command /\ answer' = answer /\ outcome' = outcome
  BY DEF bdbVars
<1> QED
  BY <1>1
  DEF BdbIInv, BdbTypeOK, IndexMatchesMaster, IndexOf, RightCommand, RegionContents,
      DefStillUndefined, Live

LEMMA NextBdbIInv == BdbIInv /\ [BdbNext]_bdbVars => BdbIInv'
<1> SUFFICES ASSUME BdbIInv, [BdbNext]_bdbVars  PROVE BdbIInv'
  OBVIOUS
<1>1. ASSUME NEW p \in Procs, Run(p)  PROVE BdbIInv'
  BY <1>1, RunStep
<1>2. ASSUME NEW p \in Procs, Step(p)  PROVE BdbIInv'
  <2>1. CASE OpenEnv(p)     BY <2>1, OpenEnvStep
  <2>2. CASE AttachDbs(p)   BY <2>2, AttachDbsStep
  <2>3. CASE Has(p)         BY <2>3, HasStep
  <2>4. CASE PutIndex(p)    BY <2>4, PutIndexStep
  <2>5. CASE PutMaster(p)   BY <2>5, PutMasterStep
  <2>6. CASE Commit(p)      BY <2>6, CommitStep
  <2>7. CASE Probe(p)       BY <2>7, ProbeStep
  <2>8. CASE Fetch(p)       BY <2>8, FetchStep
  <2>9. CASE CursorNext(p)  BY <2>9, CursorNextStep
  <2>10. CASE CursorEnd(p)  BY <2>10, CursorEndStep
  <2>11. CASE Close(p)
    <3>1. pc[p] # "idle" /\ Ends(p, "success")
      BY <2>11 DEF Close
    <3> QED  BY <3>1, EndsStep
  <2>12. CASE Fenced(p)
    <3>1. pc[p] # "idle" /\ Ends(p, "fenced")
      BY <2>12 DEF Fenced
    <3> QED  BY <3>1, EndsStep
  <2> QED
    BY <1>2, <2>1, <2>2, <2>3, <2>4, <2>5, <2>6, <2>7, <2>8, <2>9, <2>10, <2>11, <2>12
    DEF Step
<1>3. ASSUME NEW p \in Procs, Crash(p)  PROVE BdbIInv'
  <2>1. pc[p] # "idle" /\ Ends(p, "crashed")
    BY <1>3 DEF Crash
  <2> QED  BY <2>1, EndsStep
<1>4. CASE UNCHANGED bdbVars
  BY <1>4, StutterBdb
<1> QED  BY <1>1, <1>2, <1>3, <1>4 DEF BdbNext

LEMMA BdbInvariance == BdbSpec => []BdbIInv
BY InitBdbIInv, NextBdbIInv, PTL DEF BdbSpec

-----------------------------------------------------------------------------
(***************************************************************************)
(* The store keeps its types, and no process prints anything that is not a *)
(* variable, a value or a namespace.                                       *)
(***************************************************************************)
THEOREM BdbTypeCorrect == BdbSpec => []BdbTypeOK
<1>1. BdbIInv => BdbTypeOK
  BY DEF BdbIInv
<1> QED  BY <1>1, BdbInvariance, PTL

(***************************************************************************)
(* Whichever processes are killed or fenced in a put, the committed index  *)
(* holds exactly the defined variables.                                    *)
(***************************************************************************)
THEOREM IndexCorrect == BdbSpec => []IndexMatchesMaster
<1>1. BdbIInv => IndexMatchesMaster
  BY DEF BdbIInv
<1> QED  BY <1>1, BdbInvariance, PTL

(***************************************************************************)
(* The process that may use the store reads the committed state.           *)
(***************************************************************************)
THEOREM ReadsCommitted == BdbSpec => []LiveReadsCommitted
<1>1. BdbIInv => LiveReadsCommitted
  BY DEF BdbIInv, RegionContents, LiveReadsCommitted
<1> QED  BY <1>1, BdbInvariance, PTL

\* The committed state changes by a commit, which writes one variable.
LEMMA DiskChangesByCommit ==
  ASSUME BdbIInv, [BdbNext]_bdbVars, disk' # disk
  PROVE  \E p \in Procs : /\ pc[p] = "commit" /\ Live(p)
                          /\ disk'.master = [disk.master EXCEPT ![command[p].key] = command[p].val]
<1>1. PICK p \in Procs : Run(p) \/ Step(p) \/ Crash(p)
  BY DEF BdbNext, bdbVars
<1>2. Commit(p)
  BY <1>1
  DEF Run, Step, Crash, OpenEnv, AttachDbs, Has, PutIndex, PutMaster, Probe, Fetch,
      CursorNext, CursorEnd, Close, Fenced, Ends, store
<1> QED  BY <1>2 DEF Commit, BdbIInv, RegionContents

(***************************************************************************)
(* def, which looks first and writes later, never overwrites a value that  *)
(* another process put between the two.                                    *)
(***************************************************************************)
THEOREM DefNeverOverwrites == BdbSpec => OnlyPutOverwrites
<1>1. ASSUME BdbIInv, [BdbNext]_bdbVars  PROVE [OverwrittenByPut]_bdbVars
  <2> SUFFICES ASSUME NEW k \in Keys, disk.master[k] # Undefined,
                      disk'.master[k] # disk.master[k]
               PROVE  \E p \in Procs : /\ command[p].op = "put"
                                       /\ command[p].key = k
                                       /\ command[p].val = disk'.master[k]
    BY DEF OverwrittenByPut
  <2>1. PICK p \in Procs :
          /\ pc[p] = "commit" /\ Live(p)
          /\ disk'.master = [disk.master EXCEPT ![command[p].key] = command[p].val]
    BY <1>1, DiskChangesByCommit
  <2>2. disk.master \in [Keys -> Vals \cup {Undefined}]
    BY <1>1 DEF BdbIInv, BdbTypeOK, Databases
  <2>3. k = command[p].key /\ disk'.master[k] = command[p].val
    BY <2>1, <2>2
  <2>4. command[p].op = "put"
    BY <1>1, <2>1, <2>3 DEF BdbIInv, RightCommand, DefStillUndefined, Writing
  <2> QED  BY <2>3, <2>4
<1> QED  BY <1>1, BdbInvariance, PTL DEF BdbSpec, OnlyPutOverwrites
=============================================================================

------------------------ MODULE BdbRefinement_proofs ------------------------
(***************************************************************************)
(* The proof that the store implements the environment the commands are    *)
(* written for: every run of BdbEnvironment, with the operations of any    *)
(* number of processes cut short and interleaved, is one of Environment,   *)
(* where each command takes effect at one instant.                         *)
(***************************************************************************)
EXTENDS BdbEnvironment_proofs, SequenceTheorems

\* What the lookups of the variables s answer when their values are m.
Lookups(s, m) == {<<s[i], m[s[i]]>> : i \in 1 .. Len(s)}

(***************************************************************************)
(* What a process has been told before its command took effect: nothing,   *)
(* or a part of the answer it would get now.                               *)
(***************************************************************************)
AnswerFor(p) ==
  /\ pc[p] \in {"idle", "open", "attach", "has"} \cup Writing => answer[p] = {}
  /\ Live(p) /\ pc[p] \in {"probe", "fetch"} =>
       /\ command[p].op = "read"
       /\ answer[p] \cup Lookups(todo[p], disk.master)
            = Lookups(command[p].keys, disk.master)
  /\ Live(p) /\ pc[p] = "cursor" => answer[p] \subseteq Abstract!Reply(command[p])

AnswerSoFar == \A p \in Procs : AnswerFor(p)

RefinementInv == BdbIInv /\ AnswerSoFar

-----------------------------------------------------------------------------
\* The first of several lookups, and the others.
LEMMA LookupsStep ==
  ASSUME NEW S, NEW s \in Seq(S), s # <<>>, NEW m
  PROVE  Lookups(s, m) = {<<Head(s), m[Head(s)]>>} \cup Lookups(Tail(s), m)
<1>1. /\ Len(s) \in Nat /\ Len(s) > 0 /\ Len(Tail(s)) = Len(s) - 1
      /\ Head(s) = s[1]
      /\ \A i \in 1 .. Len(s) - 1 : Tail(s)[i] = s[i + 1]
  OBVIOUS
<1>2. ASSUME NEW x \in Lookups(s, m)
      PROVE  x \in {<<Head(s), m[Head(s)]>>} \cup Lookups(Tail(s), m)
  <2>1. PICK i \in 1 .. Len(s) : x = <<s[i], m[s[i]]>>
    BY <1>2 DEF Lookups
  <2>2. CASE i = 1
    BY <1>1, <2>1, <2>2
  <2>3. CASE i # 1
    <3>1. i - 1 \in 1 .. Len(Tail(s)) /\ Tail(s)[i - 1] = s[i]
      BY <1>1, <2>1, <2>3
    <3> QED  BY <2>1, <3>1 DEF Lookups
  <2> QED  BY <2>2, <2>3
<1>3. ASSUME NEW x \in {<<Head(s), m[Head(s)]>>} \cup Lookups(Tail(s), m)
      PROVE  x \in Lookups(s, m)
  <2>1. CASE x = <<Head(s), m[Head(s)]>>
    <3>1. 1 \in 1 .. Len(s)
      BY <1>1
    <3> QED  BY <1>1, <2>1, <3>1 DEF Lookups
  <2>2. CASE x \in Lookups(Tail(s), m)
    <3>1. PICK i \in 1 .. Len(Tail(s)) : x = <<Tail(s)[i], m[Tail(s)[i]]>>
      BY <2>2 DEF Lookups
    <3>2. i + 1 \in 1 .. Len(s) /\ Tail(s)[i] = s[i + 1]
      BY <1>1, <3>1
    <3> QED  BY <3>1, <3>2 DEF Lookups
  <2> QED  BY <1>3, <2>1, <2>2
<1> QED  BY <1>2, <1>3

LEMMA LookupsOfNone == ASSUME NEW m  PROVE Lookups(<<>>, m) = {}
<1>1. Len(<<>>) = 0
  OBVIOUS
<1> QED  BY <1>1 DEF Lookups

LEMMA SingletonTail ==
  ASSUME NEW S, NEW s \in Seq(S), Len(s) = 1
  PROVE  Tail(s) = <<>>
<1>1. Tail(s) \in Seq(S) /\ Len(Tail(s)) = 0
  OBVIOUS
<1> QED  BY <1>1, EmptySeq

\* The listings of the committed state are what the environment promises.
LEMMA ListingIsReply ==
  ASSUME BdbIInv, cache = disk, NEW c \in Commands, c.op \in {"list", "spaces"}
  PROVE  Listing(c) = Abstract!Reply(c)
<1>1. cache.index = {<<k[1], k>> : k \in {k \in Keys : disk.master[k] # Undefined}}
  BY DEF BdbIInv, IndexMatchesMaster, IndexOf, IndexPackage
<1>2. CASE c.op = "list"
  <2>1. Listing(c) = {<<e[2], disk.master[e[2]]>> : e \in {e \in cache.index : e[1] = c.ns}}
    BY <1>2 DEF Listing
  <2>2. Abstract!Reply(c)
          = {<<k, disk.master[k]>> : k \in {k \in Keys : disk.master[k] # Undefined /\ k[1] = c.ns}}
    BY <1>2 DEF Abstract!Reply, Abstract!Defined
  <2>3. ASSUME NEW x \in Listing(c)  PROVE x \in Abstract!Reply(c)
    <3>1. PICK e \in cache.index : e[1] = c.ns /\ x = <<e[2], disk.master[e[2]]>>
      BY <2>1, <2>3
    <3>2. PICK k \in Keys : disk.master[k] # Undefined /\ e = <<k[1], k>>
      BY <1>1, <3>1
    <3>3. k[1] = c.ns /\ x = <<k, disk.master[k]>>
      BY <3>1, <3>2
    <3> QED  BY <2>2, <3>2, <3>3
  <2>4. ASSUME NEW x \in Abstract!Reply(c)  PROVE x \in Listing(c)
    <3>1. PICK k \in Keys : disk.master[k] # Undefined /\ k[1] = c.ns /\ x = <<k, disk.master[k]>>
      BY <2>2, <2>4
    <3> DEFINE e == <<k[1], k>>
    <3>2. e \in cache.index /\ e[1] = c.ns /\ x = <<e[2], disk.master[e[2]]>>
      BY <1>1, <3>1
    <3> HIDE DEF e
    <3> QED  BY <2>1, <3>2
  <2> QED  BY <2>3, <2>4
<1>3. CASE c.op = "spaces"
  <2>1. Listing(c) = {e[1] : e \in cache.index}
    BY <1>3 DEF Listing
  <2>2. Abstract!Reply(c) = {k[1] : k \in {k \in Keys : disk.master[k] # Undefined}}
    BY <1>3 DEF Abstract!Reply, Abstract!Defined
  <2>3. ASSUME NEW x \in Listing(c)  PROVE x \in Abstract!Reply(c)
    BY <1>1, <2>1, <2>2, <2>3
  <2>4. ASSUME NEW x \in Abstract!Reply(c)  PROVE x \in Listing(c)
    <3>1. PICK k \in Keys : disk.master[k] # Undefined /\ x = k[1]
      BY <2>2, <2>4
    <3> DEFINE e == <<k[1], k>>
    <3>2. e \in cache.index /\ x = e[1]
      BY <1>1, <3>1
    <3> HIDE DEF e
    <3> QED  BY <2>1, <3>2
  <2> QED  BY <2>3, <2>4
<1> QED  BY <1>2, <1>3

LEMMA ReadReply ==
  ASSUME NEW c \in Commands, c.op = "read"
  PROVE  Abstract!Reply(c) = Lookups(c.keys, disk.master)
BY DEF Abstract!Reply, Lookups

LEMMA WriteReply ==
  ASSUME NEW c \in Commands, c.op \in {"put", "def"}
  PROVE  Abstract!Reply(c) = {}
BY DEF Abstract!Reply

LEMMA ReadEffect ==
  ASSUME NEW c \in Commands, c.op \in {"read", "list", "spaces"}
  PROVE  Abstract!Effect(c) = disk.master
BY DEF Abstract!Effect

-----------------------------------------------------------------------------
\* A process that does not move, and whose store does not change.
LEMMA OthersAnswers ==
  ASSUME AnswerSoFar, NEW q \in Procs, pc'[q] = pc[q], todo'[q] = todo[q],
         command'[q] = command[q], answer'[q] = answer[q],
         Live(q)' => Live(q) /\ disk' = disk
  PROVE  AnswerFor(q)'
BY DEF AnswerSoFar, AnswerFor, Lookups, Abstract!Reply, Abstract!Defined

\* A step of p that leaves the region to its owner, and everything of the others alone.
Steady(p) == /\ region' = region
             /\ disk' = disk \/ Live(p)
             /\ \A q \in Procs \ {p} : /\ pc'[q] = pc[q]
                                       /\ todo'[q] = todo[q]
                                       /\ command'[q] = command[q]
                                       /\ answer'[q] = answer[q]

LEMMA SteadyStep ==
  ASSUME AnswerSoFar, NEW p \in Procs, Steady(p), AnswerFor(p)'
  PROVE  AnswerSoFar'
<1> SUFFICES ASSUME NEW q \in Procs  PROVE AnswerFor(q)'
  BY DEF AnswerSoFar
<1>1. CASE q = p
  BY <1>1
<1>2. CASE q # p
  <2>1. Live(q)' => Live(q) /\ disk' = disk
    BY <1>2 DEF Steady, Live
  <2> QED  BY <1>2, <2>1, OthersAnswers DEF Steady
<1> QED  BY <1>1, <1>2

\* Every step but that of OpenEnv is steady.
LEMMA StepsAreSteady ==
  ASSUME BdbTypeOK, NEW p \in Procs, Run(p) \/ (Step(p) /\ ~OpenEnv(p)) \/ Crash(p)
  PROVE  Steady(p)
<1>1. /\ \A q \in Procs \ {p} : pc'[q] = pc[q]
      /\ region' = region /\ (disk' = disk \/ Live(p))
  BY DEF BdbTypeOK, Run, Step, Crash, AttachDbs, Has, PutIndex, PutMaster, Commit, Probe,
         Fetch, CursorNext, CursorEnd, Close, Fenced, Ends, store, Goto
<1>2. \A q \in Procs \ {p} : command'[q] = command[q] /\ todo'[q] = todo[q]
  BY DEF BdbTypeOK, Run, Step, Crash, AttachDbs, Has, PutIndex, PutMaster, Commit, Probe,
         Fetch, CursorNext, CursorEnd, Close, Fenced, Ends, client
<1>3. \A q \in Procs \ {p} : answer'[q] = answer[q]
  BY DEF BdbTypeOK, Run, Step, Crash, AttachDbs, Has, PutIndex, PutMaster, Commit, Probe,
         Fetch, CursorNext, CursorEnd, Close, Fenced, Ends, client, Reports
<1> QED  BY <1>1, <1>2, <1>3 DEF Steady

\* A lookup: the fact is the variable's committed value.
LEMMA LookupFact ==
  ASSUME RefinementInv, NEW p \in Procs, Live(p), pc[p] \in {"probe", "fetch"},
         NEW v, v = cache.master[Head(todo[p])], Reports(p, <<Head(todo[p]), v>>)
  PROVE  /\ command[p].op = "read"
         /\ answer'[p] \cup Lookups(Tail(todo[p]), disk.master)
              = Lookups(command[p].keys, disk.master)
<1>1. cache = disk
  BY DEF RefinementInv, BdbIInv, RegionContents
<1>2. todo[p] \in Seq(Keys) /\ todo[p] # <<>>
  BY DEF RefinementInv, BdbIInv, BdbTypeOK, RightCommand
<1>3. answer'[p] = answer[p] \cup {<<Head(todo[p]), disk.master[Head(todo[p])]>>}
  BY <1>1 DEF RefinementInv, BdbIInv, BdbTypeOK, Reports
<1>4. /\ command[p].op = "read"
      /\ answer[p] \cup Lookups(todo[p], disk.master) = Lookups(command[p].keys, disk.master)
  BY DEF RefinementInv, AnswerSoFar, AnswerFor
<1>5. Lookups(todo[p], disk.master)
        = {<<Head(todo[p]), disk.master[Head(todo[p])]>>} \cup Lookups(Tail(todo[p]), disk.master)
  BY <1>2, LookupsStep
<1> QED  BY <1>3, <1>4, <1>5

LEMMA AttachAnswers ==
  ASSUME RefinementInv, NEW p \in Procs, AttachDbs(p)
  PROVE  AnswerFor(p)'
<1>1. /\ pc[p] = "attach" /\ pc'[p] = FirstCall(command[p]) /\ command[p] \in Commands
      /\ disk' = disk /\ command' = command /\ answer' = answer /\ todo' = todo
  BY DEF AttachDbs, RefinementInv, BdbIInv, BdbTypeOK, RightCommand, store, client, Goto
<1>2. answer[p] = {}
  BY <1>1 DEF RefinementInv, AnswerSoFar, AnswerFor
<1>3. CASE command[p].op = "read"
  <2>1. todo[p] = command[p].keys /\ FirstCall(command[p]) \in {"close", "probe"}
    BY <1>1, <1>3 DEF RefinementInv, BdbIInv, RightCommand, FirstCall
  <2> QED  BY <1>1, <1>2, <1>3, <2>1 DEF AnswerFor, Writing
<1>4. CASE command[p].op # "read"
  <2>1. FirstCall(command[p]) \in {"index", "has", "cursor"}
    BY <1>1, <1>4, KnownCommands DEF FirstCall
  <2> QED  BY <1>1, <1>2, <2>1 DEF AnswerFor, Writing
<1> QED  BY <1>3, <1>4

LEMMA ProbeAnswers ==
  ASSUME RefinementInv, NEW p \in Procs, Probe(p)
  PROVE  AnswerFor(p)'
<1> DEFINE k == Head(todo[p])
<1>1. /\ Live(p) /\ pc[p] = "probe" /\ disk' = disk /\ command' = command
      /\ pc \in [Procs -> Steps] /\ todo \in [Procs -> Seq(Keys)]
  BY DEF Probe, RefinementInv, BdbIInv, BdbTypeOK, store
<1>2. CASE cache.master[k] = Undefined
  <2>1. /\ Reports(p, <<k, Undefined>>) /\ todo'[p] = Tail(todo[p])
        /\ pc'[p] = AfterLookup(p)
    BY <1>1, <1>2 DEF Probe, Goto
  <2>2. /\ command[p].op = "read"
        /\ answer'[p] \cup Lookups(Tail(todo[p]), disk.master)
             = Lookups(command[p].keys, disk.master)
    BY <1>1, <1>2, <2>1, LookupFact
  <2>3. pc'[p] \in {"probe", "close"}
    BY <1>1, <2>1, LookupTyped DEF RefinementInv
  <2> QED  BY <1>1, <2>1, <2>2, <2>3 DEF AnswerFor, Writing
<1>3. CASE cache.master[k] # Undefined
  <2>1. pc'[p] = "fetch" /\ answer' = answer /\ todo' = todo
    BY <1>1, <1>3 DEF Probe, Goto
  <2> QED  BY <1>1, <2>1 DEF RefinementInv, AnswerSoFar, AnswerFor, Writing
<1> QED  BY <1>2, <1>3

LEMMA FetchAnswers ==
  ASSUME RefinementInv, NEW p \in Procs, Fetch(p)
  PROVE  AnswerFor(p)'
<1>1. /\ Live(p) /\ pc[p] = "fetch" /\ disk' = disk /\ command' = command
      /\ Reports(p, <<Head(todo[p]), cache.master[Head(todo[p])]>>)
      /\ todo'[p] = Tail(todo[p]) /\ pc'[p] = AfterLookup(p)
  BY DEF Fetch, RefinementInv, BdbIInv, BdbTypeOK, store, Goto
<1>2. /\ command[p].op = "read"
      /\ answer'[p] \cup Lookups(Tail(todo[p]), disk.master)
           = Lookups(command[p].keys, disk.master)
  BY <1>1, LookupFact
<1>3. pc'[p] \in {"probe", "close"}
  BY <1>1, LookupTyped DEF RefinementInv
<1> QED  BY <1>1, <1>2, <1>3 DEF AnswerFor, Writing

\* What the cursor shows is what the environment promises.
LEMMA CursorShows ==
  ASSUME BdbIInv, NEW p \in Procs, Live(p), pc[p] = "cursor"
  PROVE  Listing(command[p]) = Abstract!Reply(command[p])
<1>1. cache = disk /\ command[p] \in Commands /\ command[p].op \in {"list", "spaces"}
  BY DEF BdbIInv, RegionContents, RightCommand
<1> QED  BY <1>1, ListingIsReply

LEMMA CursorAnswers ==
  ASSUME RefinementInv, NEW p \in Procs, CursorNext(p)
  PROVE  AnswerFor(p)'
<1>1. /\ Live(p) /\ pc[p] = "cursor" /\ pc' = pc /\ disk' = disk /\ command' = command
  BY DEF CursorNext, store
<1>2. PICK fact \in Listing(command[p]) : answer'[p] = answer[p] \cup {fact}
  BY DEF CursorNext, RefinementInv, BdbIInv, BdbTypeOK, Reports
<1>3. answer'[p] \subseteq Abstract!Reply(command[p])
  <2>1. answer[p] \subseteq Abstract!Reply(command[p])
    BY <1>1 DEF RefinementInv, AnswerSoFar, AnswerFor
  <2> QED  BY <1>1, <1>2, <2>1, CursorShows DEF RefinementInv
<1>4. (Abstract!Reply(command[p]))' = Abstract!Reply(command[p])
  BY <1>1 DEF Abstract!Reply, Abstract!Defined
<1> QED  BY <1>1, <1>3, <1>4 DEF AnswerFor, Writing

LEMMA EndAnswers ==
  ASSUME BdbIInv, NEW p \in Procs, NEW how, Ends(p, how)
  PROVE  AnswerFor(p)'
BY DEF Ends, Goto, BdbIInv, BdbTypeOK, AnswerFor, Writing

LEMMA StepAnswers ==
  ASSUME RefinementInv, NEW p \in Procs, Run(p) \/ Step(p) \/ Crash(p)
  PROVE  AnswerFor(p)'
<1>1. pc \in [Procs -> Steps] /\ BdbIInv /\ AnswerFor(p)
  BY DEF RefinementInv, BdbIInv, BdbTypeOK, AnswerSoFar
<1>2. CASE Run(p)
  BY <1>1, <1>2 DEF Run, Goto, AnswerFor, Writing
<1>3. CASE OpenEnv(p)
  BY <1>1, <1>3 DEF OpenEnv, Goto, AnswerFor, Writing, client
<1>4. CASE AttachDbs(p)
  BY <1>4, AttachAnswers
<1>5. CASE Has(p)
  BY <1>1, <1>5 DEF Has, Goto, AnswerFor, Writing, client
<1>6. CASE PutIndex(p) \/ PutMaster(p) \/ Commit(p)
  BY <1>1, <1>6 DEF PutIndex, PutMaster, Commit, Goto, AnswerFor, Writing, client
<1>7. CASE Probe(p)
  BY <1>7, ProbeAnswers
<1>8. CASE Fetch(p)
  BY <1>8, FetchAnswers
<1>9. CASE CursorNext(p)
  BY <1>9, CursorAnswers
<1>10. CASE CursorEnd(p)
  BY <1>1, <1>10 DEF CursorEnd, Goto, AnswerFor, Writing
<1>11. CASE Close(p) \/ Fenced(p) \/ Crash(p)
  BY <1>1, <1>11, EndAnswers DEF Close, Fenced, Crash
<1> QED
  BY <1>2, <1>3, <1>4, <1>5, <1>6, <1>7, <1>8, <1>9, <1>10, <1>11 DEF Step

LEMMA OpenAnswers ==
  ASSUME RefinementInv, NEW p \in Procs, OpenEnv(p)
  PROVE  AnswerSoFar'
<1> SUFFICES ASSUME NEW q \in Procs  PROVE AnswerFor(q)'
  BY DEF AnswerSoFar
<1>1. CASE q = p
  BY <1>1, StepAnswers DEF Step
<1>2. CASE q # p
  <2>1. /\ pc'[q] = pc[q] /\ todo'[q] = todo[q] /\ command'[q] = command[q]
        /\ answer'[q] = answer[q] /\ ~Live(q)'
    BY <1>2 DEF OpenEnv, Goto, RefinementInv, BdbIInv, BdbTypeOK, Live, client
  <2> QED  BY <2>1, OthersAnswers DEF RefinementInv
<1> QED  BY <1>1, <1>2

LEMMA InitRefinementInv == BdbInit => RefinementInv
<1> SUFFICES ASSUME BdbInit  PROVE AnswerSoFar
  BY InitBdbIInv DEF RefinementInv
<1> QED  BY DEF BdbInit, AnswerSoFar, AnswerFor, Writing

LEMMA NextRefinementInv == RefinementInv /\ [BdbNext]_bdbVars => RefinementInv'
<1> SUFFICES ASSUME RefinementInv, [BdbNext]_bdbVars  PROVE AnswerSoFar'
  BY NextBdbIInv DEF RefinementInv
<1>1. ASSUME NEW p \in Procs, Run(p) \/ Step(p) \/ Crash(p), ~OpenEnv(p)  PROVE AnswerSoFar'
  <2>1. Steady(p)
    BY <1>1, StepsAreSteady DEF RefinementInv, BdbIInv
  <2>2. AnswerFor(p)'
    BY <1>1, StepAnswers
  <2> QED  BY <2>1, <2>2, SteadyStep DEF RefinementInv
<1>2. ASSUME NEW p \in Procs, OpenEnv(p)  PROVE AnswerSoFar'
  BY <1>2, OpenAnswers
<1>3. CASE UNCHANGED bdbVars
  <2>1. ASSUME NEW q \in Procs  PROVE AnswerFor(q)'
    BY <1>3, OthersAnswers DEF RefinementInv, bdbVars, Live
  <2> QED  BY <2>1 DEF AnswerSoFar
<1> QED  BY <1>1, <1>2, <1>3 DEF BdbNext

-----------------------------------------------------------------------------
\* A step before the command takes effect is a stutter of the environment.
LEMMA StutterStep ==
  ASSUME NEW p \in Procs, Steady(p),
         pc[p] \notin {"idle", "close"}, pc'[p] \notin {"idle", "close"},
         disk'.master = disk.master, command' = command, outcome' = outcome
  PROVE  UNCHANGED Abstract!vars
<1>1. AbstractPhase' = AbstractPhase
  BY DEF AbstractPhase, Performed, Steady
<1>2. AbstractAnswer' = AbstractAnswer
  BY DEF AbstractAnswer, Performed, Steady
<1>3. AbstractOutcome' = AbstractOutcome
  BY DEF AbstractOutcome
<1> QED  BY <1>1, <1>2, <1>3 DEF Abstract!vars

\* The step at which a command takes effect.
LEMMA PerformStep ==
  ASSUME BdbTypeOK, NEW p \in Procs, Steady(p),
         pc[p] \notin {"idle", "close"}, pc'[p] = "close",
         command' = command, outcome' = outcome,
         disk'.master = Abstract!Effect(command[p]),
         answer'[p] = Abstract!Reply(command[p])
  PROVE  Abstract!Perform(p)
<1>1. AbstractPhase[p] = "called"
  BY DEF AbstractPhase, Performed
<1>2. AbstractPhase' = [AbstractPhase EXCEPT ![p] = "performed"]
  BY DEF AbstractPhase, Performed, Steady
<1>3. AbstractAnswer' = [AbstractAnswer EXCEPT ![p] = Abstract!Reply(command[p])]
  BY DEF AbstractAnswer, Performed, Steady
<1>4. AbstractOutcome' = AbstractOutcome
  BY DEF AbstractOutcome
<1> QED  BY <1>1, <1>2, <1>3, <1>4 DEF Abstract!Perform

\* A process that ends does so in the environment as well.
LEMMA EndMaps ==
  ASSUME BdbTypeOK, NEW p \in Procs, pc[p] # "idle",
         NEW how \in {"success", "fenced", "crashed"}, Ends(p, how),
         how = "success" => pc[p] = "close"
  PROVE  Abstract!Succeed(p) \/ Abstract!Die(p)
<1> DEFINE ending == IF how = "success" THEN "success" ELSE "died"
<1>1. /\ disk' = disk /\ pc' = [pc EXCEPT ![p] = "idle"]
      /\ answer' = [answer EXCEPT ![p] = {}] /\ command' = [command EXCEPT ![p] = NoCommand]
      /\ outcome' = [outcome EXCEPT ![p] = how]
  BY DEF Ends, store, Goto
<1>2. /\ pc \in [Procs -> Steps] /\ answer \in [Procs -> Told]
      /\ outcome \in [Procs -> {"none", "success", "fenced", "crashed"}]
  BY DEF BdbTypeOK, Told
<1>3. AbstractPhase' = [AbstractPhase EXCEPT ![p] = "idle"]
  BY <1>1, <1>2 DEF AbstractPhase, Performed
<1>4. AbstractAnswer' = [AbstractAnswer EXCEPT ![p] = {}]
  BY <1>1, <1>2 DEF AbstractAnswer, Performed
<1>5. AbstractOutcome' = [AbstractOutcome EXCEPT ![p] = ending]
  <2>1. \A q \in Procs : outcome'[q] = IF q = p THEN how ELSE outcome[q]
    BY <1>1, <1>2
  <2> QED  BY <2>1 DEF AbstractOutcome
<1>6. Abstract!Ends(p, ending)
  BY <1>1, <1>3, <1>4, <1>5 DEF Abstract!Ends, NoCommand, Abstract!NoCommand
<1>7. CASE how = "success"
  <2>1. AbstractPhase[p] = "performed"
    BY <1>7 DEF AbstractPhase, Performed
  <2> QED  BY <1>6, <1>7, <2>1 DEF Abstract!Succeed
<1>8. CASE how # "success"
  <2>1. AbstractPhase[p] \in {"called", "performed"}
    BY DEF AbstractPhase, Performed
  <2> QED  BY <1>6, <1>8, <2>1 DEF Abstract!Die
<1> QED  BY <1>7, <1>8

LEMMA RunMaps ==
  ASSUME BdbTypeOK, NEW p \in Procs, Run(p)
  PROVE  Abstract!Call(p)
<1>1. /\ pc[p] = "idle" /\ pc' = [pc EXCEPT ![p] = "open"] /\ disk' = disk /\ answer' = answer
      /\ outcome' = [outcome EXCEPT ![p] = "none"]
  BY DEF Run, Goto, store
<1>2. \E c \in Commands : command' = [command EXCEPT ![p] = c]
  BY DEF Run
<1>3. /\ pc \in [Procs -> Steps]
      /\ outcome \in [Procs -> {"none", "success", "fenced", "crashed"}]
  BY DEF BdbTypeOK
<1>4. AbstractPhase[p] = "idle" /\ AbstractPhase' = [AbstractPhase EXCEPT ![p] = "called"]
  BY <1>1, <1>3 DEF AbstractPhase, Performed
<1>5. AbstractAnswer' = AbstractAnswer
  BY <1>1, <1>3 DEF AbstractAnswer, Performed
<1>6. AbstractOutcome' = [AbstractOutcome EXCEPT ![p] = "none"]
  <2>1. \A q \in Procs : outcome'[q] = IF q = p THEN "none" ELSE outcome[q]
    BY <1>1, <1>3
  <2> QED  BY <2>1 DEF AbstractOutcome
<1> QED  BY <1>1, <1>2, <1>4, <1>5, <1>6 DEF Abstract!Call

LEMMA OpenMaps ==
  ASSUME BdbTypeOK, NEW p \in Procs, OpenEnv(p)
  PROVE  UNCHANGED Abstract!vars
<1>1. /\ pc[p] = "open" /\ pc' = [pc EXCEPT ![p] = "attach"] /\ disk' = disk
      /\ command' = command /\ answer' = answer /\ outcome' = outcome
      /\ pc \in [Procs -> Steps]
  BY DEF OpenEnv, Goto, client, BdbTypeOK
<1>2. AbstractPhase' = AbstractPhase
  BY <1>1 DEF AbstractPhase, Performed
<1>3. AbstractAnswer' = AbstractAnswer
  BY <1>1 DEF AbstractAnswer, Performed
<1>4. AbstractOutcome' = AbstractOutcome
  BY <1>1 DEF AbstractOutcome
<1> QED  BY <1>1, <1>2, <1>3, <1>4 DEF Abstract!vars

AbstractStep(p) == Abstract!Perform(p) \/ UNCHANGED Abstract!vars

LEMMA AttachMaps ==
  ASSUME RefinementInv, NEW p \in Procs, AttachDbs(p)
  PROVE  AbstractStep(p)
<1>1. /\ pc[p] = "attach" /\ pc'[p] = FirstCall(command[p]) /\ command[p] \in Commands
      /\ disk' = disk /\ command' = command /\ answer' = answer /\ outcome' = outcome
      /\ BdbTypeOK /\ Steady(p)
  <2>1. Steady(p)
    BY StepsAreSteady DEF RefinementInv, BdbIInv, Step, OpenEnv, AttachDbs
  <2> QED
    BY <2>1 DEF AttachDbs, RefinementInv, BdbIInv, BdbTypeOK, RightCommand, store, client, Goto
<1>2. CASE FirstCall(command[p]) = "close"
  <2>1. command[p].op = "read" /\ command[p].keys = <<>>
    BY <1>1, <1>2, KnownCommands DEF FirstCall
  <2>2. Abstract!Reply(command[p]) = {} /\ Abstract!Effect(command[p]) = disk.master
    BY <1>1, <2>1, ReadReply, ReadEffect, LookupsOfNone
  <2>3. answer'[p] = {}
    BY <1>1 DEF RefinementInv, AnswerSoFar, AnswerFor
  <2> QED  BY <1>1, <1>2, <2>2, <2>3, PerformStep DEF AbstractStep
<1>3. CASE FirstCall(command[p]) # "close"
  <2>1. FirstCall(command[p]) # "idle"
    BY <1>1, <1>3, KnownCommands DEF FirstCall
  <2> QED  BY <1>1, <1>3, <2>1, StutterStep DEF AbstractStep
<1> QED  BY <1>2, <1>3

LEMMA HasMaps ==
  ASSUME RefinementInv, NEW p \in Procs, Has(p)
  PROVE  AbstractStep(p)
<1>1. /\ pc[p] = "has" /\ Live(p) /\ command[p] \in Commands /\ command[p].op = "def"
      /\ pc'[p] = IF cache.master[command[p].key] = Undefined THEN "index" ELSE "close"
      /\ disk' = disk /\ command' = command /\ answer' = answer /\ outcome' = outcome
      /\ BdbTypeOK /\ cache = disk
  BY DEF Has, RefinementInv, BdbIInv, BdbTypeOK, RightCommand, RegionContents, store, client, Goto
<1>2. Steady(p)
  BY <1>1, StepsAreSteady DEF Step, OpenEnv
<1>3. CASE cache.master[command[p].key] = Undefined
  BY <1>1, <1>2, <1>3, StutterStep DEF AbstractStep
<1>4. CASE cache.master[command[p].key] # Undefined
  <2>1. Abstract!Reply(command[p]) = {} /\ Abstract!Effect(command[p]) = disk.master
    BY <1>1, <1>4, WriteReply DEF Abstract!Effect
  <2>2. answer'[p] = {}
    BY <1>1 DEF RefinementInv, AnswerSoFar, AnswerFor
  <2> QED  BY <1>1, <1>2, <1>4, <2>1, <2>2, PerformStep DEF AbstractStep
<1> QED  BY <1>3, <1>4

LEMMA HalfPutMaps ==
  ASSUME RefinementInv, NEW p \in Procs, PutIndex(p) \/ PutMaster(p)
  PROVE  UNCHANGED Abstract!vars
<1>1. /\ pc[p] \in {"index", "master"} /\ pc'[p] \in {"master", "commit"}
      /\ disk' = disk /\ command' = command /\ outcome' = outcome /\ BdbTypeOK
  BY DEF PutIndex, PutMaster, RefinementInv, BdbIInv, BdbTypeOK, client, Goto
<1>2. Steady(p)
  BY <1>1, StepsAreSteady DEF Step, OpenEnv
<1> QED  BY <1>1, <1>2, StutterStep

LEMMA CommitMaps ==
  ASSUME RefinementInv, NEW p \in Procs, Commit(p)
  PROVE  Abstract!Perform(p)
<1>1. /\ pc[p] = "commit" /\ Live(p) /\ pc'[p] = "close" /\ disk' = cache
      /\ command' = command /\ answer' = answer /\ outcome' = outcome /\ BdbTypeOK
      /\ command[p] \in Commands /\ command[p].op \in {"put", "def"}
  BY DEF Commit, RefinementInv, BdbIInv, BdbTypeOK, RightCommand, Writing, client, Goto
<1>2. Steady(p)
  BY <1>1, StepsAreSteady DEF Step, OpenEnv
<1>3. disk'.master = [disk.master EXCEPT ![command[p].key] = command[p].val]
  BY <1>1 DEF RefinementInv, BdbIInv, RegionContents
<1>4. command[p].op = "def" => disk.master[command[p].key] = Undefined
  BY <1>1 DEF RefinementInv, BdbIInv, DefStillUndefined, Writing
<1>5. disk'.master = Abstract!Effect(command[p])
  BY <1>1, <1>3, <1>4 DEF Abstract!Effect
<1>6. answer'[p] = Abstract!Reply(command[p])
  <2>1. answer[p] = {}
    BY <1>1 DEF RefinementInv, AnswerSoFar, AnswerFor, Writing
  <2> QED  BY <1>1, <2>1, WriteReply
<1> QED  BY <1>1, <1>2, <1>5, <1>6, PerformStep

\* A lookup that was the last one, or was not.
LEMMA LookupMaps ==
  ASSUME RefinementInv, NEW p \in Procs, Steady(p), Live(p), pc[p] \in {"probe", "fetch"},
         Reports(p, <<Head(todo[p]), cache.master[Head(todo[p])]>>),
         pc'[p] = AfterLookup(p),
         disk' = disk, command' = command, outcome' = outcome
  PROVE  AbstractStep(p)
<1>1. /\ todo[p] \in Seq(Keys) /\ BdbTypeOK /\ command[p] \in Commands
  BY DEF RefinementInv, BdbIInv, BdbTypeOK, RightCommand
<1>2. /\ command[p].op = "read"
      /\ answer'[p] \cup Lookups(Tail(todo[p]), disk.master)
           = Lookups(command[p].keys, disk.master)
  BY LookupFact
<1>3. CASE Len(todo[p]) = 1
  <2>1. answer'[p] = Abstract!Reply(command[p])
    BY <1>1, <1>2, <1>3, SingletonTail, LookupsOfNone, ReadReply
  <2>2. Abstract!Effect(command[p]) = disk.master
    BY <1>1, <1>2, ReadEffect
  <2>3. pc'[p] = "close"
    BY <1>3 DEF AfterLookup
  <2> QED  BY <1>1, <2>1, <2>2, <2>3, PerformStep DEF AbstractStep
<1>4. CASE Len(todo[p]) # 1
  <2>1. pc'[p] = "probe"
    BY <1>4 DEF AfterLookup
  <2> QED  BY <2>1, StutterStep DEF AbstractStep
<1> QED  BY <1>3, <1>4

LEMMA ProbeMaps ==
  ASSUME RefinementInv, NEW p \in Procs, Probe(p)
  PROVE  AbstractStep(p)
<1>1. /\ Live(p) /\ pc[p] = "probe" /\ disk' = disk /\ command' = command
      /\ outcome' = outcome /\ BdbTypeOK
  BY DEF Probe, RefinementInv, BdbIInv, store
<1>2. Steady(p)
  BY <1>1, StepsAreSteady DEF Step, OpenEnv
<1>3. CASE cache.master[Head(todo[p])] = Undefined
  <2>1. /\ Reports(p, <<Head(todo[p]), cache.master[Head(todo[p])]>>)
        /\ pc'[p] = AfterLookup(p)
    BY <1>1, <1>3 DEF Probe, Goto, BdbTypeOK
  <2> QED  BY <1>1, <1>2, <2>1, LookupMaps
<1>4. CASE cache.master[Head(todo[p])] # Undefined
  <2>1. pc'[p] = "fetch"
    BY <1>1, <1>4 DEF Probe, Goto, BdbTypeOK
  <2> QED  BY <1>1, <1>2, <2>1, StutterStep DEF AbstractStep
<1> QED  BY <1>3, <1>4

LEMMA FetchMaps ==
  ASSUME RefinementInv, NEW p \in Procs, Fetch(p)
  PROVE  AbstractStep(p)
<1>1. /\ Live(p) /\ pc[p] = "fetch" /\ disk' = disk /\ command' = command
      /\ outcome' = outcome /\ BdbTypeOK /\ pc'[p] = AfterLookup(p)
      /\ Reports(p, <<Head(todo[p]), cache.master[Head(todo[p])]>>)
  BY DEF Fetch, RefinementInv, BdbIInv, BdbTypeOK, store, Goto
<1>2. Steady(p)
  BY <1>1, StepsAreSteady DEF Step, OpenEnv
<1> QED  BY <1>1, <1>2, LookupMaps

LEMMA CursorMaps ==
  ASSUME RefinementInv, NEW p \in Procs, CursorNext(p) \/ CursorEnd(p)
  PROVE  AbstractStep(p)
<1>1. /\ Live(p) /\ pc[p] = "cursor" /\ disk' = disk /\ command' = command
      /\ outcome' = outcome /\ BdbTypeOK
      /\ command[p] \in Commands /\ command[p].op \in {"list", "spaces"}
  BY DEF CursorNext, CursorEnd, RefinementInv, BdbIInv, RightCommand, store, client
<1>2. Steady(p)
  BY <1>1, StepsAreSteady DEF Step, OpenEnv
<1>3. CASE CursorNext(p)
  <2>1. pc'[p] = "cursor"
    BY <1>1, <1>3 DEF CursorNext
  <2> QED  BY <1>1, <1>2, <2>1, StutterStep DEF AbstractStep
<1>4. CASE CursorEnd(p)
  <2>1. pc'[p] = "close" /\ answer' = answer /\ Listing(command[p]) \subseteq answer[p]
    BY <1>1, <1>4 DEF CursorEnd, client, Goto, BdbTypeOK
  <2>2. answer[p] \subseteq Abstract!Reply(command[p])
    BY <1>1 DEF RefinementInv, AnswerSoFar, AnswerFor
  <2>3. answer'[p] = Abstract!Reply(command[p])
    <3>1. Listing(command[p]) = Abstract!Reply(command[p])
      BY <1>1, CursorShows DEF RefinementInv
    <3>2. answer[p] = Abstract!Reply(command[p])
      BY <2>1, <2>2, <3>1
    <3> QED  BY <2>1, <3>2, Zenon
  <2>4. Abstract!Effect(command[p]) = disk.master
    BY <1>1, ReadEffect
  <2> QED  BY <1>1, <1>2, <2>1, <2>3, <2>4, PerformStep DEF AbstractStep
<1> QED  BY <1>3, <1>4

LEMMA ProcessMaps ==
  ASSUME RefinementInv, NEW p \in Procs, Run(p) \/ Step(p) \/ Crash(p)
  PROVE  Abstract!Next \/ UNCHANGED Abstract!vars
<1>1. BdbTypeOK
  BY DEF RefinementInv, BdbIInv
<1>2. CASE Run(p)
  BY <1>1, <1>2, RunMaps DEF Abstract!Next
<1>3. CASE OpenEnv(p)
  BY <1>1, <1>3, OpenMaps
<1>4. CASE PutIndex(p) \/ PutMaster(p)
  BY <1>4, HalfPutMaps
<1>5. CASE Commit(p)
  BY <1>5, CommitMaps DEF Abstract!Next
<1>6. CASE AttachDbs(p) \/ Has(p) \/ Probe(p) \/ Fetch(p) \/ CursorNext(p) \/ CursorEnd(p)
  <2>1. AbstractStep(p)
    BY <1>6, AttachMaps, HasMaps, ProbeMaps, FetchMaps, CursorMaps
  <2> QED  BY <2>1 DEF AbstractStep, Abstract!Next
<1>7. CASE Close(p) \/ Fenced(p) \/ Crash(p)
  <2>1. \/ pc[p] = "close" /\ Ends(p, "success")
        \/ pc[p] # "idle" /\ (Ends(p, "fenced") \/ Ends(p, "crashed"))
    BY <1>7 DEF Close, Fenced, Crash
  <2>2. Abstract!Succeed(p) \/ Abstract!Die(p)
    BY <1>1, <2>1, EndMaps
  <2> QED  BY <2>2 DEF Abstract!Next
<1> QED  BY <1>2, <1>3, <1>4, <1>5, <1>6, <1>7 DEF Step

LEMMA InitMaps == BdbInit => Abstract!Init
BY DEF BdbInit, EmptyDb, Abstract!Init, AbstractPhase, AbstractAnswer, AbstractOutcome,
       Performed, NoCommand, Abstract!NoCommand

LEMMA NextMaps == RefinementInv /\ [BdbNext]_bdbVars => [Abstract!Next]_(Abstract!vars)
<1> SUFFICES ASSUME RefinementInv, [BdbNext]_bdbVars
             PROVE  Abstract!Next \/ UNCHANGED Abstract!vars
  OBVIOUS
<1>1. CASE BdbNext
  BY <1>1, ProcessMaps DEF BdbNext
<1>2. CASE UNCHANGED bdbVars
  BY <1>2 DEF bdbVars, Abstract!vars, AbstractPhase, AbstractAnswer, AbstractOutcome, Performed
<1> QED  BY <1>1, <1>2

(***************************************************************************)
(* Every operation of the store takes effect at one instant, or not at     *)
(* all, for every number of processes, variables, values and commands.     *)
(***************************************************************************)
THEOREM StoreImplementsEnvironment == BdbSpec => EnvironmentSpec
BY InitRefinementInv, NextRefinementInv, InitMaps, NextMaps, PTL
   DEF BdbSpec, EnvironmentSpec, Abstract!Spec
=============================================================================

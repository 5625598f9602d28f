------------------------ MODULE ApplyCommand_proofs ------------------------
(***************************************************************************)
(* Proofs about ApplyCommand, for any number of processes, any variables   *)
(* and any template.                                                       *)
(***************************************************************************)
EXTENDS ApplyCommand, TLAPS

-----------------------------------------------------------------------------
(***************************************************************************)
(* The invariant.  Past(p): p replaced the configuration file, or ended.   *)
(***************************************************************************)
Past(p) == Replaced(p) \/ pc[p] \in Ended

\* -p only
PackageSteps == {"extract", "install", "perms", "chmod"}

\* Where the handler's temporary file is named ...
InnerPlace(p) ==
  /\ dir[Inner(p)] \in {NoInode, Inner(p)}
  /\ pc[p] \in {"open", "events", "again", "rename"} => dir[Inner(p)] = Inner(p)
  /\ pc[p] \notin {"open", "events", "again", "rename", "unopened", "killed"} => dir[Inner(p)] = NoInode

\* ... and what the outer one names.
OuterPlace(p) ==
  /\ dir[Outer(p)] \in {NoInode, Outer(p), Inner(p)}
  /\ pc[p] \in {"start", "tmpfile", "perms", "chmod", "close", "ok"} => dir[Outer(p)] = NoInode
  /\ pc[p] \in {"extract", "on_start", "open", "events", "again", "rename"} => dir[Outer(p)] = Outer(p)
  /\ pc[p] \in {"discard", "install"} /\ source[p] = "package" => dir[Outer(p)] = Inner(p)

Places == /\ \A p \in Procs : InnerPlace(p) /\ OuterPlace(p)
          /\ \A p \in Procs : pc[p] \in PackageSteps => source[p] = "package"
          /\ dir[Config] = Config \/ \E q \in Procs : dir[Config] = Inner(q) /\ Past(q)

\* What p has written expands the beginning of what it reads.
Written(p) ==
  /\ Len(buffer[p]) <= Len(input[p])
  /\ \A i \in 1 .. Len(buffer[p]) : buffer[p][i] = Expand(input[p][i], snapshot[p])
  /\ pc[p] \in {"start", "tmpfile", "extract", "on_start", "open"} => buffer[p] = <<>>
  /\ pc[p] = "rename" => content[Inner(p)] = Render(input[p], snapshot[p])

\* With -p, everything comes from the template.
FromPackage(p) ==
  source[p] = "package" =>
    /\ pc[p] \in {"on_start", "open"} => content[Outer(p)] = Template
    /\ pc[p] \in {"events", "again", "rename", "discard", "install"} => input[p] = Template
    /\ pc[p] \in {"discard", "install"} => content[Inner(p)] = Rendering(p)

Reads == \A p \in Procs : /\ region = p => snapshot[p] = defs
                          /\ Written(p) /\ FromPackage(p)

Installed == \A p \in Procs : installer = p => ConfigContent = Rendering(p)

\* An inode has the permissions it was made with or those of a process that came to it,
\* and set-ID bits are only ever taken away by another one than gave them.
Marked(n) ==
  /\ perm[n].owner = "own" \/ \E q \in perm[n].by : perm[n].owner = Package[q]
  /\ perm[n].mode = "own" \/ \E q \in perm[n].by : perm[n].mode = Package[q]
  /\ perm[n].cleared => perm[n].mode \in SetId /\ \A q \in Procs : perm[n].by # {q}

\* Nobody's set_perms comes to any inode before its chown.
Reached == {"chmod", "cleanup", "close"} \cup Ended

Marks == /\ \A n \in Names : Marked(n)
         /\ \A p \in Procs, n \in Names : p \in perm[n].by => pc[p] \in Reached

\* Only who installed the file last may rely on what the name refers to.
Permitted ==
  \A p \in Procs : installer = p =>
    /\ Past(p)
    /\ pc[p] = "chmod" => perm[dir[Config]].owner # "own"
    /\ source[p] = "package" /\ pc[p] \in {"cleanup", "close", "ok"}
         => perm[dir[Config]].owner # "own" /\ perm[dir[Config]].mode # "own"

-----------------------------------------------------------------------------
\* Names are distinct; nothing below needs to know what they are.
LEMMA NameFacts ==
  /\ Config \in Names /\ NoInode \notin Names
  /\ \A p \in Procs : /\ Inner(p) \in Names /\ Outer(p) \in Names
                      /\ Inner(p) # Config /\ Outer(p) # Config
  /\ \A p, q \in Procs : /\ Inner(p) # Outer(q)
                         /\ Inner(p) = Inner(q) => p = q
                         /\ Outer(p) = Outer(q) => p = q
BY ApplyAssumption DEF Config, NoInode, Names, Inner, Outer

LEMMA TemplateTyped == Template \in Seq(Items)
BY ApplyAssumption DEF Items

LEMMA SubSeqTyped ==
  ASSUME NEW S, NEW s \in Seq(S), NEW n \in 0 .. Len(s)
  PROVE  /\ SubSeq(s, 1, n) \in Seq(S)
         /\ n = Len(s) => SubSeq(s, 1, n) = s
OBVIOUS

\* Expand keeps to the items, so what is written is made of them.
LEMMA ExpandTyped ==
  ASSUME NEW item \in Items, NEW d \in Variables
  PROVE  Expand(item, d) \in Items
<1>1. CASE item \in Keys /\ d[item] # Undefined
  BY <1>1 DEF Expand, Variables, Items
<1>2. CASE ~(item \in Keys /\ d[item] # Undefined)
  BY <1>2 DEF Expand
<1> QED  BY <1>1, <1>2

LEMMA ItemTyped ==
  ASSUME TypeOK, NEW p \in Procs, Len(buffer[p]) < Len(input[p])
  PROVE  Item(p) \in Items
<1>1. buffer[p] \in Seq(Items) /\ input[p] \in Seq(Items)
  BY DEF TypeOK
<1> QED  BY <1>1 DEF Item

-----------------------------------------------------------------------------
LEMMA InitPlaces == Init => TypeOK /\ Places
<1> SUFFICES ASSUME Init PROVE TypeOK /\ Places
  OBVIOUS
<1> USE NameFacts
<1>1. Places
  BY DEF Init, Places, InnerPlace, OuterPlace, PackageSteps
<1>2. <<>> \in Seq(Items)
  OBVIOUS
<1>3. content \in [Names -> Seq(Items)] /\ perm \in [Names -> Permissions]
  BY <1>2, TemplateTyped DEF Init, AsMade, Permissions
<1>4. TypeOK
  BY <1>2, <1>3 DEF Init, TypeOK, Variables, Steps
<1> QED  BY <1>1, <1>4

(***************************************************************************)
(* One step keeps the places: each process moves its own two names, and    *)
(* the configuration file only ever names an inode its mover has done with.*)
(***************************************************************************)
LEMMA PlacesStep == ASSUME TypeOK, Places, [Next]_vars PROVE Places'
<1> USE NameFacts
<1> USE DEF Places, InnerPlace, OuterPlace, PackageSteps, Past, Replaced, Ended, Goto, procVars, storeVars, fileVars, Target
<1>t. /\ dir \in [Names -> Names \cup {NoInode}] /\ DOMAIN pc = Procs
      /\ pc = [p \in Procs |-> pc[p]] /\ source \in [Procs -> {"namespace", "package"}]
  BY DEF TypeOK
<1>1. CASE UNCHANGED vars
  BY <1>1 DEF vars
<1>2. ASSUME NEW p \in Procs, OpenEnv(p) PROVE Places'
  BY <1>t, <1>2 DEF OpenEnv
<1>3. ASSUME NEW p \in Procs, MakeTmpfile(p) PROVE Places'
  BY <1>t, <1>3 DEF MakeTmpfile, Create
<1>4. ASSUME NEW p \in Procs, Extract(p) PROVE Places'
  BY <1>t, <1>4 DEF Extract
<1>5. ASSUME NEW p \in Procs, OnStart(p) PROVE Places'
  BY <1>t, <1>5 DEF OnStart, Create
<1>6. ASSUME NEW p \in Procs, OpenFile(p) PROVE Places'
  BY <1>t, <1>6 DEF OpenFile
<1>7. ASSUME NEW p \in Procs, OnText(p) \/ OnVariable(p) PROVE Places'
  BY <1>t, <1>7 DEF OnText, OnVariable
<1>21. ASSUME NEW p \in Procs, ReadNothing(p) \/ ReadAgain(p) PROVE Places'
  BY <1>t, <1>21 DEF ReadNothing, ReadAgain
<1>8. ASSUME NEW p \in Procs, Flush(p) PROVE Places'
  BY <1>t, <1>8 DEF Flush
<1>9. ASSUME NEW p \in Procs, Replace(p) PROVE Places'
  BY <1>t, <1>9 DEF Replace, Move
<1>10. ASSUME NEW p \in Procs, Discard(p) PROVE Places'
  <2>1. /\ dir' = [dir EXCEPT ![Inner(p)] = NoInode] /\ pc[p] = "discard" /\ source' = source
        /\ pc' = [pc EXCEPT ![p] = IF source[p] = "package" THEN "install" ELSE "cleanup"]
    BY <1>10 DEF Discard, Unlink
  <2> QED  BY <1>t, <2>1
<1>11. ASSUME NEW p \in Procs, Install(p) PROVE Places'
  BY <1>t, <1>11 DEF Install, Move
<1>12. ASSUME NEW p \in Procs, Chown(p) \/ Chmod(p) PROVE Places'
  BY <1>t, <1>12 DEF Chown, Chmod, Restore
<1>13. ASSUME NEW p \in Procs, Cleanup(p) PROVE Places'
  BY <1>t, <1>13 DEF Cleanup, Unlink
<1>14. ASSUME NEW p \in Procs, CloseEnv(p) PROVE Places'
  BY <1>t, <1>14 DEF CloseEnv
<1>15. ASSUME NEW p \in Procs, Raise(p) PROVE Places'
  BY <1>t, <1>15 DEF Raise, InParser, Unlink
<1>16. ASSUME NEW p \in Procs, Abort(p) \/ Kill(p) PROVE Places'
  BY <1>t, <1>16 DEF Abort, Kill
<1>17. ASSUME NEW p \in Procs, CannotOpen(p) PROVE Places'
  BY <1>t, <1>17 DEF CannotOpen, Create
<1>18. ASSUME NEW k \in Keys, NEW v \in Vals, Put(k, v) PROVE Places'
  BY <1>18 DEF Put
<1>20. ASSUME OtherOpens PROVE Places'
  BY <1>20 DEF OtherOpens
<1> QED
  BY <1>1, <1>2, <1>3, <1>4, <1>5, <1>6, <1>7, <1>8, <1>9, <1>10, <1>11, <1>12, <1>13, <1>14,
     <1>15, <1>16, <1>17, <1>18, <1>20, <1>21 DEF Next, Step, LookupFenced

-----------------------------------------------------------------------------
(***************************************************************************)
(* One step keeps the types.  What TypeOK says beyond the types of the     *)
(* variables follows from the places.                                      *)
(***************************************************************************)
Typed == /\ defs \in Variables
         /\ region \in Procs \cup {NoProc}
         /\ dir \in [Names -> Names \cup {NoInode}]
         /\ content \in [Names -> Seq(Items)]
         /\ perm \in [Names -> Permissions]
         /\ pc \in [Procs -> Steps \cup Ended]
         /\ source \in [Procs -> {"namespace", "package"}]
         /\ snapshot \in [Procs -> Variables]
         /\ input \in [Procs -> Seq(Items)]
         /\ buffer \in [Procs -> Seq(Items)]
         /\ installer \in Procs \cup {NoProc}

LEMMA PlacesType == ASSUME Typed, Places PROVE TypeOK
<1> USE NameFacts
<1>1. dir[Config] # NoInode
  BY DEF Places, Past
<1>2. ASSUME NEW p \in Procs
      PROVE  /\ pc[p] = "open" => dir[Target(p)] # NoInode
             /\ pc[p] = "rename" => dir[Inner(p)] = Inner(p)
             /\ pc[p] = "install" => dir[Outer(p)] = Inner(p)
  <2>1. InnerPlace(p) /\ OuterPlace(p) /\ (pc[p] \in PackageSteps => source[p] = "package")
    BY DEF Places
  <2> QED  BY <1>1, <2>1 DEF InnerPlace, OuterPlace, PackageSteps, Target
<1> QED  BY <1>1, <1>2 DEF TypeOK, Typed

LEMMA TypeStep == ASSUME TypeOK, Places, [Next]_vars PROVE Typed'
<1> USE NameFacts
<1> USE DEF Typed, Goto, procVars, storeVars, fileVars
<1>t. Typed
  BY DEF TypeOK
<1>s. /\ {"tmpfile", "extract", "on_start", "open", "events", "again", "rename", "discard", "install",
           "perms", "chmod", "cleanup", "close"} \subseteq Steps
      /\ \A p \in Procs : Target(p) \in Names
  BY DEF Steps, Target
<1>1. CASE UNCHANGED vars
  BY <1>t, <1>1 DEF vars
<1>2. ASSUME NEW p \in Procs, OpenEnv(p) PROVE Typed'
  BY <1>t, <1>s, <1>2 DEF OpenEnv
<1>3. ASSUME NEW p \in Procs, MakeTmpfile(p) PROVE Typed'
  BY <1>t, <1>s, <1>3 DEF MakeTmpfile, Create
<1>4. ASSUME NEW p \in Procs, Extract(p) PROVE Typed'
  <2>1. PICK n \in 0 .. Len(Template) : Sink(p, n)
    BY <1>4 DEF Extract
  <2>2. SubSeq(Template, 1, n) \in Seq(Items)
    BY SubSeqTyped, TemplateTyped
  <2> QED  BY <1>t, <1>s, <1>4, <2>1, <2>2 DEF Extract, Sink
<1>5. ASSUME NEW p \in Procs, OnStart(p) PROVE Typed'
  BY <1>t, <1>s, <1>5 DEF OnStart, Create
<1>6. ASSUME NEW p \in Procs, OpenFile(p) PROVE Typed'
  <2>1. dir[Target(p)] \in Names
    BY <1>t, <1>s, <1>6 DEF OpenFile, TypeOK
  <2> QED  BY <1>t, <1>s, <1>6, <2>1 DEF OpenFile
<1>7. ASSUME NEW p \in Procs, OnText(p) \/ OnVariable(p) PROVE Typed'
  <2>1. Item(p) \in Items /\ Expand(Item(p), defs) \in Items
    BY <1>7, ItemTyped, ExpandTyped, <1>t DEF OnText, OnVariable
  <2>2. PICK item \in Items : Write(p, item)
    BY <1>7, <2>1 DEF OnText, OnVariable
  <2>3. Append(buffer[p], item) \in Seq(Items)
    BY <1>t
  <2>4. buffer' \in [Procs -> Seq(Items)]
    BY <1>t, <2>2, <2>3 DEF Write
  <2> QED  BY <1>t, <1>7, <2>4 DEF OnText, OnVariable
<1>21. ASSUME NEW p \in Procs, ReadNothing(p) \/ ReadAgain(p) PROVE Typed'
  BY <1>t, <1>s, <1>21 DEF ReadNothing, ReadAgain
<1>8. ASSUME NEW p \in Procs, Flush(p) PROVE Typed'
  <2>1. PICK n \in 0 .. Len(buffer[p]) :
               content' = [content EXCEPT ![Inner(p)] = SubSeq(buffer[p], 1, n)]
    BY <1>8 DEF Flush
  <2>2. SubSeq(buffer[p], 1, n) \in Seq(Items)
    BY SubSeqTyped, <1>t
  <2> QED  BY <1>t, <1>s, <1>8, <2>1, <2>2 DEF Flush
<1>9. ASSUME NEW p \in Procs, Replace(p) PROVE Typed'
  BY <1>t, <1>s, <1>9 DEF Replace, Move
<1>10. ASSUME NEW p \in Procs, Discard(p) PROVE Typed'
  BY <1>t, <1>s, <1>10 DEF Discard, Unlink
<1>11. ASSUME NEW p \in Procs, Install(p) PROVE Typed'
  BY <1>t, <1>s, <1>11 DEF Install, Move
<1>12. ASSUME NEW p \in Procs, Chown(p) \/ Chmod(p) PROVE Typed'
  <2>1. dir[Config] \in Names
    BY <1>t DEF TypeOK
  <2>2. perm[dir[Config]] \in Permissions
    BY <1>t, <2>1
  <2>3. /\ perm[dir[Config]].owner \in Versions \cup {"own"}
        /\ perm[dir[Config]].mode \in Versions \cup {"own"}
        /\ perm[dir[Config]].by \cup {p} \in SUBSET Procs /\ Package[p] \in Versions
    BY <2>2, ApplyAssumption DEF Permissions
  <2>8. PICK new \in Permissions : perm' = [perm EXCEPT ![dir[Config]] = new]
    <3>1. CASE Chown(p)
      <4>1. PICK cleared \in BOOLEAN : cleared = (perm[dir[Config]].mode \in SetId)
        <5>1. CASE perm[dir[Config]].mode \in SetId
          <6>1. (perm[dir[Config]].mode \in SetId) = TRUE
            BY <5>1, Zenon
          <6> QED  BY <6>1, Zenon
        <5>2. CASE perm[dir[Config]].mode \notin SetId
          <6>1. (perm[dir[Config]].mode \in SetId) = FALSE
            BY <5>2, SMT
          <6> QED  BY <6>1, Zenon
        <5> QED  BY <5>1, <5>2
      <4>2. perm' = [perm EXCEPT ![dir[Config]] =
                       [owner |-> Package[p], mode |-> perm[dir[Config]].mode, cleared |-> cleared,
                        by |-> perm[dir[Config]].by \cup {p}]]
        BY <3>1, <4>1 DEF Chown, Restore
      <4> QED  BY <2>3, <4>2 DEF Permissions
    <3>2. CASE Chmod(p)
      BY <2>3, <3>2 DEF Chmod, Restore, Permissions
    <3> QED  BY <1>12, <3>1, <3>2
  <2>4. perm' \in [Names -> Permissions]
    BY <1>t, <2>1, <2>8
  <2>5. pc' = [pc EXCEPT ![p] = "chmod"] \/ pc' = [pc EXCEPT ![p] = "cleanup"]
    BY <1>12 DEF Chown, Chmod, Restore
  <2>6. UNCHANGED <<defs, region, dir, content, installer, source, snapshot, input, buffer>>
    BY <1>12 DEF Chown, Chmod, Restore
  <2>7. pc' \in [Procs -> Steps \cup Ended]
    BY <1>t, <2>5 DEF Steps
  <2> QED  BY <1>t, <2>4, <2>6, <2>7
<1>13. ASSUME NEW p \in Procs, Cleanup(p) PROVE Typed'
  BY <1>t, <1>s, <1>13 DEF Cleanup, Unlink
<1>14. ASSUME NEW p \in Procs, CloseEnv(p) PROVE Typed'
  BY <1>t, <1>14 DEF CloseEnv, Ended
<1>15. ASSUME NEW p \in Procs, Raise(p) PROVE Typed'
  BY <1>t, <1>15 DEF Raise, Unlink, Ended
<1>16. ASSUME NEW p \in Procs, Abort(p) \/ Kill(p) PROVE Typed'
  BY <1>t, <1>16 DEF Abort, Kill, Ended
<1>17. ASSUME NEW p \in Procs, CannotOpen(p) PROVE Typed'
  BY <1>t, <1>17 DEF CannotOpen, Create, Ended
<1>18. ASSUME NEW k \in Keys, NEW v \in Vals, Put(k, v) PROVE Typed'
  BY <1>t, <1>18 DEF Put, Variables
<1>20. ASSUME OtherOpens PROVE Typed'
  BY <1>t, <1>20 DEF OtherOpens
<1> HIDE DEF Typed
<1> QED
  BY <1>1, <1>2, <1>3, <1>4, <1>5, <1>6, <1>7, <1>8, <1>9, <1>10, <1>11, <1>12, <1>13, <1>14,
     <1>15, <1>16, <1>17, <1>18, <1>20, <1>21 DEF Next, Step, LookupFenced

-----------------------------------------------------------------------------
(***************************************************************************)
(* The theorems that hold whatever fails.                                  *)
(***************************************************************************)
LEMMA PlacesInvariant == Spec => [](TypeOK /\ Places)
<1>1. Init => TypeOK /\ Places
  BY InitPlaces
<1>t. Typed /\ Places => TypeOK
  BY PlacesType
<1>n. (Typed /\ Places => TypeOK)'
  BY <1>t, PTL
<1>2. TypeOK /\ Places /\ [Next]_vars => (TypeOK /\ Places)'
  <2> SUFFICES ASSUME TypeOK, Places, [Next]_vars PROVE TypeOK' /\ Places'
    OBVIOUS
  <2>1. Places' /\ Typed'
    BY PlacesStep, TypeStep
  <2> QED  BY <2>1, <1>n
<1> QED  BY <1>1, <1>2, PTL DEF Spec

(***************************************************************************)
(* Types: the configuration file always exists, and so does the file a     *)
(* process is about to open (scoped_fh) or to move (file_utils::move).     *)
(***************************************************************************)
THEOREM ApplyTypeCorrect == Spec => []TypeOK
<1>1. TypeOK /\ Places => TypeOK
  OBVIOUS
<1> QED  BY <1>1, PlacesInvariant, PTL

(***************************************************************************)
(* A process that ends by itself leaves no handler's temporary file, one   *)
(* that succeeds none at all (stemplate_handler and scoped_tmpfh unlink).  *)
(***************************************************************************)
THEOREM ApplyLeavesNoFiles == Spec => []TemporariesRemoved
<1>1. TypeOK /\ Places => TemporariesRemoved
  BY DEF TemporariesRemoved, Places, InnerPlace, OuterPlace
<1> QED  BY <1>1, PlacesInvariant, PTL

-----------------------------------------------------------------------------
(***************************************************************************)
(* Permissions: chown and chmod go by the file's name, so a process may    *)
(* come to an inode another one installed.                                 *)
(***************************************************************************)
LEMMA ChownMarks == ASSUME TypeOK, Marks, NEW p \in Procs, Chown(p) PROVE Marks'
<1>1. PICK i \in Names : /\ i = dir[Config] /\ perm[i] \in Permissions
                         /\ perm \in [Names -> Permissions]
  BY NameFacts DEF TypeOK
<1>2. /\ perm' = [perm EXCEPT ![i] = [owner |-> Package[p], mode |-> perm[i].mode,
                     cleared |-> perm[i].mode \in SetId, by |-> perm[i].by \cup {p}]]
      /\ pc[p] = "perms" /\ pc' = [pc EXCEPT ![p] = "chmod"] /\ pc \in [Procs -> Steps \cup Ended]
  BY <1>1 DEF Chown, Restore, Goto, TypeOK
<1>3. p \notin perm[i].by
  BY <1>1, <1>2 DEF Marks, Reached, Ended
<1>4. /\ perm'[i].owner = Package[p] /\ perm'[i].mode = perm[i].mode
      /\ perm'[i].cleared = (perm[i].mode \in SetId) /\ perm'[i].by = perm[i].by \cup {p}
  BY <1>1, <1>2
<1>5. perm[i].mode = "own" \/ \E q \in perm[i].by : perm[i].mode = Package[q]
  BY <1>1 DEF Marks, Marked
<1>6. perm[i].mode \in SetId => \A q \in Procs : perm[i].by \cup {p} # {q}
  <2>1. "own" \notin SetId
    BY ApplyAssumption
  <2> QED  BY <1>3, <1>5, <2>1
<1>7. Marked(i)'
  BY <1>4, <1>5, <1>6 DEF Marked
<1>8. ASSUME NEW n \in Names, n # i PROVE Marked(n)'
  <2>1. perm'[n] = perm[n]
    BY <1>1, <1>2, <1>8
  <2> QED  BY <2>1 DEF Marks, Marked
<1>9. ASSUME NEW q \in Procs, NEW n \in Names, q \in perm'[n].by PROVE pc'[q] \in Reached
  <2>1. q = p \/ q \in perm[n].by
    BY <1>1, <1>2, <1>4, <1>9
  <2> QED  BY <1>2, <2>1 DEF Marks, Reached
<1> QED  BY <1>7, <1>8, <1>9 DEF Marks

LEMMA ChmodMarks == ASSUME TypeOK, Marks, NEW p \in Procs, Chmod(p) PROVE Marks'
<1>1. PICK i \in Names : /\ i = dir[Config] /\ perm[i] \in Permissions
                         /\ perm \in [Names -> Permissions]
  BY NameFacts DEF TypeOK
<1>2. /\ perm' = [perm EXCEPT ![i] = [owner |-> perm[i].owner, mode |-> Package[p],
                     cleared |-> FALSE, by |-> perm[i].by \cup {p}]]
      /\ pc[p] = "chmod" /\ pc' = [pc EXCEPT ![p] = "cleanup"] /\ pc \in [Procs -> Steps \cup Ended]
  BY <1>1 DEF Chmod, Restore, Goto, TypeOK
<1>4. /\ perm'[i].owner = perm[i].owner /\ perm'[i].mode = Package[p]
      /\ perm'[i].cleared = FALSE /\ perm'[i].by = perm[i].by \cup {p}
  BY <1>1, <1>2
<1>5. perm[i].owner = "own" \/ \E q \in perm[i].by : perm[i].owner = Package[q]
  BY <1>1 DEF Marks, Marked
<1>7. Marked(i)'
  BY <1>4, <1>5 DEF Marked
<1>8. ASSUME NEW n \in Names, n # i PROVE Marked(n)'
  <2>1. perm'[n] = perm[n]
    BY <1>1, <1>2, <1>8
  <2> QED  BY <2>1 DEF Marks, Marked
<1>9. ASSUME NEW q \in Procs, NEW n \in Names, q \in perm'[n].by PROVE pc'[q] \in Reached
  <2>1. q = p \/ q \in perm[n].by
    BY <1>1, <1>2, <1>4, <1>9
  <2> QED  BY <1>2, <2>1 DEF Marks, Reached
<1> QED  BY <1>7, <1>8, <1>9 DEF Marks

\* No other step touches the permissions of any inode.
LEMMA MarksStep == ASSUME TypeOK, Marks, [Next]_vars PROVE Marks'
<1> USE DEF Goto, procVars, storeVars, fileVars
<1>t. DOMAIN pc = Procs
  BY DEF TypeOK
<1>1. ASSUME perm' = perm, \A p \in Procs : pc'[p] = pc[p] \/ pc[p] \notin Reached \/ pc'[p] \in Reached
      PROVE  Marks'
  BY <1>1 DEF Marks, Marked
<1>2. CASE UNCHANGED vars
  BY <1>1, <1>2 DEF vars
<1>3. ASSUME NEW p \in Procs, Step(p), ~Chown(p), ~Chmod(p) PROVE Marks'
  <2>1. perm' = perm /\ \A q \in Procs \ {p} : pc'[q] = pc[q]
    BY <1>t, <1>3 DEF Step, OpenEnv, MakeTmpfile, Create, Extract, OnStart, OpenFile, ReadNothing, ReadAgain,
         OnText, OnVariable, LookupFenced, Raise, Unlink, Flush, Replace, Move, Discard, Install, Cleanup, CloseEnv
  <2>2. pc'[p] = pc[p] \/ pc[p] \notin Reached \/ pc'[p] \in Reached
    BY <1>t, <1>3 DEF Step, OpenEnv, MakeTmpfile, Extract, OnStart, OpenFile, ReadNothing, ReadAgain,
         OnText, OnVariable, LookupFenced, Raise, Flush, Replace, Discard, Install, Cleanup, CloseEnv,
         Reached, Ended
  <2> QED  BY <1>1, <2>1, <2>2
<1>4. ASSUME NEW p \in Procs, Raise(p) \/ Abort(p) \/ CannotOpen(p) \/ Kill(p) PROVE Marks'
  <2>1. perm' = perm /\ (\A q \in Procs \ {p} : pc'[q] = pc[q]) /\ pc'[p] \in Ended
    BY <1>t, <1>4 DEF Raise, Unlink, Abort, CannotOpen, Create, Kill, Ended
  <2> QED  BY <1>1, <2>1 DEF Reached
<1>5. ASSUME OtherOpens \/ \E k \in Keys, v \in Vals : Put(k, v) PROVE Marks'
  BY <1>1, <1>5 DEF OtherOpens, Put
<1> QED  BY <1>2, <1>3, <1>4, <1>5, ChownMarks, ChmodMarks DEF Next

LEMMA InitMarks == Init => Marks
<1> SUFFICES ASSUME Init PROVE Marks
  OBVIOUS
<1>1. ASSUME NEW n \in Names PROVE perm[n] = [owner |-> "own", mode |-> "own", cleared |-> FALSE, by |-> {}]
  BY <1>1 DEF Init, AsMade
<1> QED  BY <1>1 DEF Marks, Marked

(***************************************************************************)
(* Who installed the file last gives it permissions of its own.            *)
(***************************************************************************)
LEMMA PermStep == ASSUME TypeOK, Places, Permitted, [Next]_vars PROVE Permitted'
<1> USE NameFacts
<1> USE DEF Permitted, Past, Replaced, Ended, Goto, procVars, storeVars, fileVars
<1>t. /\ dir \in [Names -> Names \cup {NoInode}] /\ perm \in [Names -> Permissions]
      /\ pc = [p \in Procs |-> pc[p]] /\ source \in [Procs -> {"namespace", "package"}]
      /\ dir[Config] \in Names /\ installer \in Procs \cup {NoProc}
      /\ \A p \in Procs : Target(p) = IF source[p] = "package" THEN Outer(p) ELSE Config
      /\ \A p \in Procs : pc[p] \in {"install", "perms", "chmod"} => source[p] = "package"
  BY DEF TypeOK, Target, Places, PackageSteps
<1>1. CASE UNCHANGED vars
  BY <1>1 DEF vars
<1>2. ASSUME NEW p \in Procs, OpenEnv(p) PROVE Permitted'
  BY <1>t, <1>2 DEF OpenEnv
<1>3. ASSUME NEW p \in Procs, MakeTmpfile(p) PROVE Permitted'
  BY <1>t, <1>3 DEF MakeTmpfile, Create
<1>4. ASSUME NEW p \in Procs, Extract(p) PROVE Permitted'
  BY <1>t, <1>4 DEF Extract
<1>5. ASSUME NEW p \in Procs, OnStart(p) PROVE Permitted'
  BY <1>t, <1>5 DEF OnStart, Create
<1>6. ASSUME NEW p \in Procs, OpenFile(p) PROVE Permitted'
  BY <1>t, <1>6 DEF OpenFile
<1>7. ASSUME NEW p \in Procs, OnText(p) \/ OnVariable(p) PROVE Permitted'
  BY <1>t, <1>7 DEF OnText, OnVariable
<1>21. ASSUME NEW p \in Procs, ReadNothing(p) \/ ReadAgain(p) PROVE Permitted'
  BY <1>t, <1>21 DEF ReadNothing, ReadAgain
<1>8. ASSUME NEW p \in Procs, Flush(p) PROVE Permitted'
  BY <1>t, <1>8 DEF Flush
<1>9. ASSUME NEW p \in Procs, Replace(p) PROVE Permitted'
  BY <1>t, <1>9 DEF Replace, Move
<1>10. ASSUME NEW p \in Procs, Discard(p) PROVE Permitted'
  BY <1>t, <1>10 DEF Discard, Unlink
<1>11. ASSUME NEW p \in Procs, Install(p) PROVE Permitted'
  BY <1>t, <1>11 DEF Install, Move
<1>12. ASSUME NEW p \in Procs, Chown(p) PROVE Permitted'
  <2>1. /\ perm'[dir[Config]].owner = Package[p] /\ Package[p] # "own"
        /\ perm'[dir[Config]].mode = perm[dir[Config]].mode
        /\ pc[p] = "perms" /\ pc' = [pc EXCEPT ![p] = "chmod"]
        /\ UNCHANGED <<dir, installer, source>>
    BY <1>t, <1>12, ApplyAssumption DEF Chown, Restore
  <2>2. ASSUME NEW q \in Procs, installer = q
        PROVE  /\ Past(q)'
               /\ source[q] = "package" /\ pc'[q] \in {"cleanup", "close", "ok"}
                    => perm[dir[Config]].mode # "own"
    BY <1>t, <2>1, <2>2
  <2> QED  BY <2>1, <2>2
<1>19. ASSUME NEW p \in Procs, Chmod(p) PROVE Permitted'
  <2>1. /\ perm'[dir[Config]].owner = perm[dir[Config]].owner
        /\ perm'[dir[Config]].mode = Package[p] /\ Package[p] # "own"
        /\ pc[p] = "chmod" /\ pc' = [pc EXCEPT ![p] = "cleanup"]
        /\ UNCHANGED <<dir, installer, source>>
    BY <1>t, <1>19, ApplyAssumption DEF Chmod, Restore
  <2>2. ASSUME NEW q \in Procs, installer = q
        PROVE  /\ Past(q)'
               /\ pc'[q] = "chmod" => perm[dir[Config]].owner # "own"
               /\ source[q] = "package" /\ pc'[q] \in {"cleanup", "close", "ok"}
                    => perm[dir[Config]].owner # "own"
    BY <1>t, <2>1, <2>2
  <2> QED  BY <2>1, <2>2
<1>13. ASSUME NEW p \in Procs, Cleanup(p) PROVE Permitted'
  BY <1>t, <1>13 DEF Cleanup, Unlink
<1>14. ASSUME NEW p \in Procs, CloseEnv(p) PROVE Permitted'
  BY <1>t, <1>14 DEF CloseEnv
<1>15. ASSUME NEW p \in Procs, Raise(p) PROVE Permitted'
  BY <1>t, <1>15 DEF Raise, InParser, Unlink
<1>16. ASSUME NEW p \in Procs, Abort(p) \/ Kill(p) PROVE Permitted'
  BY <1>t, <1>16 DEF Abort, Kill
<1>17. ASSUME NEW p \in Procs, CannotOpen(p) PROVE Permitted'
  BY <1>t, <1>17 DEF CannotOpen, Create
<1>18. ASSUME NEW k \in Keys, NEW v \in Vals, Put(k, v) PROVE Permitted'
  BY <1>18 DEF Put
<1>20. ASSUME OtherOpens PROVE Permitted'
  BY <1>20 DEF OtherOpens
<1> HIDE DEF Permitted
<1> QED
  BY <1>1, <1>2, <1>3, <1>4, <1>5, <1>6, <1>7, <1>8, <1>9, <1>10, <1>11, <1>12, <1>13, <1>14,
     <1>15, <1>16, <1>17, <1>18, <1>19, <1>20, <1>21 DEF Next, Step, LookupFenced

(***************************************************************************)
(* When apply -p exits 0 and no other apply replaced the file since, its   *)
(* owner and mode are declared ones (rpm::set_perms): those of its own     *)
(* package, unless another apply's set_perms came to this file by name.    *)
(***************************************************************************)
THEOREM ApplyRestoresPermissions == Spec => []PermissionsRestored
<1>1. Init => Permitted /\ Marks
  BY InitMarks, ApplyAssumption DEF Init, Permitted
<1>2. TypeOK /\ Places /\ Permitted /\ Marks /\ [Next]_vars => Permitted' /\ Marks'
  BY PermStep, MarksStep
<1>3. TypeOK /\ Permitted /\ Marks => PermissionsRestored
  <2> SUFFICES ASSUME TypeOK, Permitted, Marks, NEW p \in Procs,
                      pc[p] = "ok", source[p] = "package", installer = p
               PROVE  LET now      == perm[dir[Config]]
                          declared == {Package[q] : q \in now.by}
                      IN /\ now.owner \in declared /\ now.mode \in declared
                         /\ now.cleared => now.mode \in SetId /\ now.by # {p}
    BY DEF PermissionsRestored
  <2>1. dir[Config] \in Names
    BY NameFacts DEF TypeOK
  <2>2. Marked(dir[Config])
    BY <2>1 DEF Marks
  <2>3. perm[dir[Config]].owner # "own" /\ perm[dir[Config]].mode # "own"
    BY DEF Permitted
  <2> QED  BY <2>2, <2>3 DEF Marked
<1> QED  BY <1>1, <1>2, <1>3, PlacesInvariant, PTL DEF Spec

-----------------------------------------------------------------------------
(***************************************************************************)
(* What a process writes, when no failure goes unnoticed.  While a process *)
(* may still look variables up the store is as it was when it opened it,   *)
(* since whoever changes it opens it first.                                *)
(***************************************************************************)
LEMMA FlushedIsRendering ==
  ASSUME TypeOK, NEW p \in Procs, Written(p), Len(buffer[p]) = Len(input[p])
  PROVE  buffer[p] = Render(input[p], snapshot[p])
<1>1. buffer[p] \in Seq(Items) /\ input[p] \in Seq(Items)
  BY DEF TypeOK
<1> QED  BY <1>1 DEF Written, Render

LEMMA EventWritten ==
  ASSUME TypeOK, Reads, NEW p \in Procs, OnText(p) \/ OnVariable(p)
  PROVE  Written(p)'
<1> DEFINE item == IF Item(p) \in Keys THEN Expand(Item(p), defs) ELSE Item(p)
<1>1. /\ buffer[p] \in Seq(Items) /\ input[p] \in Seq(Items)
      /\ buffer \in [Procs -> Seq(Items)]
  BY DEF TypeOK
<1>2. /\ pc[p] = "events" /\ Len(buffer[p]) < Len(input[p])
      /\ UNCHANGED <<pc, input, snapshot, content>>
      /\ buffer' = [buffer EXCEPT ![p] = Append(buffer[p], item)]
  BY DEF OnText, OnVariable, Write, fileVars, storeVars
<1>3. item = Expand(input[p][Len(buffer[p]) + 1], snapshot[p])
  <2>1. CASE Item(p) \notin Keys
    BY <2>1 DEF Item, Expand
  <2>2. CASE Item(p) \in Keys
    BY <2>2 DEF Item, Expand, OnText, OnVariable, Reads
  <2> QED  BY <2>1, <2>2
<1> HIDE DEF item
<1>4. buffer'[p] = Append(buffer[p], item)
  BY <1>1, <1>2
<1>5. Len(buffer'[p]) = Len(buffer[p]) + 1
  BY <1>1, <1>4
<1>6. ASSUME NEW i \in 1 .. Len(buffer[p]) + 1
      PROVE  buffer'[p][i] = Expand(input[p][i], snapshot[p])
  <2>1. CASE i = Len(buffer[p]) + 1
    BY <1>1, <1>3, <1>4, <2>1
  <2>2. CASE i \in 1 .. Len(buffer[p])
    BY <1>1, <1>4, <2>2 DEF Reads, Written
  <2> QED  BY <1>1, <2>1, <2>2
<1>7. Len(buffer[p]) + 1 <= Len(input[p])
  BY <1>1, <1>2
<1>8. \A i \in 1 .. Len(buffer'[p]) : buffer'[p][i] = Expand(input'[p][i], snapshot'[p])
  BY <1>2, <1>5, <1>6 DEF Expand
<1>9. pc'[p] = "events"
  BY <1>2
<1> QED  BY <1>2, <1>5, <1>7, <1>8, <1>9 DEF Written, Expand

\* What p has read and written stays when p takes no step, or only a step of pc that
\* asks for nothing more.
Later(p) == \/ pc'[p] = pc[p]
            \/ /\ pc'[p] \in Ended \cup {"tmpfile", "on_start", "cleanup", "close", "perms", "chmod"}
               /\ pc'[p] = "on_start" => source[p] = "namespace"
               /\ pc'[p] \in {"tmpfile", "on_start"} => buffer[p] = <<>>
            \/ pc[p] = "discard" /\ pc'[p] = "install"
            \/ pc[p] = "on_start" /\ pc'[p] = "open"
            \/ {pc[p], pc'[p]} = {"events", "again"}
            \/ pc[p] = "tmpfile" /\ pc'[p] = "extract"

LEMMA ReadsFrame ==
  ASSUME Reads, NEW p \in Procs, Later(p),
         source'[p] = source[p], snapshot'[p] = snapshot[p],
         input'[p] = input[p], buffer'[p] = buffer[p],
         content'[Inner(p)] = content[Inner(p)], content'[Outer(p)] = content[Outer(p)]
  PROVE  Written(p)' /\ FromPackage(p)'
<1>1. Written(p) /\ FromPackage(p)
  BY DEF Reads
<1>2. Render(input[p], snapshot[p])' = Render(input[p], snapshot[p])
  BY DEF Render, Expand
<1>3. Rendering(p)' = Rendering(p)
  BY DEF Rendering, Render, Expand
<1>4. /\ pc'[p] \in {"start", "tmpfile", "extract", "on_start", "open"} => buffer[p] = <<>>
      /\ pc'[p] = "rename" => pc[p] = "rename"
  BY <1>1 DEF Written, Later, Ended
<1>5. source[p] = "package" =>
        /\ pc'[p] \in {"on_start", "open"} => pc[p] \in {"on_start", "open"}
        /\ pc'[p] \in {"events", "again", "rename", "discard", "install"}
             => pc[p] \in {"events", "again", "rename", "discard", "install"}
        /\ pc'[p] \in {"discard", "install"} => pc[p] \in {"discard", "install"}
  BY DEF Later, Ended
<1>6. Written(p)'
  BY <1>1, <1>2, <1>4 DEF Written, Expand
<1>7. FromPackage(p)'
  BY <1>1, <1>3, <1>5 DEF FromPackage
<1> QED  BY <1>6, <1>7

\* A step of p that changes nothing of what the others read and wrote.
Alone(p) == /\ source' = source
            /\ \A q \in Procs \ {p} :
                 /\ pc'[q] = pc[q] /\ snapshot'[q] = snapshot[q]
                 /\ input'[q] = input[q] /\ buffer'[q] = buffer[q]
                 /\ content'[Inner(q)] = content[Inner(q)]
                 /\ content'[Outer(q)] = content[Outer(q)]

LEMMA ReadsOthers ==
  ASSUME Reads, NEW p \in Procs, Alone(p), Written(p)' /\ FromPackage(p)',
         \A q \in Procs : (region = q => snapshot[q] = defs)'
  PROVE  Reads'
<1>1. ASSUME NEW q \in Procs, q # p PROVE Written(q)' /\ FromPackage(q)'
  BY <1>1, ReadsFrame DEF Alone, Later
<1> QED  BY <1>1 DEF Reads

\* A step of p that changes nothing of what it reads and wrote either, and not the store.
LEMMA ReadsStays ==
  ASSUME Reads, NEW p \in Procs, Alone(p), Later(p),
         UNCHANGED <<storeVars, procVars, content>>
  PROVE  Reads'
<1> USE DEF storeVars, procVars
<1>1. Written(p)' /\ FromPackage(p)'
  BY ReadsFrame DEF Alone
<1>2. \A q \in Procs : (region = q => snapshot[q] = defs)'
  BY DEF Reads
<1> QED  BY <1>1, <1>2, ReadsOthers

LEMMA ReadsStep ==
  ASSUME Faults = {}, TypeOK, Places, Reads, [Next]_vars
  PROVE  Reads'
<1> USE NameFacts
<1> USE DEF Goto, procVars, storeVars, fileVars
<1>t. /\ DOMAIN pc = Procs /\ DOMAIN snapshot = Procs /\ DOMAIN input = Procs
      /\ DOMAIN buffer = Procs /\ DOMAIN content = Names
      /\ source \in [Procs -> {"namespace", "package"}]
      /\ \A p \in Procs : Target(p) = IF source[p] = "package" THEN Outer(p) ELSE Config
  BY DEF TypeOK, Target
<1>r. \A q \in Procs : /\ region = q => snapshot[q] = defs
                       /\ Written(q) /\ FromPackage(q)
  BY DEF Reads
<1>1. CASE UNCHANGED vars
  BY <1>1, <1>r, ReadsFrame DEF vars, Reads, Later
<1>2. ASSUME NEW p \in Procs, OpenEnv(p) PROVE Reads'
  <2>1. Alone(p)
    BY <1>t, <1>2 DEF Alone, OpenEnv
  <2>2. Written(p)' /\ FromPackage(p)'
    <3>1. /\ pc[p] = "start" /\ pc'[p] = "tmpfile" /\ UNCHANGED <<buffer, input, source, content>>
      BY <1>t, <1>2 DEF OpenEnv
    <3>2. buffer[p] = <<>>
      BY <1>r, <3>1 DEF Written
    <3>3. Len(<<>>) <= Len(input[p]) /\ 1 .. Len(<<>>) = {}
      BY DEF TypeOK
    <3> QED  BY <3>1, <3>2, <3>3 DEF Written, FromPackage
  <2>3. \A q \in Procs : (region = q => snapshot[q] = defs)'
    BY <1>t, <1>2 DEF OpenEnv
  <2> QED  BY <2>1, <2>2, <2>3, ReadsOthers
<1>3. ASSUME NEW p \in Procs, MakeTmpfile(p) PROVE Reads'
  <2>1. Alone(p) /\ UNCHANGED <<storeVars, procVars, content>>
    BY <1>t, <1>3 DEF Alone, MakeTmpfile, Create
  <2>2. Later(p)
    BY <1>t, <1>r, <1>3 DEF Later, MakeTmpfile, Written
  <2> QED  BY <2>1, <2>2, ReadsStays
<1>4. ASSUME NEW p \in Procs, Extract(p) PROVE Reads'
  <2>1. content' = [content EXCEPT ![Outer(p)] = Template]
    BY <1>4, TemplateTyped, SubSeqTyped DEF Extract, Sink
  <2>2. Alone(p)
    BY <1>t, <1>4, <2>1 DEF Alone, Extract
  <2>3. Written(p)'
    <3>1. pc[p] = "extract" /\ pc'[p] = "on_start" /\ UNCHANGED <<buffer, input, snapshot>>
      BY <1>t, <1>4 DEF Extract
    <3> QED  BY <3>1, <1>r DEF Written, Expand
  <2>4. FromPackage(p)'
    BY <1>t, <1>4, <2>1 DEF Extract, FromPackage
  <2>5. \A q \in Procs : (region = q => snapshot[q] = defs)'
    BY <1>4, <1>r DEF Extract
  <2> QED  BY <2>2, <2>3, <2>4, <2>5, ReadsOthers
<1>5. ASSUME NEW p \in Procs, OnStart(p) PROVE Reads'
  BY <1>t, <1>5, ReadsStays DEF Alone, Later, OnStart, Create
<1>6. ASSUME NEW p \in Procs, OpenFile(p) PROVE Reads'
  <2>1. Alone(p)
    BY <1>t, <1>6 DEF Alone, OpenFile
  <2>2. /\ pc[p] = "open" /\ pc'[p] = "events" /\ UNCHANGED <<buffer, snapshot, source, content>>
        /\ input'[p] = content[dir[Target(p)]]
    BY <1>t, <1>6 DEF OpenFile
  <2>3. input'[p] \in Seq(Items)
    BY <2>2 DEF TypeOK, Target
  <2>4. buffer[p] = <<>>
    BY <1>r, <2>2 DEF Written
  <2>5. Len(<<>>) <= Len(input'[p]) /\ 1 .. Len(<<>>) = {}
    BY <2>3
  <2>6. Written(p)'
    BY <2>2, <2>4, <2>5 DEF Written
  <2>7. source[p] = "package" => input'[p] = Template
    BY <1>t, <1>r, <2>2 DEF FromPackage, Places, OuterPlace
  <2>8. FromPackage(p)'
    BY <2>2, <2>7 DEF FromPackage
  <2>9. \A q \in Procs : (region = q => snapshot[q] = defs)'
    BY <1>6, <1>r DEF OpenFile
  <2> QED  BY <2>1, <2>6, <2>8, <2>9, ReadsOthers
<1>7. ASSUME NEW p \in Procs, OnText(p) \/ OnVariable(p) PROVE Reads'
  <2>1. Alone(p)
    BY <1>t, <1>7 DEF Alone, OnText, OnVariable, Write
  <2>2. pc'[p] = "events" /\ UNCHANGED <<defs, region, pc, source, snapshot, input>>
    BY <1>7 DEF OnText, OnVariable
  <2>3. pc[p] = "events" /\ (source[p] = "package" => input[p] = Template)
    BY <2>2, <1>r DEF FromPackage
  <2>4. FromPackage(p)'
    BY <2>2, <2>3 DEF FromPackage
  <2>5. Written(p)'
    BY <1>7, EventWritten
  <2>6. \A q \in Procs : (region = q => snapshot[q] = defs)'
    BY <2>2, <1>r
  <2> QED  BY <2>1, <2>4, <2>5, <2>6, ReadsOthers
<1>21. ASSUME NEW p \in Procs, ReadNothing(p) \/ ReadAgain(p) PROVE Reads'
  BY <1>t, <1>21, ReadsStays DEF Alone, Later, ReadNothing, ReadAgain
<1>8. ASSUME NEW p \in Procs, Flush(p) PROVE Reads'
  <2>1. PICK n \in 0 .. Len(buffer[p]) :
               /\ n = Len(buffer[p])
               /\ content' = [content EXCEPT ![Inner(p)] = SubSeq(buffer[p], 1, n)]
    BY <1>8 DEF Flush
  <2>2. buffer[p] \in Seq(Items)
    BY DEF TypeOK
  <2>3. content' = [content EXCEPT ![Inner(p)] = buffer[p]]
    BY <2>1, <2>2, SubSeqTyped
  <2>4. Alone(p)
    BY <1>t, <1>8, <2>3 DEF Alone, Flush
  <2>5. /\ pc[p] = "events" /\ pc'[p] = "rename" /\ Len(buffer[p]) = Len(input[p])
        /\ UNCHANGED <<defs, region, source, snapshot, input, buffer>>
    BY <1>t, <1>8 DEF Flush
  <2>6. content'[Inner(p)] = Render(input[p], snapshot[p])
    BY <1>t, <1>r, <2>3, <2>5, FlushedIsRendering
  <2>7. Render(input[p], snapshot[p])' = Render(input[p], snapshot[p])
    BY <2>5 DEF Render, Expand
  <2>8. Written(p)'
    BY <1>r, <2>5, <2>6, <2>7 DEF Written, Expand
  <2>9. FromPackage(p)'
    BY <1>r, <2>5 DEF FromPackage
  <2>10. \A q \in Procs : (region = q => snapshot[q] = defs)'
    BY <2>5, <1>r
  <2> QED  BY <2>4, <2>8, <2>9, <2>10, ReadsOthers
<1>9. ASSUME NEW p \in Procs, Replace(p) PROVE Reads'
  <2>1. Alone(p)
    BY <1>t, <1>9 DEF Alone, Replace, Move
  <2>2. /\ pc[p] = "rename" /\ pc'[p] = "discard"
        /\ UNCHANGED <<defs, region, source, snapshot, input, buffer, content>>
    BY <1>t, <1>9 DEF Replace, Move
  <2>3. Written(p)'
    BY <1>r, <2>2 DEF Written, Expand
  <2>4. source[p] = "package" => content[Inner(p)] = Rendering(p)
    BY <1>r, <2>2 DEF Written, FromPackage, Rendering
  <2>5. Rendering(p)' = Rendering(p)
    BY <2>2 DEF Rendering, Render, Expand
  <2>6. FromPackage(p)'
    BY <1>r, <2>2, <2>4, <2>5 DEF FromPackage
  <2>7. \A q \in Procs : (region = q => snapshot[q] = defs)'
    BY <2>2, <1>r
  <2> QED  BY <2>1, <2>3, <2>6, <2>7, ReadsOthers
<1>10. ASSUME NEW p \in Procs, Discard(p) PROVE Reads'
  BY <1>t, <1>10, ReadsStays DEF Alone, Later, Discard, Unlink
<1>11. ASSUME NEW p \in Procs, Install(p) PROVE Reads'
  BY <1>t, <1>11, ReadsStays DEF Alone, Later, Install, Move
<1>12. ASSUME NEW p \in Procs, Chown(p) \/ Chmod(p) PROVE Reads'
  BY <1>t, <1>12, ReadsStays DEF Alone, Later, Chown, Chmod, Restore
<1>13. ASSUME NEW p \in Procs, Cleanup(p) PROVE Reads'
  BY <1>t, <1>13, ReadsStays DEF Alone, Later, Cleanup, Unlink
<1>14. ASSUME NEW p \in Procs, CloseEnv(p) PROVE Reads'
  BY <1>t, <1>14, ReadsStays DEF Alone, Later, CloseEnv, Ended
<1>15. ASSUME NEW p \in Procs, Raise(p) PROVE Reads'
  BY <1>t, <1>15, ReadsStays DEF Alone, Later, Raise, Unlink, Ended
<1>16. ASSUME NEW p \in Procs, Abort(p) \/ Kill(p) PROVE Reads'
  BY <1>t, <1>16, ReadsStays DEF Alone, Later, Abort, Kill, Ended
<1>17. ASSUME NEW p \in Procs, CannotOpen(p) PROVE Reads'
  BY <1>t, <1>17, ReadsStays DEF Alone, Later, CannotOpen, Create, Ended
<1>18. ASSUME NEW k \in Keys, NEW v \in Vals, Put(k, v) PROVE Reads'
  <2>1. \A q \in Procs : Written(q)' /\ FromPackage(q)'
    BY <1>18, <1>r, ReadsFrame DEF Put, Later
  <2>2. \A q \in Procs : (region = q => snapshot[q] = defs)'
    BY <1>18, ApplyAssumption DEF Put
  <2> QED  BY <2>1, <2>2 DEF Reads
<1>20. ASSUME OtherOpens PROVE Reads'
  <2>1. \A q \in Procs : Written(q)' /\ FromPackage(q)'
    BY <1>20, <1>r, ReadsFrame DEF OtherOpens, Later
  <2>2. \A q \in Procs : (region = q => snapshot[q] = defs)'
    BY <1>20, ApplyAssumption DEF OtherOpens
  <2> QED  BY <2>1, <2>2 DEF Reads
<1> QED
  BY <1>1, <1>2, <1>3, <1>4, <1>5, <1>6, <1>7, <1>8, <1>9, <1>10, <1>11, <1>12, <1>13, <1>14,
     <1>15, <1>16, <1>17, <1>18, <1>20, <1>21 DEF Next, Step, LookupFenced

-----------------------------------------------------------------------------
(***************************************************************************)
(* The configuration file changes in one step only: when a process that    *)
(* read it moves its temporary file over it, or one that took the packaged *)
(* file its copy.  Then it is that process's rendering.                    *)
(***************************************************************************)
Replaces(p) == Install(p) \/ (Replace(p) /\ source[p] = "namespace")

LEMMA ConfigReplaced ==
  ASSUME TypeOK, Places, Reads, NEW p \in Procs, Replaces(p)
  PROVE  ConfigContent' = Rendering(p) /\ installer' = p
<1> USE NameFacts
<1>t. dir \in [Names -> Names \cup {NoInode}]
  BY DEF TypeOK
<1>1. CASE Install(p)
  <2>1. dir'[Config] = dir[Outer(p)] /\ content' = content /\ installer' = p
    BY <1>t, <1>1 DEF Install, Move
  <2>2. source[p] = "package" /\ dir[Outer(p)] = Inner(p)
    BY <1>1 DEF Install, Places, PackageSteps, OuterPlace
  <2>3. content[Inner(p)] = Rendering(p)
    BY <1>1, <2>2 DEF Reads, FromPackage, Install
  <2> QED  BY <2>1, <2>2, <2>3 DEF ConfigContent
<1>2. CASE Replace(p) /\ source[p] = "namespace"
  <2>1. dir'[Config] = dir[Inner(p)] /\ content' = content /\ installer' = p
    BY <1>t, <1>2 DEF Replace, Move, Target
  <2>2. dir[Inner(p)] = Inner(p)
    BY <1>2 DEF Replace, Places, InnerPlace
  <2>3. content[Inner(p)] = Rendering(p)
    BY <1>2 DEF Reads, Written, Replace, Rendering
  <2> QED  BY <2>1, <2>2, <2>3 DEF ConfigContent
<1> QED  BY <1>1, <1>2 DEF Replaces

\* Who writes to an inode is not done with it, so it is not the configuration file's.
LEMMA ConfigKept ==
  ASSUME TypeOK, Places, NEW p \in Procs,
         \/ Step(p) /\ ~Replaces(p)
         \/ Raise(p) \/ Abort(p) \/ CannotOpen(p) \/ Kill(p)
  PROVE  ConfigContent' = ConfigContent /\ installer' = installer
<1> USE NameFacts DEF fileVars, ConfigContent
<1>t. /\ dir \in [Names -> Names \cup {NoInode}] /\ content \in [Names -> Seq(Items)]
      /\ source[p] \in {"namespace", "package"}
      /\ Target(p) = IF source[p] = "package" THEN Outer(p) ELSE Config
      /\ dir[Config] # Outer(p)
      /\ pc[p] = "events" => dir[Config] # Inner(p)
  BY DEF TypeOK, Places, Target, Past, Replaced, Ended
<1>1. CASE OpenEnv(p) \/ OpenFile(p) \/ ReadNothing(p) \/ ReadAgain(p) \/ OnText(p) \/ OnVariable(p)
  BY <1>1 DEF OpenEnv, OpenFile, ReadNothing, ReadAgain, OnText, OnVariable
<1>2. CASE MakeTmpfile(p) \/ OnStart(p) \/ CannotOpen(p)
  BY <1>t, <1>2 DEF MakeTmpfile, OnStart, CannotOpen, Create
<1>3. CASE Extract(p)
  BY <1>t, <1>3 DEF Extract, Sink
<1>4. CASE Flush(p)
  BY <1>t, <1>4 DEF Flush
<1>5. CASE Replace(p) /\ ~Replaces(p)
  BY <1>t, <1>5 DEF Replace, Replaces, Move
<1>6. CASE Raise(p) \/ Discard(p) \/ Cleanup(p)
  BY <1>t, <1>6 DEF Raise, Discard, Cleanup, Unlink
<1>7. CASE Chown(p) \/ Chmod(p)
  BY <1>7 DEF Chown, Chmod, Restore
<1>8. CASE CloseEnv(p) \/ Abort(p) \/ Kill(p)
  BY <1>8 DEF CloseEnv, Abort, Kill
<1> QED
  BY <1>1, <1>2, <1>3, <1>4, <1>5, <1>6, <1>7, <1>8 DEF Step, Replaces, LookupFenced

\* What p renders stays once it has the text: only then has it replaced the file.
LEMMA RenderingKept ==
  ASSUME TypeOK, NEW p \in Procs, Past(p) \/ pc[p] \in {"rename", "install"}, [Next]_vars
  PROVE  Rendering(p)' = Rendering(p)
<1>1. pc[p] \notin {"start", "open"}
  BY DEF Past, Replaced, Ended
<1>2. UNCHANGED <<source, snapshot[p], input[p]>>
  <2>1. DOMAIN snapshot = Procs /\ DOMAIN input = Procs
    BY DEF TypeOK
  <2>2. CASE \E q \in Procs : OpenEnv(q) \/ OpenFile(q)
    BY <1>1, <2>1, <2>2 DEF OpenEnv, OpenFile
  <2>3. CASE ~\E q \in Procs : OpenEnv(q) \/ OpenFile(q)
    BY <2>3 DEF Next, Step, vars, procVars, MakeTmpfile, Extract, OnStart, ReadNothing, ReadAgain,
         OnText, OnVariable, LookupFenced, Flush, Replace, Discard, Install, Chown, Chmod, Restore, Cleanup, CloseEnv,
         Raise, Abort, CannotOpen, Kill, OtherOpens, Put
  <2> QED  BY <2>2, <2>3
<1> QED  BY <1>2 DEF Rendering, Render, Expand

LEMMA InstalledStep ==
  ASSUME TypeOK, Places, Reads, Permitted, Installed, [Next]_vars
  PROVE  Installed'
<1>1. CASE UNCHANGED vars
  BY <1>1 DEF vars, fileVars, procVars, Installed, ConfigContent, Rendering, Render, Expand
<1>2. ASSUME UNCHANGED <<ConfigContent, installer>> PROVE Installed'
  BY <1>2, RenderingKept DEF Installed, Permitted
<1>3. ASSUME NEW p \in Procs, Step(p), Replaces(p) PROVE Installed'
  <2>1. ConfigContent' = Rendering(p) /\ installer' = p
    BY <1>3, ConfigReplaced
  <2>2. Rendering(p)' = Rendering(p)
    BY <1>3, RenderingKept DEF Replaces, Install, Replace
  <2> QED  BY <2>1, <2>2 DEF Installed
<1>4. ASSUME NEW p \in Procs,
             \/ Step(p) /\ ~Replaces(p)
             \/ Raise(p) \/ Abort(p) \/ CannotOpen(p) \/ Kill(p)
      PROVE  Installed'
  BY <1>2, <1>4, ConfigKept
<1>5. ASSUME NEW k \in Keys, NEW v \in Vals, Put(k, v) PROVE Installed'
  BY <1>2, <1>5 DEF Put, fileVars, ConfigContent
<1>6. ASSUME OtherOpens PROVE Installed'
  BY <1>2, <1>6 DEF OtherOpens, fileVars, ConfigContent
<1> QED  BY <1>1, <1>3, <1>4, <1>5, <1>6 DEF Next

LEMMA InitReads == Init => Reads /\ Permitted /\ Installed
<1> SUFFICES ASSUME Init PROVE Reads /\ Permitted /\ Installed
  OBVIOUS
<1>1. \A p \in Procs : pc[p] = "start" /\ buffer[p] = <<>> /\ input[p] = <<>> /\ snapshot[p] = defs
  BY DEF Init
<1>2. installer \notin Procs
  BY ApplyAssumption DEF Init
<1>e. <<>> \in Seq(Items) /\ Len(<<>>) = 0
  OBVIOUS
<1>3. ASSUME NEW p \in Procs PROVE Written(p) /\ FromPackage(p)
  <2>1. Len(buffer[p]) <= Len(input[p]) /\ 1 .. Len(buffer[p]) = {}
    BY <1>1, <1>e
  <2> QED  BY <1>1, <2>1 DEF Written, FromPackage
<1> QED  BY <1>1, <1>2, <1>3 DEF Reads, Permitted, Installed

ApplyIInv == TypeOK /\ Places /\ Reads /\ Permitted /\ Installed

LEMMA ApplyInvariant == ASSUME Faults = {} PROVE Spec => []ApplyIInv
<1>1. Init => ApplyIInv
  BY InitPlaces, InitReads DEF ApplyIInv
<1>t. (Typed /\ Places => TypeOK)'
  <2>1. Typed /\ Places => TypeOK
    BY PlacesType
  <2> QED  BY <2>1, PTL
<1>2. ApplyIInv /\ [Next]_vars => ApplyIInv'
  BY <1>t, PlacesStep, TypeStep, ReadsStep, PermStep, InstalledStep DEF ApplyIInv
<1> QED  BY <1>1, <1>2, PTL DEF Spec

(***************************************************************************)
(* When no failure goes unnoticed, an apply that exits 0 and was not       *)
(* followed by another one leaves the file expanded with the variables as  *)
(* they were when it opened the store, whatever is put meanwhile.          *)
(***************************************************************************)
THEOREM SuccessMeansApplied == ASSUME Faults = {} PROVE Spec => []SuccessIsApplied
<1>1. ApplyIInv => SuccessIsApplied
  BY DEF ApplyIInv, Installed, SuccessIsApplied
<1> QED  BY <1>1, ApplyInvariant, PTL

-----------------------------------------------------------------------------
(***************************************************************************)
(* The refinement.  Status(p) and Source(p) are what Abstract's status and *)
(* text stand for.                                                         *)
(***************************************************************************)
Status(p) ==
  CASE pc[p] = "start" -> "idle"
    [] pc[p] = "ok" -> "ok"
    [] pc[p] \in Ended \ {"ok"} -> "failed"
    [] Replaced(p) -> "replaced"
    [] source[p] = "namespace" /\ pc[p] \in {"tmpfile", "on_start", "open"} -> "begun"
    [] OTHER -> "looked"

StatusFn == [p \in Procs |-> Status(p)]

Source(p) == IF source[p] = "package" THEN Template ELSE input[p]

SourceFn == [p \in Procs |-> Source(p)]

LEMMA StatusValue ==
  ASSUME NEW p \in Procs
  PROVE  /\ pc[p] = "start" => Status(p) = "idle"
         /\ pc[p] = "ok" => Status(p) = "ok"
         /\ pc[p] \in {"aborted", "unopened", "killed"} => Status(p) = "failed"
         /\ Replaced(p) => Status(p) = "replaced"
         /\ source[p] = "namespace" /\ pc[p] \in {"tmpfile", "on_start", "open"} => Status(p) = "begun"
         /\ source[p] = "package" /\ pc[p] \in {"tmpfile", "extract", "on_start", "open", "discard", "install"}
              => Status(p) = "looked"
         /\ pc[p] \in {"events", "again", "rename", "install"} => Status(p) = "looked"
         /\ pc[p] \notin Ended => Status(p) \notin {"ok", "failed"}
BY DEF Status, Ended, Replaced

LEMMA ConfigInit == Init => Abstract!Init
<1> SUFFICES ASSUME Init PROVE Abstract!Init
  OBVIOUS
<1>1. ConfigContent = Template
  BY NameFacts DEF Init, ConfigContent
<1>2. StatusFn = [p \in Procs |-> "idle"]
  BY StatusValue DEF StatusFn, Init
<1>3. SourceFn = [p \in Procs |-> IF source[p] = "package" THEN Template ELSE <<>>]
  BY DEF SourceFn, Source, Init
<1> QED  BY <1>1, <1>2, <1>3 DEF Abstract!Init, Init, StatusFn, SourceFn, Status, Source

\* A step of p: nobody else's status changes.
LEMMA StatusOthers ==
  ASSUME TypeOK, NEW p \in Procs, UNCHANGED source,
         \A q \in Procs \ {p} : pc'[q] = pc[q]
  PROVE  StatusFn' = [StatusFn EXCEPT ![p] = Status(p)']
<1>1. ASSUME NEW q \in Procs \ {p} PROVE Status(q)' = Status(q)
  BY <1>1 DEF Status, Replaced
<1> QED  BY <1>1 DEF StatusFn

LEMMA ConfigStutter ==
  ASSUME TypeOK, NEW p \in Procs, UNCHANGED <<defs, ConfigContent, source, snapshot, SourceFn>>,
         \A q \in Procs \ {p} : pc'[q] = pc[q], Status(p)' = Status(p)
  PROVE  UNCHANGED Abstract!vars
<1>1. StatusFn' = StatusFn
  BY StatusOthers DEF StatusFn
<1> QED  BY <1>1 DEF Abstract!vars, StatusFn, SourceFn, Status, Source

LEMMA ConfigFails ==
  ASSUME TypeOK, NEW p \in Procs, UNCHANGED <<defs, ConfigContent, source, snapshot, SourceFn>>,
         \A q \in Procs \ {p} : pc'[q] = pc[q],
         pc[p] \notin Ended, pc'[p] \in {"aborted", "unopened", "killed"}
  PROVE  Abstract!Fail(p)
<1>0. Status(p)' = "failed"
  BY DEF Status, Ended, Replaced
<1>1. StatusFn' = [StatusFn EXCEPT ![p] = "failed"]
  BY <1>0, StatusOthers
<1>2. StatusFn[p] \notin {"ok", "failed"}
  BY StatusValue DEF StatusFn
<1> QED
  BY <1>1, <1>2 DEF Abstract!Fail, Abstract!Becomes, StatusFn, SourceFn, Status, Source

LEMMA ConfigPut ==
  ASSUME TypeOK, NEW k \in Keys, NEW v \in Vals, Put(k, v)
  PROVE  Abstract!Put(k, v)
<1>1. UNCHANGED <<ConfigContent, source, snapshot, StatusFn, SourceFn>>
  BY DEF Put, fileVars, procVars, ConfigContent, StatusFn, SourceFn, Status, Source, Replaced
<1> QED  BY <1>1 DEF Put, Abstract!Put, StatusFn, SourceFn, Status, Source

\* Nobody sees that the store was opened.
LEMMA ConfigUnmoved == ASSUME TypeOK, OtherOpens PROVE UNCHANGED Abstract!vars
<1>1. UNCHANGED <<defs, ConfigContent, source, snapshot, StatusFn, SourceFn>>
  BY DEF OtherOpens, fileVars, procVars, ConfigContent, StatusFn, SourceFn, Status, Source, Replaced
<1> QED  BY <1>1 DEF Abstract!vars, StatusFn, SourceFn, Status, Source

\* The steps that are steps of the abstract file.
LEMMA ConfigBegins == ASSUME TypeOK, NEW p \in Procs, OpenEnv(p) PROVE Abstract!Begin(p)
<1>1. /\ pc[p] = "start" /\ pc'[p] = "tmpfile" /\ \A q \in Procs \ {p} : pc'[q] = pc[q]
      /\ UNCHANGED <<defs, fileVars, source, input>> /\ snapshot' = [snapshot EXCEPT ![p] = defs]
      /\ source[p] \in {"namespace", "package"}
  BY DEF OpenEnv, Goto, TypeOK
<1>2. UNCHANGED <<ConfigContent, SourceFn>>
  BY <1>1 DEF fileVars, ConfigContent, SourceFn, Source
<1>3. StatusFn[p] = "idle"
  BY <1>1, StatusValue DEF StatusFn
<1>4. Status(p)' = IF source[p] = "package" THEN "looked" ELSE "begun"
  BY <1>1 DEF Status, Ended, Replaced
<1>5. StatusFn' = [StatusFn EXCEPT ![p] = IF source[p] = "package" THEN "looked" ELSE "begun"]
  BY <1>1, <1>4, StatusOthers
<1> QED
  BY <1>1, <1>2, <1>3, <1>5
     DEF Abstract!Begin, Abstract!Becomes, StatusFn, SourceFn, Status, Source

LEMMA ConfigLooks ==
  ASSUME TypeOK, Places, Reads, NEW p \in Procs, OpenFile(p)
  PROVE  Abstract!Look(p) \/ UNCHANGED Abstract!vars
<1>1. /\ pc[p] = "open" /\ pc'[p] = "events" /\ \A q \in Procs \ {p} : pc'[q] = pc[q]
      /\ UNCHANGED <<defs, dir, content, source, snapshot>>
      /\ input' = [input EXCEPT ![p] = content[dir[Target(p)]]] /\ DOMAIN input = Procs
      /\ source[p] \in {"namespace", "package"}
  BY DEF OpenFile, Goto, TypeOK, fileVars, storeVars
<1>2. ConfigContent' = ConfigContent
  BY <1>1 DEF ConfigContent
<1>3. Status(p)' = "looked"
  BY <1>1 DEF Status, Ended, Replaced
<1>4. CASE source[p] = "namespace"
  <2>1. SourceFn' = [SourceFn EXCEPT ![p] = ConfigContent]
    BY <1>1, <1>4 DEF SourceFn, Source, Target, ConfigContent
  <2>2. StatusFn' = [StatusFn EXCEPT ![p] = "looked"]
    BY <1>1, <1>3, StatusOthers
  <2>3. StatusFn[p] = "begun"
    BY <1>1, <1>4, StatusValue DEF StatusFn
  <2> QED
    BY <1>1, <1>2, <2>1, <2>2, <2>3
       DEF Abstract!Look, Abstract!Becomes, StatusFn, SourceFn, Status, Source
<1>5. CASE source[p] = "package"
  <2>1. SourceFn' = SourceFn
    BY <1>1, <1>5 DEF SourceFn, Source
  <2>2. Status(p) = "looked"
    BY <1>1, <1>5, StatusValue
  <2> QED  BY <1>1, <1>2, <1>3, <2>1, <2>2, ConfigStutter
<1> QED  BY <1>1, <1>4, <1>5

LEMMA ConfigReplaces ==
  ASSUME TypeOK, Places, Reads, NEW p \in Procs, Replaces(p)
  PROVE  Abstract!Replace(p)
<1>1. /\ pc[p] \in {"rename", "install"} /\ \A q \in Procs \ {p} : pc'[q] = pc[q]
      /\ pc'[p] = "perms" \/ (pc'[p] = "discard" /\ source[p] = "namespace")
      /\ UNCHANGED <<defs, source, snapshot, input>>
  BY DEF Replaces, Replace, Install, Goto, TypeOK, storeVars, procVars
<1>2. SourceFn' = SourceFn
  BY <1>1 DEF SourceFn, Source
<1>3. StatusFn[p] = "looked"
  BY <1>1, StatusValue DEF StatusFn
<1>4. Status(p)' = "replaced"
  BY <1>1 DEF Status, Ended, Replaced
<1>5. StatusFn' = [StatusFn EXCEPT ![p] = "replaced"]
  BY <1>1, <1>4, StatusOthers
<1>6. ConfigContent' = Render(SourceFn[p], snapshot[p])
  BY ConfigReplaced DEF Rendering, SourceFn, Source
<1> QED
  BY <1>1, <1>2, <1>3, <1>5, <1>6
     DEF Abstract!Replace, Abstract!Becomes, StatusFn, SourceFn, Status, Source

LEMMA ConfigEnds ==
  ASSUME TypeOK, NEW p \in Procs, CloseEnv(p)
  PROVE  Abstract!Succeed(p) \/ Abstract!Fail(p)
<1>1. /\ pc[p] = "close" /\ \A q \in Procs \ {p} : pc'[q] = pc[q]
      /\ pc'[p] = "ok" \/ pc'[p] = "aborted"
      /\ UNCHANGED <<defs, source, snapshot, input, dir, content>>
  BY DEF CloseEnv, Goto, TypeOK, storeVars, fileVars, procVars
<1>2. UNCHANGED <<ConfigContent, SourceFn>>
  BY <1>1 DEF SourceFn, Source, ConfigContent
<1>3. CASE pc'[p] = "ok"
  <2>1. StatusFn[p] = "replaced"
    BY <1>1, StatusValue DEF StatusFn, Replaced
  <2>2. Status(p)' = "ok"
    BY <1>3 DEF Status, Ended, Replaced
  <2>3. StatusFn' = [StatusFn EXCEPT ![p] = "ok"]
    BY <1>1, <2>2, StatusOthers
  <2> QED
    BY <1>1, <1>2, <2>1, <2>3
       DEF Abstract!Succeed, Abstract!Becomes, StatusFn, SourceFn, Status, Source
<1>4. CASE pc'[p] = "aborted"
  <2>1. pc[p] \notin Ended
    BY <1>1 DEF Ended
  <2> QED  BY <1>1, <1>2, <1>4, <2>1, ConfigFails
<1> QED  BY <1>1, <1>3, <1>4

LEMMA ConfigFailures ==
  ASSUME TypeOK, Places, NEW p \in Procs, Raise(p) \/ Abort(p) \/ CannotOpen(p) \/ Kill(p)
  PROVE  Abstract!Fail(p)
<1>1. /\ pc[p] \notin Ended /\ pc'[p] \in {"aborted", "unopened", "killed"}
      /\ \A q \in Procs \ {p} : pc'[q] = pc[q]
      /\ UNCHANGED <<defs, source, snapshot, input>>
  BY DEF Raise, InParser, Abort, CannotOpen, Kill, Goto, TypeOK, Ended, storeVars, procVars
<1>2. SourceFn' = SourceFn
  BY <1>1 DEF SourceFn, Source
<1>3. ConfigContent' = ConfigContent
  BY ConfigKept
<1> QED  BY <1>1, <1>2, <1>3, ConfigFails

\* All other steps are apply's own.
LEMMA ConfigSteps ==
  ASSUME TypeOK, Places, NEW p \in Procs, ~Replaces(p),
         \/ MakeTmpfile(p) \/ Extract(p) \/ OnStart(p) \/ ReadNothing(p) \/ ReadAgain(p)
         \/ OnText(p) \/ OnVariable(p) \/ Flush(p)
         \/ Replace(p) \/ Discard(p) \/ Chown(p) \/ Chmod(p) \/ Cleanup(p)
  PROVE  UNCHANGED Abstract!vars
<1>1. /\ source \in [Procs -> {"namespace", "package"}] /\ DOMAIN pc = Procs
      /\ pc[p] \in PackageSteps => source[p] = "package"
  BY DEF TypeOK, Places
<1>2. /\ UNCHANGED <<defs, source, snapshot, input>>
      /\ \A q \in Procs \ {p} : pc'[q] = pc[q]
  BY <1>1 DEF MakeTmpfile, Extract, OnStart, ReadNothing, ReadAgain, OnText, OnVariable, Flush, Replace,
         Discard, Chown, Chmod, Restore, Cleanup, Goto, storeVars, procVars
<1>3. SourceFn' = SourceFn
  BY <1>2 DEF SourceFn, Source
<1>4. ConfigContent' = ConfigContent
  BY ConfigKept DEF Step
<1>5. \/ pc[p] \in {"tmpfile", "on_start"} /\ pc'[p] \in {"on_start", "open"}
      \/ pc[p] \in {"tmpfile", "extract"} /\ pc'[p] \in {"extract", "on_start"} /\ source[p] = "package"
      \/ pc[p] \in {"events", "again"} /\ pc'[p] \in {"events", "again", "rename"}
      \/ pc[p] = "rename" /\ pc'[p] = "discard" /\ source[p] = "package"
      \/ pc[p] = "discard" /\ pc'[p] = "install" /\ source[p] = "package"
      \/ pc[p] = "discard" /\ pc'[p] = "cleanup" /\ source[p] = "namespace"
      \/ pc[p] \in {"perms", "chmod", "cleanup"} /\ pc'[p] \in {"chmod", "cleanup", "close"}
  BY <1>1 DEF MakeTmpfile, Extract, OnStart, ReadNothing, ReadAgain, OnText, OnVariable, Flush, Replace,
         Replaces, Discard, Chown, Chmod, Restore, Cleanup, Goto, PackageSteps
<1>6. Status(p)' = Status(p)
  BY <1>1, <1>2, <1>5 DEF Status, Replaced, Ended
<1> QED  BY <1>2, <1>3, <1>4, <1>6, ConfigStutter

LEMMA ConfigNext == ApplyIInv /\ [Next]_vars => [Abstract!Next]_(Abstract!vars)
<1> SUFFICES ASSUME ApplyIInv, [Next]_vars PROVE Abstract!Next \/ UNCHANGED Abstract!vars
  OBVIOUS
<1>t. TypeOK /\ Places /\ Reads
  BY DEF ApplyIInv
<1>1. CASE UNCHANGED vars
  BY <1>1 DEF vars, storeVars, fileVars, procVars, Abstract!vars, ConfigContent, Replaced
<1>2. ASSUME NEW p \in Procs, Step(p) PROVE Abstract!Next \/ UNCHANGED Abstract!vars
  <2>1. CASE OpenEnv(p)
    BY <1>t, <2>1, ConfigBegins DEF Abstract!Next
  <2>2. CASE OpenFile(p)
    BY <1>t, <2>2, ConfigLooks DEF Abstract!Next
  <2>3. CASE Replaces(p)
    BY <1>t, <2>3, ConfigReplaces DEF Abstract!Next
  <2>4. CASE CloseEnv(p)
    BY <1>t, <2>4, ConfigEnds DEF Abstract!Next
  <2>5. CASE LookupFenced(p)
    BY <1>t, <2>5, ConfigFailures DEF Abstract!Next, LookupFenced
  <2> QED  BY <1>t, <1>2, <2>1, <2>2, <2>3, <2>4, <2>5, ConfigSteps DEF Step, Replaces
<1>3. ASSUME NEW p \in Procs, Raise(p) \/ Abort(p) \/ CannotOpen(p) \/ Kill(p)
      PROVE  Abstract!Next
  BY <1>t, <1>3, ConfigFailures DEF Abstract!Next
<1>4. ASSUME NEW k \in Keys, NEW v \in Vals, Put(k, v) PROVE Abstract!Next
  BY <1>t, <1>4, ConfigPut DEF Abstract!Next
<1>5. CASE OtherOpens
  BY <1>t, <1>5, ConfigUnmoved
<1> QED  BY <1>1, <1>2, <1>3, <1>4, <1>5 DEF Next

(***************************************************************************)
(* When no failure goes unnoticed, apply implements ConfigFile: each       *)
(* apply looks once at the variables and once at the file, and replaces    *)
(* the file in one step by the expansion of just that, or not at all,      *)
(* whatever other applies and puts do, fail or die meanwhile.              *)
(***************************************************************************)
THEOREM ApplyImplementsConfigFile == ASSUME Faults = {} PROVE Spec => ConfigFileSpec
BY ApplyInvariant, ConfigInit, ConfigNext, PTL DEF Spec, ConfigFileSpec, Abstract!Spec
=============================================================================

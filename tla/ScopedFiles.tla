----------------------------- MODULE ScopedFiles -----------------------------
(***************************************************************************)
(* The objects that own files: scoped_fh (a stream), scoped_file (a path   *)
(* that is unlinked) and scoped_tmpfh (both, on a name made by mkstemp).   *)
(* One action is one call of a method, constructor or destructor, with     *)
(* what it does when the call into the system fails.  No two of them run   *)
(* at a time; what matters is the order they come in.                      *)
(***************************************************************************)
EXTENDS Integers, FiniteSets

CONSTANTS Objects,  \* the places an object may be constructed in
          Streams,  \* the streams (UFILE) u_fopen may return
          Paths,    \* the names mkstemp may make, each of them once
          NULL

ASSUME ScopedAssumption == NULL \notin Streams \cup Paths

VARIABLES
  kind,     \* what lives in a place: "none", "fh", "tmpfh"
  fh,       \* scoped_fh::_fh
  tmpfile,  \* the path of scoped_tmpfh::_tmpfile
  opened,   \* the streams that are open
  dir,      \* the temporary names that exist
  made,     \* the names mkstemp has made, and whose descriptors it returned
  orphans   \* history: the names whose object could not be constructed

vars == <<kind, fh, tmpfile, opened, dir, made, orphans>>

Init == /\ kind = [o \in Objects |-> "none"]
        /\ fh = [o \in Objects |-> NULL]
        /\ tmpfile = [o \in Objects |-> NULL]
        /\ opened = {} /\ dir = {} /\ made = {} /\ orphans = {}

-----------------------------------------------------------------------------
\* __fclose, then u_fopen, which gives a stream of its own or fails: open throws.
\* The mutants do not reset _fh when u_fopen fails, and do not look whether it did.
OpenStreamKeeps(o, s) ==
  /\ s = NULL \/ s \notin opened \ {fh[o]}
  /\ opened' = (opened \ {fh[o]}) \cup ({s} \ {NULL})
  /\ fh' = IF s = NULL THEN fh ELSE [fh EXCEPT ![o] = s]

OpenStreamUnchecked(o, s) ==
  /\ s = NULL \/ s \notin opened \ {fh[o]}
  /\ opened' = (opened \ {fh[o]}) \cup {s}
  /\ fh' = [fh EXCEPT ![o] = s]

OpenStream(o, s) ==
  /\ s = NULL \/ s \notin opened \ {fh[o]}
  /\ opened' = (opened \ {fh[o]}) \cup ({s} \ {NULL})
  /\ fh' = [fh EXCEPT ![o] = s]

\* scoped_fh(), and scoped_fh(file, mode): of an object that threw nothing is left.
ConstructFh(o) == /\ kind[o] = "none"
                  /\ kind' = [kind EXCEPT ![o] = "fh"]
                  /\ UNCHANGED <<fh, tmpfile, opened, dir, made, orphans>>

ConstructOpened(o, s) == /\ kind[o] = "none"
                         /\ OpenStream(o, s)
                         /\ kind' = [kind EXCEPT ![o] = IF s = NULL THEN "none" ELSE "fh"]
                         /\ UNCHANGED <<tmpfile, dir, made, orphans>>

\* A second open of the same object; when it fails the object lives on, closed.
Open(o, s) == /\ kind[o] # "none"
              /\ OpenStream(o, s)
              /\ UNCHANGED <<kind, tmpfile, dir, made, orphans>>

(***************************************************************************)
(* scoped_tmpfh: __mktemp makes a name and the object that will unlink it; *)
(* the descriptor is dropped and the name opened.  When that throws, the   *)
(* pointer to the object is lost with the half constructed scoped_tmpfh.   *)
(***************************************************************************)
ConstructTmpfh(o, p, s) ==
  /\ kind[o] = "none"
  /\ p \notin made
  /\ made' = made \cup {p}
  /\ dir' = dir \cup {p}
  /\ OpenStream(o, s)
  /\ IF s = NULL
     THEN /\ orphans' = orphans \cup {p}
          /\ UNCHANGED <<kind, tmpfile>>
     ELSE /\ kind' = [kind EXCEPT ![o] = "tmpfh"]
          /\ tmpfile' = [tmpfile EXCEPT ![o] = p]
          /\ UNCHANGED orphans

\* file_utils::move of the temporary file, which stays open.
MoveAway(o) == /\ kind[o] = "tmpfh"
               /\ dir' = dir \ {tmpfile[o]}
               /\ UNCHANGED <<kind, fh, tmpfile, opened, made, orphans>>

\* ~scoped_tmpfh unlinks, moved or not, then ~scoped_fh closes.  The mutant has
\* no virtual destructor.
DestroyBase(o) == /\ kind[o] # "none"
                  /\ OpenStream(o, NULL)
                  /\ kind' = [kind EXCEPT ![o] = "none"]
                  /\ tmpfile' = [tmpfile EXCEPT ![o] = NULL]
                  /\ UNCHANGED <<dir, made, orphans>>

Destroy(o) == /\ kind[o] # "none"
              /\ dir' = dir \ {tmpfile[o]}
              /\ OpenStream(o, NULL)
              /\ kind' = [kind EXCEPT ![o] = "none"]
              /\ tmpfile' = [tmpfile EXCEPT ![o] = NULL]
              /\ UNCHANGED <<made, orphans>>

Next == \E o \in Objects :
          \/ ConstructFh(o) \/ MoveAway(o) \/ Destroy(o)
          \/ \E s \in Streams \cup {NULL} :
               \/ ConstructOpened(o, s) \/ Open(o, s)
               \/ \E p \in Paths : ConstructTmpfh(o, p, s)

Spec == Init /\ [][Next]_vars

-----------------------------------------------------------------------------
(***************************************************************************)
(* Type correctness.                                                       *)
(***************************************************************************)
TypeOK == /\ kind \in [Objects -> {"none", "fh", "tmpfh"}]
          /\ fh \in [Objects -> Streams \cup {NULL}]
          /\ tmpfile \in [Objects -> Paths \cup {NULL}]
          /\ opened \subseteq Streams
          /\ dir \subseteq made /\ made \subseteq Paths /\ orphans \subseteq dir

(***************************************************************************)
(* Whatever was opened, reopened, refused and destroyed in whatever order, *)
(* the open streams are those the objects hold, each held by one object:   *)
(* none is lost, and the next __fclose closes none that is closed already. *)
(***************************************************************************)
StreamsHeld ==
  /\ opened = {fh[o] : o \in Objects} \ {NULL}
  /\ \A o, q \in Objects : fh[o] = fh[q] /\ fh[o] # NULL => o = q
  /\ \A o \in Objects : kind[o] = "none" => fh[o] = NULL

(***************************************************************************)
(* A temporary name that exists has an object that will unlink it, and no  *)
(* two objects would unlink the same one; the only others are those of     *)
(* constructors that threw.                                                *)
(***************************************************************************)
NamesOwned ==
  /\ dir \subseteq orphans \cup {tmpfile[o] : o \in Objects}
  /\ \A o \in Objects : tmpfile[o] # NULL => kind[o] = "tmpfh" /\ tmpfile[o] \in made \ orphans
  /\ \A o, q \in Objects : tmpfile[o] = tmpfile[q] /\ tmpfile[o] # NULL => o = q
=============================================================================

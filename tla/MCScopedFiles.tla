---------------------------- MODULE MCScopedFiles ----------------------------
(***************************************************************************)
(* Three objects at a time, as in apply -p: its temporary file, that of    *)
(* the handler and the file that is parsed.                                *)
(***************************************************************************)
EXTENDS ScopedFiles, TLC

Symmetry == Permutations(Objects) \cup Permutations(Streams) \cup Permutations(Paths)
=============================================================================

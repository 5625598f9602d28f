--------------------------- MODULE MCApplyCommand ---------------------------
(***************************************************************************)
(* apply on a file with a piece of text between two placeholders.  The     *)
(* processes have two versions of the package, of which the new one        *)
(* declares a set-user-ID mode.                                            *)
(***************************************************************************)
EXTENDS ApplyCommand

CONSTANTS x, old, new, p1

MCTemplate == <<x, Text, x>>
MCPackage  == [p \in Procs |-> IF p = p1 THEN new ELSE old]
=============================================================================

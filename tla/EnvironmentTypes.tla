-------------------------- MODULE EnvironmentTypes --------------------------
(***************************************************************************)
(* What the variables of rpmctl and the commands upon them are: shared by  *)
(* the abstract environment and by its Berkeley DB implementation.         *)
(***************************************************************************)
EXTENDS Integers, Sequences

CONSTANTS Procs,       \* the processes that run commands
          Keys,        \* the variables, pairs <<namespace, name>>
          Vals,        \* the values they may have
          Undefined,   \* the value of a variable nobody defined
          Commands     \* the commands that may be run

ASSUME KeysAssumption      == \A k \in Keys : k = <<k[1], k[2]>>
ASSUME UndefinedAssumption == Undefined \notin Vals

Spaces == {k[1] : k \in Keys}

(***************************************************************************)
(* put and def write one variable; "read" stands for the lookups of one    *)
(* run of get or of apply, in order; "list" and "spaces" are the two       *)
(* listings of get.                                                        *)
(***************************************************************************)
ASSUME CommandsAssumption ==
  \A c \in Commands :
    \/ c.op \in {"put", "def"} /\ c = [op |-> c.op, key |-> c.key, val |-> c.val]
         /\ c.key \in Keys /\ c.val \in Vals
    \/ c.op = "read"   /\ c = [op |-> "read", keys |-> c.keys] /\ c.keys \in Seq(Keys)
    \/ c.op = "list"   /\ c = [op |-> "list", ns |-> c.ns] /\ c.ns \in Spaces
    \/ c.op = "spaces" /\ c = [op |-> "spaces"]

NoCommand == [op |-> "none"]

Defined(defs) == {k \in Keys : defs[k] # Undefined}
=============================================================================

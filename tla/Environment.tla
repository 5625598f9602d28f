----------------------------- MODULE Environment -----------------------------
(***************************************************************************)
(* What rpmctl::environment promises the commands that use it: a map from  *)
(* variables to values on which every command takes effect at one instant, *)
(* or not at all.  A command that succeeds has taken effect; one that dies *)
(* may or may not have.                                                    *)
(***************************************************************************)
EXTENDS EnvironmentTypes

VARIABLES defs,      \* the values of the variables
          command,   \* what each process runs
          phase,     \* "idle", "called", "performed"
          answer,    \* what each process was told, once performed
          outcome    \* how the last run of each process ended

vars == <<defs, command, phase, answer, outcome>>

Init == /\ defs = [k \in Keys |-> Undefined]
        /\ command = [p \in Procs |-> NoCommand]
        /\ phase = [p \in Procs |-> "idle"]
        /\ answer = [p \in Procs |-> {}]
        /\ outcome = [p \in Procs |-> "none"]

Call(p) == /\ phase[p] = "idle"
           /\ \E c \in Commands : command' = [command EXCEPT ![p] = c]
           /\ phase' = [phase EXCEPT ![p] = "called"]
           /\ outcome' = [outcome EXCEPT ![p] = "none"]
           /\ UNCHANGED <<defs, answer>>

\* The values after command c.
Effect(c) ==
  IF \/ c.op = "put"
     \/ c.op = "def" /\ defs[c.key] = Undefined
  THEN [defs EXCEPT ![c.key] = c.val]
  ELSE defs

\* What c is told.
Reply(c) ==
  CASE c.op = "read"   -> {<<c.keys[i], defs[c.keys[i]]>> : i \in 1 .. Len(c.keys)}
    [] c.op = "list"   -> {<<k, defs[k]>> : k \in {k \in Defined(defs) : k[1] = c.ns}}
    [] c.op = "spaces" -> {k[1] : k \in Defined(defs)}
    [] OTHER           -> {}

Perform(p) == /\ phase[p] = "called"
              /\ phase' = [phase EXCEPT ![p] = "performed"]
              /\ defs' = Effect(command[p])
              /\ answer' = [answer EXCEPT ![p] = Reply(command[p])]
              /\ UNCHANGED <<command, outcome>>

Ends(p, how) == /\ phase' = [phase EXCEPT ![p] = "idle"]
                /\ outcome' = [outcome EXCEPT ![p] = how]
                /\ command' = [command EXCEPT ![p] = NoCommand]
                /\ answer' = [answer EXCEPT ![p] = {}]
                /\ UNCHANGED defs

Succeed(p) == phase[p] = "performed" /\ Ends(p, "success")

Die(p) == phase[p] \in {"called", "performed"} /\ Ends(p, "died")

Next == \E p \in Procs : Call(p) \/ Perform(p) \/ Succeed(p) \/ Die(p)

Spec == Init /\ [][Next]_vars
=============================================================================

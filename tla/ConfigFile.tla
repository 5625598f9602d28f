----------------------------- MODULE ConfigFile -----------------------------
(***************************************************************************)
(* What rpmctl apply promises of a configuration file, whoever else puts   *)
(* variables and applies to it meanwhile: an apply looks at the variables  *)
(* once, when it begins, and at the file once, or takes the packaged one;  *)
(* it replaces the file once, in one step, by the expansion of what it saw *)
(* with the variables it saw; and it succeeds only when it has.            *)
(***************************************************************************)
CONSTANTS Procs, Keys, Vals, Undefined, Template,
          Render(_, _)  \* a file expanded with variables

VARIABLES defs,    \* the variables
          file,    \* the configuration file
          source,  \* process -> "namespace" or "package"
          status,  \* process -> how far its apply is
          view,    \* process -> the variables it saw
          text     \* process -> the file it saw

vars == <<defs, file, source, status, view, text>>

Init == /\ defs = [k \in Keys |-> Undefined]
        /\ file = Template
        /\ source \in [Procs -> {"namespace", "package"}]
        /\ status = [p \in Procs |-> "idle"]
        /\ view = [p \in Procs |-> defs]
        /\ text = [p \in Procs |-> IF source[p] = "package" THEN Template ELSE <<>>]

Becomes(p, s) == status' = [status EXCEPT ![p] = s]

Begin(p) == /\ status[p] = "idle"
            /\ view' = [view EXCEPT ![p] = defs]
            /\ Becomes(p, IF source[p] = "package" THEN "looked" ELSE "begun")
            /\ UNCHANGED <<defs, file, source, text>>

Look(p) == /\ status[p] = "begun"
           /\ text' = [text EXCEPT ![p] = file]
           /\ Becomes(p, "looked")
           /\ UNCHANGED <<defs, file, source, view>>

Replace(p) == /\ status[p] = "looked"
              /\ file' = Render(text[p], view[p])
              /\ Becomes(p, "replaced")
              /\ UNCHANGED <<defs, source, view, text>>

Succeed(p) == /\ status[p] = "replaced"
              /\ Becomes(p, "ok")
              /\ UNCHANGED <<defs, file, source, view, text>>

Fail(p) == /\ status[p] \notin {"ok", "failed"}
           /\ Becomes(p, "failed")
           /\ UNCHANGED <<defs, file, source, view, text>>

Put(k, v) == /\ defs' = [defs EXCEPT ![k] = v]
             /\ UNCHANGED <<file, source, status, view, text>>

Next == \/ \E p \in Procs : Begin(p) \/ Look(p) \/ Replace(p) \/ Succeed(p) \/ Fail(p)
        \/ \E k \in Keys, v \in Vals : Put(k, v)

Spec == Init /\ [][Next]_vars
=============================================================================

----------------------------- MODULE TokenStream -----------------------------
(***************************************************************************)
(* What rpmctl::parser promises its handler, whatever the buffer size and  *)
(* however the file is read: the tokens of the template in order, each     *)
(* once, then the end; or, after some of them, an error.                   *)
(***************************************************************************)
EXTENDS TemplateSyntax

CONSTANT Templates    \* the files the parser may be run on

VARIABLES template, delivered, outcome

vars == <<template, delivered, outcome>>

Init == /\ template \in Templates
        /\ delivered = <<>>
        /\ outcome = "running"

Deliver == /\ outcome = "running"
           /\ \E n \in Len(delivered) + 1 .. Len(Tokens(template)) :
                delivered' = SubSeq(Tokens(template), 1, n)
           /\ UNCHANGED <<template, outcome>>

Finish == /\ outcome = "running"
          /\ delivered = Tokens(template)
          /\ outcome' = "done"
          /\ UNCHANGED <<template, delivered>>

Fail == /\ outcome = "running"
        /\ outcome' = "failed"
        /\ \E n \in Len(delivered) .. Len(Tokens(template)) :
             delivered' = SubSeq(Tokens(template), 1, n)
        /\ UNCHANGED template

Next == Deliver \/ Finish \/ Fail

Spec == Init /\ [][Next]_vars
=============================================================================

-------------------------- MODULE MCTemplateParser --------------------------
(***************************************************************************)
(* TemplateParser on every template of at most MaxLen characters.          *)
(***************************************************************************)
EXTENDS TemplateParser

CONSTANT MaxLen

MCTemplates == UNION {[1 .. n -> Chars] : n \in 0 .. MaxLen}
=============================================================================

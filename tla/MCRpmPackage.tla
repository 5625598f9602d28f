---------------------------- MODULE MCRpmPackage ----------------------------
(***************************************************************************)
(* Two versions of a package: the second has a longer file f, in another   *)
(* place of its archive and set-user-ID for another owner, and a file g    *)
(* that the first does not have.  The caller is the first version's owner. *)
(***************************************************************************)
EXTENDS RpmPackage, TLC

CONSTANTS old, new, f, g, a, b, root, daemon

File(name, data) == [name |-> name, data |-> data]

MCPayload  == old :> <<File(f, <<a>>)>> @@ new :> <<File(g, <<b>>), File(f, <<b, a>>)>>
MCDeclared == old :> {f} @@ new :> {f, g}
MCOwner    == old :> (f :> root @@ g :> root) @@ new :> (f :> daemon @@ g :> root)
MCSpecial  == old :> {} @@ new :> {f}
=============================================================================

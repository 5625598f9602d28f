-------------------------- MODULE MCBdbEnvironment --------------------------
(***************************************************************************)
(* The store with two namespaces, three variables and two values.          *)
(***************************************************************************)
EXTENDS BdbEnvironment

ax == <<"a", "x">>
ay == <<"a", "y">>
bx == <<"b", "x">>

MCKeys == {ax, ay, bx}

Put(k, v) == [op |-> "put", key |-> k, val |-> v]
Def(k, v) == [op |-> "def", key |-> k, val |-> v]
Reading(ks) == [op |-> "read", keys |-> ks]
List(n)   == [op |-> "list", ns |-> n]
Names     == [op |-> "spaces"]

\* Every kind of command; two variables of one namespace and one of another.
AllCommands == {Put(ax, 1), Put(ax, 2), Put(bx, 1), Def(ax, 2), Def(ay, 1),
                Reading(<<ax, ay>>), Reading(<<>>), List("a"), Names}
=============================================================================

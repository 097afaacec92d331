---------------------------- MODULE MCGridOrder ----------------------------
(* Instances of GridOrder for TLC. *)
EXTENDS GridOrder, TLC

Lookup == Role("shared", 1)
OneGroup == {Lookup, Role("main", 1), Role("pkg_count", 1)}
OneLookup == {Lookup}
Names == {Role("alien", 1), Role("test", 0)}
RequestSymmetry == Permutations(Requests)
=============================================================================

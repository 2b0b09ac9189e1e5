---------------------------- MODULE MCClientCache ----------------------------
(* A node of the kind asked for and one whose kind only begins like it. *)
EXTENDS ClientCache, TLC

CONSTANTS build, builder, ns, go, gopher, operator

OneNamespace == [k \in Key |-> ns]
LongerKind == build :> go @@ builder :> gopher
=============================================================================

------------------------------ MODULE MCNodeApi ------------------------------
(* Two clients and three calls. *)
EXTENDS NodeApi

CONSTANTS operator, tool, c1, c2, c3
=============================================================================

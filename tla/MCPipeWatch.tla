----------------------------- MODULE MCPipeWatch -----------------------------
(* The watch server with a few interchangeable connections. *)
EXTENDS PipeWatch, TLC

Symmetry == Permutations(Conn)
=============================================================================

------------------------------ MODULE MCFactory ------------------------------
(* Two goroutines and two kinds. *)
EXTENDS Factory

CONSTANTS main, worker, task, check
=============================================================================

---------------------------- MODULE MCWorkQueue ----------------------------
(* Two items and three consumers: one may work, one wait and one be woken.  *)
EXTENDS WorkQueue
=============================================================================

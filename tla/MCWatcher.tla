------------------------------ MODULE MCWatcher ------------------------------
(* The watcher with a small channel, a few lines and two callers of Stop. *)
EXTENDS Watcher
=============================================================================

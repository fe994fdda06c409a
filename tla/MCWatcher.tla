----------------------------- MODULE MCWatcher -----------------------------
(* An instance of Watcher for TLC: two boards of one task each.            *)
EXTENDS Watcher, TLC

=============================================================================

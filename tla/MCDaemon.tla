------------------------------ MODULE MCDaemon ------------------------------
(* Small instances of Daemon. *)
EXTENDS Daemon, TLC

Symmetry == Permutations(Conn) \cup Permutations(Name)
=============================================================================

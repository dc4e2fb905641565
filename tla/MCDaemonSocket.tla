--------------------------- MODULE MCDaemonSocket ---------------------------
(* Small instances of DaemonSocket for TLC. *)
EXTENDS DaemonSocket, TLC

Symmetry == Permutations(Daemons) \cup Permutations(Clients)
=============================================================================

-------------------------- MODULE MCOutputSession --------------------------
(* Small instances of OutputSession for TLC. *)
EXTENDS OutputSession, TLC

Symmetry == Permutations(Clients)
=============================================================================

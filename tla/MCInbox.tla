------------------------------ MODULE MCInbox ------------------------------
(* Small instances of Inbox for TLC. *)
EXTENDS Inbox

Symmetry == Permutations(Senders) \cup Permutations(Readers)
=============================================================================

--------------------------- MODULE MCAttachStream ---------------------------
(* Small instances of AttachStream for TLC. *)
EXTENDS AttachStream
=============================================================================

----------------------------- MODULE MCPtyWrite -----------------------------
(* Small instances of PtyWrite for TLC. *)
EXTENDS PtyWrite, TLC

CONSTANTS s1, s2, t1

\* A paste and its Enter; a line; two keystrokes.
Scripts == (s1 :> <<2, 1>>) @@ (s2 :> <<2>>) @@ (t1 :> <<1, 1>>)
=============================================================================

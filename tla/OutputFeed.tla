----------------------------- MODULE OutputFeed -----------------------------
(***************************************************************************)
(* What picoswarm promises to those who watch an agent's output            *)
(* (docs/protocol.md, attach and view): whoever joins is given, in order   *)
(* and without a gap, a bounded piece of the recent past and then          *)
(* everything that comes; is told of the end after the last byte, never    *)
(* before; and whoever asks too late is told so.                           *)
(*                                                                         *)
(* The agent's k-th byte of output is represented by the number k.         *)
(***************************************************************************)
EXTENDS Naturals, Sequences

CONSTANTS
  Clients,
  RingBytes,   \* how much of the past is kept
  MaxOutput    \* bound: bytes of output

VARIABLES
  out,     \* length of the output so far
  over,    \* no more output is given to anyone, nobody can join
  state,   \* of each client
  base,    \* where a client's window begins
  seen     \* what it was given
vars == <<out, over, state, base, seen>>

Bytes(lo, hi) == [k \in 1..(hi - lo) |-> lo + k]
Recent(n) == IF n > RingBytes THEN n - RingBytes ELSE 0
Upto(c) == base[c] + Len(seen[c])

Init ==
  /\ out = 0
  /\ over = FALSE
  /\ state = [c \in Clients |-> "idle"]
  /\ base = [c \in Clients |-> 0]
  /\ seen = [c \in Clients |-> <<>>]

Publish(n) ==
  /\ ~over
  /\ out' = out + n
  /\ UNCHANGED <<over, state, base, seen>>

Join(c) ==
  /\ ~over /\ state[c] = "idle"
  /\ state' = [state EXCEPT ![c] = "open"]
  /\ base' = [base EXCEPT ![c] = Recent(out)]
  /\ UNCHANGED <<out, over, seen>>

Deliver(c, hi) ==
  /\ state[c] = "open" /\ hi \in (Upto(c) + 1)..out
  /\ seen' = [seen EXCEPT ![c] = @ \o Bytes(Upto(c), hi)]
  /\ UNCHANGED <<out, over, state, base>>

Close ==
  /\ ~over
  /\ over' = TRUE
  /\ UNCHANGED <<out, state, base, seen>>

\* The end of the session is the last thing a client is given.
End(c) ==
  /\ state[c] = "open" /\ over /\ Upto(c) = out
  /\ state' = [state EXCEPT ![c] = "ended"]
  /\ UNCHANGED <<out, over, base, seen>>

Look(c) ==
  /\ ~over /\ state[c] = "idle"
  /\ state' = [state EXCEPT ![c] = "viewed"]
  /\ base' = [base EXCEPT ![c] = Recent(out)]
  /\ seen' = [seen EXCEPT ![c] = Bytes(Recent(out), out)]
  /\ UNCHANGED <<out, over>>

Refuse(c) ==
  /\ over /\ state[c] = "idle"
  /\ state' = [state EXCEPT ![c] = "refused"]
  /\ UNCHANGED <<out, over, base, seen>>

Leave(c) ==
  /\ state[c] = "open"
  /\ state' = [state EXCEPT ![c] = "left"]
  /\ UNCHANGED <<out, over, base, seen>>

Next ==
  \/ Close
  \/ \E n \in 1..(MaxOutput - out) : Publish(n)
  \/ \E c \in Clients :
       \/ Join(c) \/ End(c) \/ Look(c) \/ Refuse(c) \/ Leave(c)
       \/ \E hi \in 1..MaxOutput : Deliver(c, hi)

Spec == Init /\ [][Next]_vars
=============================================================================

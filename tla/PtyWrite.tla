------------------------------ MODULE PtyWrite ------------------------------
(***************************************************************************)
(* The bytes that reach one agent's terminal: `pswarm send`                *)
(* (src/src/client/send.rs, and its arm in src/src/daemon/server.rs) and   *)
(* the keystrokes of an attached client (server.rs, handle_attach).  Each  *)
(* payload is written by a closure on the runtime's blocking pool, under   *)
(* the agent's write_lock (registry.rs); the write blocks while the        *)
(* terminal's buffer is full.  `rm` runs on the same pool (server.rs), and *)
(* the runtime waits for the closures that have started before the daemon  *)
(* exits (lifecycle.rs).                                                   *)
(*                                                                         *)
(* A payload is a number of pieces, each of which one write(2) may         *)
(* transfer.  Requests are answered in AgentRegistry's terms by lookup and *)
(* remove; what a name may come to mean meanwhile is modelled there.       *)
(***************************************************************************)
EXTENDS Naturals, FiniteSets, SequencesExt

CONSTANTS
  Senders,      \* `send` commands
  Typists,      \* attached clients
  Removers,     \* `rm` commands
  Script,       \* Script[w]: the lengths of the payloads of w, in order
  PoolThreads,  \* threads of the blocking pool
  PtyRoom,      \* pieces the terminal holds until the agent reads them
  None          \* nobody

Writers == Senders \cup Typists
Clients == Writers \cup Removers

ASSUME PtyWriteAssumption ==
  /\ Senders \cap Typists = {} /\ Writers \cap Removers = {} /\ None \notin Clients
  /\ \A w \in Writers : Script[w] \in Seq(Nat \ {0}) /\ Script[w] # <<>>
  /\ IsFiniteSet(Clients)
  /\ PoolThreads \in Nat \ {0} /\ PtyRoom \in Nat \ {0}

VARIABLES
  pc,        \* where each client's request is
  part,      \* the payload a writer is at
  progress,  \* the pieces of it that write_all has written
  queue,     \* closures that wait for a thread of the pool, by client
  holder,    \* who holds write_lock
  bytes,     \* all pieces written to the terminal
  taken,     \* how many of them the agent has read
  reads,     \* does the agent read its input?
  alive,     \* does the agent run?
  open,      \* is its end of the terminal open?
  listed,    \* is the agent in the registry?
  phase      \* the daemon: "serving", "killed" (after shutdown_all),
             \*   "dropping" (the runtime), "exited"

position == <<part, progress>>
pool     == <<queue, holder>>
terminal == <<bytes, taken, open>>
agent    == <<reads, alive>>
vars == <<pc, position, pool, terminal, agent, listed, phase>>

Piece(w, k, n) == [by |-> w, payload |-> k, piece |-> n]

\* The closures a thread of the pool runs.
Started(c) == pc[c] \in {"locking", "writing", "removing"}
Running    == {c \in Clients : Started(c)}

States == {"ready", "queued", "locking", "writing", "removing", "done", "failed", "lost"}

ClientsOK ==
  /\ pc \in [Clients -> States]
  /\ part \in [Writers -> Nat]
  /\ \A w \in Writers : part[w] \in 1..(Len(Script[w]) + 1)
  /\ progress \in [Writers -> Nat]
  /\ \A w \in Writers : pc[w] = "writing" => progress[w] <= Script[w][part[w]]
  /\ \A w \in Writers : pc[w] # "removing"
  /\ \A r \in Removers : pc[r] \notin {"locking", "writing"}
  /\ holder \in Writers \cup {None}
  /\ \A w \in Writers : (holder = w) <=> (pc[w] = "writing")

QueueOK ==
  /\ queue \in Seq(Clients) /\ IsInjective(queue)
  /\ Range(queue) = {c \in Clients : pc[c] = "queued"}

PoolOK == Cardinality(Running) <= PoolThreads

TerminalOK ==
  /\ bytes \in Seq([by : Writers, payload : Nat, piece : Nat])
  /\ \A i \in DOMAIN bytes :
       /\ bytes[i].payload \in DOMAIN Script[bytes[i].by]
       /\ bytes[i].piece \in 1..Script[bytes[i].by][bytes[i].payload]
  /\ taken \in 0..Len(bytes) /\ Len(bytes) - taken <= PtyRoom

DaemonOK ==
  /\ reads \in BOOLEAN /\ alive \in BOOLEAN /\ open \in BOOLEAN /\ listed \in BOOLEAN
  /\ phase \in {"serving", "killed", "dropping", "exited"}

TypeOK == ClientsOK /\ QueueOK /\ PoolOK /\ TerminalOK /\ DaemonOK

Init ==
  /\ pc = [c \in Clients |-> "ready"]
  /\ part = [w \in Writers |-> 1]
  /\ progress = [w \in Writers |-> 0]
  /\ queue = <<>> /\ holder = None
  /\ bytes = <<>> /\ taken = 0
  /\ reads \in BOOLEAN
  /\ alive = TRUE /\ open = TRUE /\ listed = TRUE
  /\ phase = "serving"

Goto(c, s) == pc' = [pc EXCEPT ![c] = s]

\* The runtime polls the handlers until it is dropped.
Served == phase \in {"serving", "killed"}

-----------------------------------------------------------------------------
\* A `send` goes through the registry with each payload; a paste of several
\* lines is two: the text, and 80 ms later the Enter.
Send(s) ==
  /\ Served /\ pc[s] = "ready" /\ listed
  /\ Goto(s, "queued")
  /\ queue' = Append(queue, s)
  /\ UNCHANGED <<position, holder, terminal, agent, listed, phase>>

SendRefused(s) ==
  /\ Served /\ pc[s] = "ready" /\ ~listed
  /\ Goto(s, "failed")
  /\ UNCHANGED <<position, pool, terminal, agent, listed, phase>>

\* (Faulty: the handler takes the next keystroke without awaiting its closure.)
TypeUnawaited(t) ==
  /\ Served /\ pc[t] \in {"ready", "queued"}
  /\ Goto(t, "queued")
  /\ queue' = Append(queue, t)
  /\ UNCHANGED <<position, holder, terminal, agent, listed, phase>>
\* The handler of an attached client has looked the agent up once.
Type(t) ==
  /\ Served /\ pc[t] = "ready"
  /\ Goto(t, "queued")
  /\ queue' = Append(queue, t)
  /\ UNCHANGED <<position, holder, terminal, agent, listed, phase>>

\* Its session is over: the end of the output comes before another keystroke.
SessionEnds(t) ==
  /\ Served /\ pc[t] = "ready" /\ ~open
  /\ Goto(t, "done")
  /\ UNCHANGED <<position, pool, terminal, agent, listed, phase>>

\* remove is queued like a write.
Rm(r) ==
  /\ Served /\ pc[r] = "ready"
  /\ Goto(r, "queued")
  /\ queue' = Append(queue, r)
  /\ UNCHANGED <<position, holder, terminal, agent, listed, phase>>

\* A client is killed between two requests, or never makes the next.
Quit(w) ==
  /\ pc[w] = "ready"
  /\ Goto(w, "lost")
  /\ UNCHANGED <<position, pool, terminal, agent, listed, phase>>

-----------------------------------------------------------------------------
\* The blocking pool takes its closures in order.
NextJob ==
  /\ phase # "dropping" /\ queue # <<>> /\ Cardinality(Running) < PoolThreads
  /\ queue' = Tail(queue)
  /\ LET c == Head(queue) IN
       \/ /\ c \in Writers
          /\ Goto(c, "locking")
          /\ UNCHANGED listed
       \/ /\ c \in Removers
          /\ Goto(c, IF listed THEN "removing" ELSE "failed")
          /\ listed' = FALSE
  /\ UNCHANGED <<position, holder, terminal, agent, phase>>

\* (Faulty: the payload is written without the lock.)
NoLock(w) ==
  /\ pc[w] = "locking"
  /\ Goto(w, "writing")
  /\ holder' = w
  /\ progress' = [progress EXCEPT ![w] = 0]
  /\ UNCHANGED <<part, queue, terminal, agent, listed, phase>>
Lock(w) ==
  /\ pc[w] = "locking" /\ holder = None
  /\ Goto(w, "writing")
  /\ holder' = w
  /\ progress' = [progress EXCEPT ![w] = 0]
  /\ UNCHANGED <<part, queue, terminal, agent, listed, phase>>

\* write_all: one write(2).
WritePiece(w) ==
  /\ pc[w] = "writing" /\ open
  /\ Len(bytes) - taken < PtyRoom
  /\ progress[w] < Script[w][part[w]]
  /\ progress' = [progress EXCEPT ![w] = @ + 1]
  /\ bytes' = Append(bytes, Piece(w, part[w], progress'[w]))
  /\ UNCHANGED <<pc, part, pool, taken, open, agent, listed, phase>>

\* Where a writer goes on: to its next payload, if it has one and the daemon
\* still answers.
After(w) == IF ~Served THEN "lost" ELSE IF part[w] < Len(Script[w]) THEN "ready" ELSE "done"

\* The closure returns, the lock is dropped, the handler answers.
WriteDone(w) ==
  /\ pc[w] = "writing" /\ progress[w] = Script[w][part[w]]
  /\ Goto(w, After(w))
  /\ part' = [part EXCEPT ![w] = @ + 1]
  /\ holder' = None
  /\ UNCHANGED <<progress, queue, terminal, agent, listed, phase>>

\* The terminal has been hung up.  A `send` gives up; the handler of an attached
\* client only logs it and goes on.
WriteFails(w) ==
  /\ pc[w] = "writing" /\ ~open /\ progress[w] < Script[w][part[w]]
  /\ holder' = None
  /\ \/ /\ w \in Senders
        /\ Goto(w, "failed")
        /\ UNCHANGED part
     \/ /\ w \in Typists
        /\ Goto(w, After(w))
        /\ part' = [part EXCEPT ![w] = @ + 1]
  /\ UNCHANGED <<progress, queue, terminal, agent, listed, phase>>

\* (Faulty: the process is not waited for or killed.)
TerminateNothing(r) ==
  /\ pc[r] = "removing"
  /\ Goto(r, "done")
  /\ UNCHANGED <<position, pool, terminal, agent, listed, phase>>
\* terminate_entry: by the end of the grace period at the latest.
Terminate(r) ==
  /\ pc[r] = "removing"
  /\ alive' = FALSE
  /\ Goto(r, "done")
  /\ UNCHANGED <<position, pool, terminal, reads, listed, phase>>

PoolStep == \/ NextJob
            \/ \E w \in Writers : Lock(w) \/ WritePiece(w) \/ WriteDone(w) \/ WriteFails(w)
            \/ \E r \in Removers : Terminate(r)

-----------------------------------------------------------------------------
AgentRead ==
  /\ alive /\ open /\ reads /\ taken < Len(bytes)
  /\ taken' = taken + 1
  /\ UNCHANGED <<pc, position, pool, bytes, open, agent, listed, phase>>

AgentExit ==
  /\ alive
  /\ alive' = FALSE
  /\ UNCHANGED <<pc, position, pool, terminal, reads, listed, phase>>

\* The kernel hangs the terminal of an exited agent up.
HangUp ==
  /\ ~alive /\ open
  /\ open' = FALSE
  /\ UNCHANGED <<pc, position, pool, bytes, taken, agent, listed, phase>>

-----------------------------------------------------------------------------
\* (Faulty: the agents are left alone.)
ShutdownNothing ==
  /\ phase = "serving"
  /\ phase' = "killed" /\ listed' = FALSE
  /\ UNCHANGED <<pc, position, pool, terminal, agent>>
\* shutdown_all kills what the registry still holds.
ShutdownAll ==
  /\ phase = "serving"
  /\ phase' = "killed" /\ listed' = FALSE
  /\ alive' = (alive /\ ~listed)
  /\ UNCHANGED <<pc, position, pool, terminal, reads>>

\* The runtime is dropped: its tasks are cancelled, and so are the closures that
\* have not started.
RuntimeDrop ==
  /\ phase = "killed"
  /\ phase' = "dropping"
  /\ queue' = <<>>
  /\ pc' = [c \in Clients |-> IF pc[c] \in {"ready", "queued"} THEN "lost" ELSE pc[c]]
  /\ UNCHANGED <<position, holder, terminal, agent, listed>>

\* The drop has waited for the others.  The exit of the spawner thread kills an
\* agent that is left.
Exit ==
  /\ phase = "dropping" /\ Running = {}
  /\ phase' = "exited"
  /\ alive' = FALSE
  /\ UNCHANGED <<pc, position, pool, terminal, reads, listed>>

Next ==
  \/ \E s \in Senders : Send(s) \/ SendRefused(s)
  \/ \E t \in Typists : Type(t) \/ SessionEnds(t)
  \/ \E r \in Removers : Rm(r)
  \/ \E w \in Writers : Quit(w)
  \/ PoolStep
  \/ AgentRead \/ AgentExit \/ HangUp
  \/ ShutdownAll \/ RuntimeDrop \/ Exit

Spec == Init /\ [][Next]_vars

\* The threads of the pool and of the daemon are scheduled, the kernel hangs up,
\* an agent that reads goes on reading.  A lock that is free is taken in the end
\* by each that waits: there are finitely many payloads.
Fairness ==
  /\ WF_vars(NextJob)
  /\ \A w \in Writers : /\ WF_vars(Lock(w)) /\ WF_vars(WritePiece(w))
                        /\ WF_vars(WriteDone(w)) /\ WF_vars(WriteFails(w))
  /\ \A r \in Removers : WF_vars(Terminate(r))
  /\ WF_vars(AgentRead) /\ WF_vars(HangUp)
  /\ WF_vars(RuntimeDrop) /\ WF_vars(Exit)
FairSpec == Spec /\ Fairness

-----------------------------------------------------------------------------
\* The pieces of a payload are one run, from the first on, and only the last
\* payload may be cut short: whoever writes, and wherever a write fails
\* (registry.rs, write_lock: "payloads don't interleave").
Ended(p) == p.piece = Script[p.by][p.payload]
Whole ==
  \A i \in DOMAIN bytes :
    \/ bytes[i].piece = 1 /\ (i > 1 => Ended(bytes[i - 1]))
    \/ i > 1 /\ bytes[i] = Piece(bytes[i - 1].by, bytes[i - 1].payload, bytes[i - 1].piece + 1)

\* The payloads of one client arrive in the order it made them.
InOrder ==
  \A i, j \in DOMAIN bytes :
    i < j /\ bytes[i].by = bytes[j].by => bytes[i].payload <= bytes[j].payload

\* A payload that was answered with Ok has reached the terminal, to its end.
OkIsWritten ==
  \A s \in Senders : \A k \in 1..(part[s] - 1) :
    Contains(bytes, Piece(s, k, Script[s][k]))

PayloadsWhole == Whole /\ InOrder /\ OkIsWritten

\* A write that was asked for ends: if the agent reads, and, when it does not, as
\* soon as it exits, a removal has started, or the daemon stops (server.rs, Send
\* and Stdin).
Waiting(w) == pc[w] \in {"queued", "locking", "writing"}
Freed      == reads \/ ~alive \/ phase # "serving" \/ \E r \in Removers : pc[r] = "removing"
WritesEnd  == \A w \in Writers : (Waiting(w) /\ Freed) ~> ~Waiting(w)

\* A stop ends, also when the pool is full of writes that block, with removals
\* queued behind them (server.rs, run; lifecycle.rs, run).
StopEnds == (phase # "serving") ~> (phase = "exited")

-----------------------------------------------------------------------------
(* What the repository says of the program and the code does not do.       *)

\* "Blocks for up to the grace period" (registry.rs, remove): a removal that was
\* asked for takes place.  The writes that wait for an agent that does not read
\* hold the threads it needs, and only it would free them.
RmTakesPlace == \A r \in Removers : (pc[r] = "queued") ~> (pc[r] # "queued")

\* The Enter of a paste submits that paste (send.rs: "the second CR is what
\* actually submits it"): nobody's bytes come between the two.
SubmitsOwnText ==
  \A i \in DOMAIN bytes \ {1} :
    bytes[i].by \in Senders /\ bytes[i].payload > 1 /\ bytes[i].piece = 1
      => bytes[i - 1].by = bytes[i].by
=============================================================================

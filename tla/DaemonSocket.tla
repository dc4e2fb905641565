---------------------------- MODULE DaemonSocket ----------------------------
(***************************************************************************)
(* Which daemon answers on the socket: daemons that start, stop and crash  *)
(* (server.rs run, lifecycle.rs start) and clients that connect, start a   *)
(* daemon when none answers, stop one and restart one (connection.rs,      *)
(* client/daemon.rs).  They share one path in the file system, and every   *)
(* look at it, connect, bind or removal is a system call of its own.       *)
(*                                                                         *)
(* Nobody is attached to an agent here, so a Shutdown is never refused.    *)
(***************************************************************************)
EXTENDS Naturals, FiniteSets

CONSTANTS
  Daemons,      \* daemon processes: a bound on how many are ever started
  Clients,      \* `pswarm` processes, and the commands they may run:
  Commands,     \*   "use" (anything that autostarts), "stop", "restart"
  Nobody,       \* no daemon
  Stale,        \* whose socket file was left behind before the first step
  CommandBound, \* bound: commands run in all
  Crashes,      \* may a daemon die at any point?
  Timeouts      \* may a client's two seconds pass?

ASSUME SocketAssumption ==
  /\ Nobody \notin Daemons /\ Stale \notin Daemons /\ Nobody # Stale
  /\ Commands \subseteq {"use", "stop", "restart"}
  /\ CommandBound \in Nat
  /\ Crashes \in BOOLEAN /\ Timeouts \in BOOLEAN

VARIABLES
  path,       \* who bound the socket file that is there, or Nobody: no file
  listening,  \* the daemons whose listener accepts connections
  dpc,        \* of each daemon
  crashed,    \* the daemons that died
  pc, command, peer, \* of each client, and its connection
  ran,        \* how many commands were run
  alone       \* the client whose command has met no other and no crash, or Nobody

daemon  == <<path, listening, dpc, crashed>>
history == <<ran, alone>>
client  == <<pc, command, peer, history>>
vars == <<daemon, client>>

Starting == {"check", "probe", "remove", "bind", "listen", "chmod"}
Leaving  == {"closing", "killing", "unlinking"}
TypeOK ==
  /\ path \in Daemons \cup {Nobody, Stale}
  /\ listening \subseteq Daemons
  /\ dpc \in [Daemons -> {"unborn", "serving", "gone"} \cup Starting \cup Leaving]
  /\ crashed \subseteq Daemons
  /\ pc \in [Clients -> {"idle", "connect", "wait", "hello", "request", "gone?", "done", "failed", "late"}]
  /\ command \in [Clients -> {"none", "use", "stop", "restart", "again"}]
  /\ peer \in [Clients -> Daemons \cup {Nobody}]
  /\ ran \in 0..CommandBound
  /\ alone \in Clients \cup {Nobody}

Init ==
  /\ path \in {Nobody, Stale}
  /\ listening = {}
  /\ dpc = [d \in Daemons |-> "unborn"]
  /\ crashed = {}
  /\ pc = [c \in Clients |-> "idle"]
  /\ command = [c \in Clients |-> "none"]
  /\ peer = [c \in Clients |-> Nobody]
  /\ ran = 0
  /\ alone = Nobody

\* connect(2): refused by a file whose socket nobody listens on.
Answers == path \in listening

-----------------------------------------------------------------------------
(* The daemon, server::run. *)

Go(d, s) == dpc' = [dpc EXCEPT ![d] = s]
\* An error is returned, up to main: the listener, if any, is closed.
Fail(d) == Go(d, "gone") /\ listening' = listening \ {d}

\* socket_path.exists()
Check(d) ==
  /\ dpc[d] = "check"
  /\ Go(d, IF path = Nobody THEN "bind" ELSE "probe")
  /\ UNCHANGED <<path, listening, crashed, client>>

\* (Faulty: a file is taken for a daemon that answers.)
ProbeTrusting(d) ==
  /\ dpc[d] = "probe"
  /\ Go(d, "gone")
  /\ UNCHANGED <<path, listening, crashed, client>>
\* A daemon that answers makes this one leave without a word.
Probe(d) ==
  /\ dpc[d] = "probe"
  /\ Go(d, IF Answers THEN "gone" ELSE "remove")
  /\ UNCHANGED <<path, listening, crashed, client>>

\* Whatever is at the path by now is removed; nothing there is an error.
RemoveStale(d) ==
  /\ dpc[d] = "remove"
  /\ IF path = Nobody THEN Go(d, "gone") ELSE Go(d, "bind")
  /\ path' = Nobody
  /\ UNCHANGED <<listening, crashed, client>>

\* UnixListener::bind is bind(2), which fails on an existing file...
Bind(d) ==
  /\ dpc[d] = "bind"
  /\ IF path = Nobody THEN path' = d /\ Go(d, "listen")
                      ELSE Go(d, "gone") /\ UNCHANGED path
  /\ UNCHANGED <<listening, crashed, client>>

\* ...and listen(2).
Listen(d) ==
  /\ dpc[d] = "listen"
  /\ listening' = listening \cup {d}
  /\ Go(d, "chmod")
  /\ UNCHANGED <<path, crashed, client>>

\* set_permissions goes by the path again.
Chmod(d) ==
  /\ dpc[d] = "chmod"
  /\ IF path = Nobody THEN Fail(d) ELSE Go(d, "serving") /\ UNCHANGED listening
  /\ UNCHANGED <<path, crashed, client>>

\* After the accept loop: the listener is dropped, the agents are killed, the
\* file at the path is removed, the runtime is dropped.
CloseListener(d) ==
  /\ dpc[d] = "closing"
  /\ listening' = listening \ {d}
  /\ Go(d, "killing")
  /\ UNCHANGED <<path, crashed, client>>

KillAgents(d) ==
  /\ dpc[d] = "killing"
  /\ Go(d, "unlinking")
  /\ UNCHANGED <<path, listening, crashed, client>>

\* (Faulty: the file is left behind.)
UnlinkNothing(d) ==
  /\ dpc[d] = "unlinking"
  /\ Go(d, "gone")
  /\ UNCHANGED <<path, listening, crashed, client>>
Unlink(d) ==
  /\ dpc[d] = "unlinking"
  /\ path' = Nobody
  /\ Go(d, "gone")
  /\ UNCHANGED <<listening, crashed, client>>

DaemonStep(d) == Check(d) \/ Probe(d) \/ RemoveStale(d) \/ Bind(d) \/ Listen(d)
                 \/ Chmod(d) \/ CloseListener(d) \/ KillAgents(d) \/ Unlink(d)

\* A panic, a SIGKILL, or an accept() that fails: the file stays.
Crash(d) ==
  /\ Crashes /\ dpc[d] \notin {"unborn", "gone"}
  /\ Fail(d)
  /\ crashed' = crashed \cup {d}
  /\ alone' = Nobody
  /\ UNCHANGED <<path, pc, command, peer, ran>>

-----------------------------------------------------------------------------
(* The clients. *)

Move(c, s) == pc' = [pc EXCEPT ![c] = s]
Autostarts(c) == command[c] \in {"use", "again"}
Reach(c, s) == /\ Move(c, s)
               /\ peer' = [peer EXCEPT ![c] = path]
               /\ UNCHANGED <<command, history>>

\* Nothing is under way but what serves.
Resting(b) == pc[b] \in {"idle", "done", "failed", "late"}
Calm       == /\ \A b \in Clients : Resting(b)
              /\ \A d \in Daemons : dpc[d] \in {"unborn", "chmod", "serving", "gone"}

Start(c, what) ==
  /\ Resting(c) /\ ran < CommandBound
  /\ pc' = [pc EXCEPT ![c] = "connect"]
  /\ command' = [command EXCEPT ![c] = what]
  /\ ran' = ran + 1
  /\ alone' = IF Calm THEN c ELSE Nobody
  /\ UNCHANGED <<daemon, peer>>

\* (Faulty: a file is taken for a daemon that answers.)
ConnectTrusting(c) ==
  /\ pc[c] = "connect" /\ path # Nobody
  /\ Reach(c, "hello")
  /\ UNCHANGED daemon
Connect(c) ==
  /\ pc[c] = "connect" /\ Answers
  /\ Reach(c, "hello")
  /\ UNCHANGED daemon

\* connect_no_spawn; a restart takes any failure for "no daemon is running" and
\* goes on as any command that starts one.
NoDaemon(c) ==
  /\ Move(c, IF command[c] = "stop" THEN "failed" ELSE "connect")
  /\ command' = [command EXCEPT ![c] = IF @ = "restart" THEN "again" ELSE @]

ConnectNoSpawn(c) ==
  /\ pc[c] = "connect" /\ ~Answers /\ command[c] \in {"stop", "restart"}
  /\ NoDaemon(c)
  /\ UNCHANGED <<daemon, peer, history>>

\* connect_with_handshake starts a daemon, whichever process it is.
SpawnDaemon(c, d) ==
  /\ pc[c] = "connect" /\ ~Answers /\ Autostarts(c)
  /\ dpc[d] = "unborn" /\ d = CHOOSE e \in Daemons : dpc[e] = "unborn"
  /\ Go(d, "check")
  /\ Move(c, "wait")
  /\ UNCHANGED <<path, listening, crashed, command, peer, history>>

\* wait_for_socket: connect again until it works.
WaitForSocket(c) ==
  /\ pc[c] = "wait" /\ Answers
  /\ Reach(c, "hello")
  /\ UNCHANGED daemon

\* The handshake, with a handler that lives until the runtime is dropped.
HelloOk(c) ==
  /\ pc[c] = "hello" /\ dpc[peer[c]] \in {"serving"} \cup Leaving
  /\ Move(c, IF Autostarts(c) THEN "done" ELSE "request")
  /\ UNCHANGED <<daemon, command, peer, history>>

\* A connection that was not accepted when the listener was dropped is reset.
HelloFails(c) ==
  /\ pc[c] = "hello" /\ peer[c] \notin listening
  /\ IF Autostarts(c) THEN Move(c, "failed") /\ UNCHANGED command ELSE NoDaemon(c)
  /\ UNCHANGED <<daemon, peer, history>>

\* Shutdown, its Ok, and the notify of the accept loop.
Shutdown(c) ==
  /\ pc[c] = "request" /\ dpc[peer[c]] # "gone"
  /\ IF dpc[peer[c]] = "serving" THEN Go(peer[c], "closing") ELSE UNCHANGED dpc
  /\ Move(c, "gone?")
  /\ UNCHANGED <<path, listening, crashed, command, peer, history>>

\* The daemon died, or left on another's request, before it answered.
ShutdownLost(c) ==
  /\ pc[c] = "request" /\ dpc[peer[c]] # "serving"
  /\ Move(c, "failed")
  /\ UNCHANGED <<daemon, command, peer, history>>

\* (Faulty: the wait ends with the acknowledgement.)
WaitForNothing(c) ==
  /\ pc[c] = "gone?"
  /\ Move(c, IF command[c] = "stop" THEN "done" ELSE "connect")
  /\ command' = [command EXCEPT ![c] = IF @ = "restart" THEN "again" ELSE @]
  /\ UNCHANGED <<daemon, peer, history>>
\* wait_for_socket_gone: the path is missing or refuses a connection.
WaitForSocketGone(c) ==
  /\ pc[c] = "gone?" /\ ~Answers
  /\ Move(c, IF command[c] = "stop" THEN "done" ELSE "connect")
  /\ command' = [command EXCEPT ![c] = IF @ = "restart" THEN "again" ELSE @]
  /\ UNCHANGED <<daemon, peer, history>>

\* The two seconds of either wait are over.
GiveUp(c) ==
  /\ Timeouts /\ pc[c] \in {"wait", "gone?"}
  /\ Move(c, "late")
  /\ alone' = Nobody
  /\ UNCHANGED <<daemon, command, peer, ran>>

ClientStep(c) ==
  \/ Connect(c) \/ ConnectNoSpawn(c) \/ WaitForSocket(c)
  \/ HelloOk(c) \/ HelloFails(c)
  \/ Shutdown(c) \/ ShutdownLost(c) \/ WaitForSocketGone(c)
  \/ \E d \in Daemons : SpawnDaemon(c, d)

Next ==
  \/ \E d \in Daemons : DaemonStep(d) \/ Crash(d)
  \/ \E c \in Clients : \/ ClientStep(c) \/ GiveUp(c)
                        \/ \E what \in Commands : Start(c, what)

Spec == Init /\ [][Next]_vars

\* Processes that can run do.
Fairness == /\ \A d \in Daemons : WF_vars(DaemonStep(d))
            /\ \A c \in Clients : WF_vars(ClientStep(c))
FairSpec == Spec /\ Fairness

-----------------------------------------------------------------------------
\* A socket file that nobody serves was left by a daemon that died: whatever
\* start, stop and restart do to one another, none of them leaves a file behind
\* (server.rs, run).
NoLeftover == \A d \in Daemons : path = d /\ dpc[d] = "gone" => d \in crashed

\* A stop or restart that has seen the socket go is right that the daemon it
\* stopped takes no more connections, whatever the other commands did to that
\* daemon meanwhile, as long as no second daemon has been started
\* (connection.rs, wait_for_socket_gone).
StopStops ==
  [][\A c \in Clients :
        /\ pc[c] = "gone?" /\ pc'[c] \in {"done", "connect"}
        /\ \A d \in Daemons : d = peer[c] \/ dpc[d] = "unborn"
        => peer[c] \notin listening]_vars

\* A command that starts a daemon when none answers ends up connected, whatever
\* daemons died before and left at the path, or stopped, unless another command or
\* a crash gets in between: a stale file is told from a live one and replaced
\* (server.rs, run; connection.rs, connect_with_handshake).
UseSucceeds ==
  \A c \in Clients :
    (pc[c] = "connect" /\ command[c] = "use" /\ alone = c)
      ~> (pc[c] = "done" \/ alone # c \/ \A d \in Daemons : dpc[d] # "unborn")

\* A restart that nothing disturbs ends up connected too.
RestartServes ==
  \A c \in Clients :
    (pc[c] = "connect" /\ command[c] = "again" /\ alone = c)
      ~> (pc[c] = "done" \/ alone # c \/ \A d \in Daemons : dpc[d] # "unborn")

\* Only one daemon has the socket.
SingleInstance == \A d, e \in listening : d = e

\* A client that goes on after wait_for_socket_gone knows that the daemon has
\* exited.
StopConfirmsExit ==
  [][\A c \in Clients : pc[c] = "gone?" /\ pc'[c] \in {"done", "connect"}
       => dpc[peer[c]] = "gone"]_vars
=============================================================================

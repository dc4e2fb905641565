------------------------------ MODULE Commands ------------------------------
(***************************************************************************)
(* The `pswarm` commands from end to end: what each process checks, whom   *)
(* it asks, in how many requests, and what it reports (main.rs, cli.rs,    *)
(* client/*.rs), against a daemon that answers, stops, dies, is started    *)
(* again, and may be left over from an older build.                        *)
(*                                                                         *)
(* A request takes effect in one step: how requests interleave within the  *)
(* daemon is AgentRegistry's matter, and how daemons contend for the       *)
(* socket DaemonSocket's.  Several commands of several users run at once,  *)
(* and between two requests of one of them anything may happen.            *)
(***************************************************************************)
EXTENDS Config, FiniteSets

CONSTANTS
  Clients,     \* `pswarm` processes
  Commands,    \* the command lines: [verb, name, how]
  Names,       \* well-formed names, Self among them
  Self,        \* "self": well-formed for a client, not for the daemon
  Configs,     \* the contents config.toml may have: [parses, key, template]
  NoTemplate,  \* there is no [spawn] section
  Builds,      \* the daemons there may be at first: "none", "own", "older"
  MaxCommands, \* bound: commands run in all
  Crashes      \* may the daemon die?

Verbs == {"run", "register", "rm", "clean", "ls", "view", "cwd", "send", "attach",
          "event", "complete", "stop", "restart"}

\* What a command line may ask for (cli.rs), and whether its text is a long one
\* (send.rs).
HowsOf(verb) == CASE verb = "run"                  -> {"attach", "detach", "spawn"}
                  [] verb = "send"                 -> {"one", "two"}
                  [] verb \in {"stop", "restart"}  -> {"polite", "force"}
                  [] OTHER                         -> {"plain"}

ASSUME CommandsAssumption ==
  /\ \A cmd \in Commands : cmd \in [verb : Verbs, name : STRING, how : HowsOf(cmd.verb)]
  /\ Self \in Names /\ Names \subseteq STRING
  /\ \A file \in Configs : file.template \in {NoTemplate} \cup Seq(Seq(STRING))
  /\ Builds \subseteq {"none", "own", "older"}
  /\ MaxCommands \in Nat
  /\ Crashes \in BOOLEAN

VARIABLES
  daemon, build, boot, \* what the daemon is doing, its build, how many there were
  starter,      \* a daemon process has been launched and is not up yet
  byName,       \* the registry: an agent, or 0
  nameOf, kind, \* of each agent
  exited,       \* the agents whose process has exited
  attached,     \* the agents somebody is attached to
  pc, command, part, \* of each client: where it is, what it runs, which half
  conn, reply,  \* the boot it is connected to, what it was answered
  template, argv, \* the [spawn] template it loaded, what it made of it
  outcome,      \* how its last command ended
  made, ran,    \* how many agents, commands so far
  effects,      \* what was done for its command
  met           \* the daemon a restart found

registry == <<byName, nameOf, kind, exited, attached, made>>
server   == <<daemon, build, boot, starter>>
asking   == <<command, part, conn, reply, template, argv, effects, met>>
process  == <<pc, asking, outcome, ran>>
vars == <<server, registry, process>>

\* A command makes at most one agent, and starts at most two daemons.
Agents == 1..MaxCommands
Boots  == 0..2 * MaxCommands + 1
Outcomes == {"none", "ok", "refused", "denied", "mismatch", "nodaemon", "late", "lost", "exec"}

TypeOK ==
  /\ daemon \in {"none", "up", "closing"} /\ build \in {"own", "older"}
  /\ boot \in Boots /\ starter \in BOOLEAN
  /\ byName \in [Names -> {0} \cup Agents]
  /\ \A n \in Names : byName[n] # 0 => nameOf[byName[n]] = n /\ byName[n] <= made
  /\ byName[Self] = 0
  /\ kind \in [Agents -> {"none", "spawned", "registered"}]
  /\ exited \subseteq Agents /\ attached \subseteq Agents
  /\ pc \in [Clients -> {"idle", "start", "connect", "wait", "ask", "told", "launch",
                         "streaming", "gone?"}]
  /\ part \in [Clients -> 1..2]
  /\ conn \in [Clients -> Boots] /\ met \in [Clients -> Boots]
  /\ reply \in [Clients -> {"none", "ok", "denied"}]
  /\ outcome \in [Clients -> Outcomes]
  /\ made \in 0..MaxCommands /\ ran \in 0..MaxCommands

\* No name on the command line, or none in the environment.
Unnamed   == ""
NoCommand == [verb |-> "ls", name |-> Unnamed, how |-> "plain"]

Init ==
  /\ \E b \in Builds : /\ daemon = IF b = "none" THEN "none" ELSE "up"
                       /\ build = IF b = "older" THEN "older" ELSE "own"
                       /\ boot = IF b = "none" THEN 0 ELSE 1
  /\ starter = FALSE
  /\ byName = [n \in Names |-> 0]
  /\ nameOf = [i \in Agents |-> Unnamed]
  /\ kind = [i \in Agents |-> "none"]
  /\ exited = {} /\ attached = {}
  /\ pc = [c \in Clients |-> "idle"]
  /\ command = [c \in Clients |-> NoCommand]
  /\ part = [c \in Clients |-> 1]
  /\ conn = [c \in Clients |-> 0] /\ met = [c \in Clients |-> 0]
  /\ reply = [c \in Clients |-> "none"]
  /\ template = [c \in Clients |-> NoTemplate]
  /\ argv = [c \in Clients |-> <<>>]
  /\ outcome = [c \in Clients |-> "none"]
  /\ made = 0 /\ ran = 0
  /\ effects = [c \in Clients |-> {}]

-----------------------------------------------------------------------------
Verb(c) == command[c].verb
Name(c) == command[c].name
How(c)  == command[c].how

\* The request that is due: run and restart make two, and so does a long send.
Request(c) == IF Verb(c) = "run" /\ part[c] = 2 THEN "attach" ELSE Verb(c)

\* connect_with_handshake, or connect_no_spawn?
Autostarts(c) == Verb(c) \notin {"stop", "complete"} /\ ~(Verb(c) = "restart" /\ part[c] = 1)

\* event and the shell completion keep their errors to themselves.
Silent(c) == Verb(c) \in {"event", "complete"}

Goto(c, s) == pc' = [pc EXCEPT ![c] = s]
Move(c, s) == Goto(c, s) /\ UNCHANGED <<asking, outcome, ran>>
SecondPart(c, s) ==
  /\ Goto(c, s) /\ part' = [part EXCEPT ![c] = 2]
  /\ UNCHANGED <<command, conn, reply, template, argv, effects, met, outcome, ran>>
\* The process is over, and what it knew is gone.
Finish(c, how) ==
  /\ Goto(c, "idle")
  /\ outcome' = [outcome EXCEPT ![c] = IF Silent(c) THEN "ok" ELSE how]
  /\ command' = [command EXCEPT ![c] = NoCommand]
  /\ part' = [part EXCEPT ![c] = 1]
  /\ conn' = [conn EXCEPT ![c] = 0] /\ met' = [met EXCEPT ![c] = 0]
  /\ reply' = [reply EXCEPT ![c] = "none"]
  /\ template' = [template EXCEPT ![c] = NoTemplate]
  /\ argv' = [argv EXCEPT ![c] = <<>>]
  /\ effects' = [effects EXCEPT ![c] = {}]
  /\ UNCHANGED ran

Connected(c) == daemon # "none" /\ conn[c] = boot

-----------------------------------------------------------------------------
(* The process, up to its connection. *)

\* cli.rs, main.rs.
Start(c, cmd) ==
  /\ pc[c] = "idle" /\ ran < MaxCommands
  /\ Goto(c, "start")
  /\ command' = [command EXCEPT ![c] = cmd]
  /\ outcome' = [outcome EXCEPT ![c] = "none"]
  /\ met' = [met EXCEPT ![c] = IF cmd.verb = "restart" /\ daemon # "none" THEN boot ELSE 0]
  /\ ran' = ran + 1
  /\ UNCHANGED <<server, registry, part, conn, reply, template, argv, effects>>

\* What config.toml must provide by now: run --spawn resolves its template, an
\* attach its detach key.
Templated(c) == Request(c) = "run" /\ How(c) = "spawn"
Provides(c, file) ==
  CASE Templated(c) -> /\ file.parses /\ file.template # NoTemplate
                       /\ ResolveSpawnArgv(file.template, Name(c)).ok
    [] Request(c) = "attach" -> file.parses /\ ParseDetachKey(file.key).ok
    [] OTHER -> TRUE

\* run checks its name first of all (validate_name); event without a name in its
\* environment has nothing to do.  The user may edit the file at any time.
Load(c, file) ==
  /\ pc[c] = "start"
  /\ CASE Verb(c) = "event" /\ Name(c) = Unnamed -> Finish(c, "ok")
       [] Request(c) = "run" /\ Name(c) \notin Names -> Finish(c, "refused")
       [] ~Provides(c, file) -> Finish(c, "refused")
       [] OTHER ->
            /\ Goto(c, "connect")
            /\ template' = [template EXCEPT ![c] = IF Templated(c) THEN file.template ELSE @]
            /\ argv' = [argv EXCEPT ![c] =
                 IF Templated(c) THEN ResolveSpawnArgv(file.template, Name(c)).argv ELSE @]
            /\ UNCHANGED <<command, part, conn, reply, effects, met, outcome, ran>>
  /\ UNCHANGED <<server, registry>>

\* handshake: a daemon of another protocol version refuses.  A restart takes any
\* failure of connect_no_spawn for "no daemon is running".
HandshakeFails(c, how) ==
  IF Verb(c) = "restart" /\ part[c] = 1 THEN SecondPart(c, "connect") ELSE Finish(c, how)

Connect(c) ==
  /\ pc[c] \in {"connect", "wait"} /\ daemon = "up" /\ build = "own"
  /\ Goto(c, "ask")
  /\ conn' = [conn EXCEPT ![c] = boot]
  /\ UNCHANGED <<server, registry, command, part, reply, template, argv, effects, met,
                 outcome, ran>>

Mismatch(c) ==
  /\ pc[c] \in {"connect", "wait"} /\ daemon = "up" /\ build = "older"
  /\ HandshakeFails(c, "mismatch")
  /\ UNCHANGED <<server, registry>>

\* A connection that was not accepted before the listener was dropped.
Reset(c) ==
  /\ pc[c] \in {"connect", "wait"} /\ daemon = "closing"
  /\ HandshakeFails(c, "lost")
  /\ UNCHANGED <<server, registry>>

ConnectNoSpawn(c) ==
  /\ pc[c] = "connect" /\ daemon # "up" /\ ~Autostarts(c)
  /\ HandshakeFails(c, "nodaemon")
  /\ UNCHANGED <<server, registry>>

SpawnDaemon(c) ==
  /\ pc[c] = "connect" /\ daemon # "up" /\ Autostarts(c)
  /\ starter' = TRUE
  /\ Move(c, "wait")
  /\ UNCHANGED <<daemon, build, boot, registry>>

\* wait_for_socket, wait_for_socket_gone: two seconds.  (Faulty: the second has no
\* deadline.)
GiveUpStarting(c) ==
  /\ pc[c] = "wait"
  /\ Finish(c, "late")
  /\ UNCHANGED <<server, registry>>
GiveUp(c) ==
  /\ pc[c] \in {"wait", "gone?"}
  /\ Finish(c, "late")
  /\ UNCHANGED <<server, registry>>

\* The second half of a restart asks for nothing more.
Restarted(c) ==
  /\ pc[c] = "ask" /\ Verb(c) = "restart" /\ part[c] = 2
  /\ Finish(c, "ok")
  /\ UNCHANGED <<server, registry>>

-----------------------------------------------------------------------------
(* The daemon answers (handle_connection_inner, handle_oneshot). *)

Answer(c, what, done) ==
  /\ Connected(c)
  /\ Goto(c, "told")
  /\ reply' = [reply EXCEPT ![c] = what]
  /\ effects' = [effects EXCEPT ![c] = @ \cup done]
  /\ UNCHANGED <<command, part, conn, template, argv, met, outcome, ran>>
Deny(c)         == Answer(c, "denied", {}) /\ UNCHANGED <<server, registry>>
Asked(c, verbs) == pc[c] = "ask" /\ Request(c) \in verbs

\* The agent of the name asked for, or 0; one with a terminal.
Target(c)  == IF Name(c) \in Names THEN byName[Name(c)] ELSE 0
Spawned(i) == i # 0 /\ kind[i] = "spawned"

\* handle_run and handle_register: the daemon checks the name again, and "self" is
\* not one (validate_agent_name); a taken name is refused.
Register(c) ==
  /\ made' = made + 1
  /\ byName' = [byName EXCEPT ![Name(c)] = made']
  /\ nameOf' = [nameOf EXCEPT ![made'] = Name(c)]
  /\ kind' = [kind EXCEPT ![made'] = IF Verb(c) = "run" THEN "spawned" ELSE "registered"]
  /\ Answer(c, "ok", {<<"claim", made'>>})
  /\ UNCHANGED <<server, exited, attached>>
\* (Faulty: the client's check is taken for enough.)
ClaimUnchecked(c) ==
  /\ Asked(c, {"run", "register"}) /\ Name(c) \in Names /\ Target(c) = 0
  /\ Register(c)
Claim(c) ==
  /\ Asked(c, {"run", "register"}) /\ Name(c) \in Names \ {Self} /\ Target(c) = 0
  /\ Register(c)
ClaimDenied(c) ==
  /\ \/ Asked(c, {"run", "register"}) /\ Name(c) \notin Names \ {Self}
     \/ Asked(c, {"register"}) /\ Target(c) # 0
     \/ Asked(c, {"run"})   \* no terminal, or the program cannot be started
  /\ Deny(c)
\* A run is refused when its process has been forked: the name is taken by then, or
\* its session cannot be completed.  The process runs on, and has no entry.
ClaimStrands(c) ==
  /\ Asked(c, {"run"}) /\ Name(c) \in Names \ {Self}
  /\ made' = made + 1
  /\ nameOf' = [nameOf EXCEPT ![made'] = Name(c)]
  /\ kind' = [kind EXCEPT ![made'] = "spawned"]
  /\ Answer(c, "denied", {<<"fork", made'>>})
  /\ UNCHANGED <<server, byName, exited, attached>>

Rm(c) ==
  /\ Asked(c, {"rm"}) /\ Target(c) # 0
  /\ byName' = [byName EXCEPT ![Name(c)] = 0]
  /\ exited' = exited \cup {Target(c)}
  /\ Answer(c, "ok", {<<"remove", Target(c)>>})
  /\ UNCHANGED <<server, nameOf, kind, attached, made>>
RmDenied(c) ==
  /\ Asked(c, {"rm"}) /\ Target(c) = 0
  /\ Deny(c)

Clean(c) ==
  /\ Asked(c, {"clean"})
  /\ LET swept == {i \in exited : byName[nameOf[i]] = i} IN
       /\ byName' = [n \in Names |-> IF byName[n] \in swept THEN 0 ELSE byName[n]]
       /\ Answer(c, "ok", {<<"remove", i>> : i \in swept})
  /\ UNCHANGED <<server, nameOf, kind, exited, attached, made>>

\* ls and doctor; the shell completion; view and cwd, which need a terminal and,
\* by the time they look, a session or a process.
Look(c) ==
  /\ \/ Asked(c, {"ls", "complete"})
     \/ Asked(c, {"view", "cwd"}) /\ Spawned(Target(c))
  /\ Answer(c, "ok", {}) /\ UNCHANGED <<server, registry>>
LookDenied(c) ==
  /\ Asked(c, {"view", "cwd"}) /\ (Spawned(Target(c)) => Target(c) \in exited)
  /\ Deny(c)

\* A write, which lasts until the agent has read enough.
Send(c) ==
  /\ Asked(c, {"send"}) /\ Spawned(Target(c))
  /\ Answer(c, "ok", {<<"write", Target(c), part[c]>>}) /\ UNCHANGED <<server, registry>>
SendDenied(c) ==
  /\ Asked(c, {"send"}) /\ ~Spawned(Target(c))
  /\ Deny(c)
\* It fails when the terminal is hung up, perhaps after a part of the payload.
SendFails(c) ==
  /\ Asked(c, {"send"}) /\ Spawned(Target(c))
  /\ \E written \in {{}, {<<"part", Target(c), part[c]>>}} : Answer(c, "denied", written)
  /\ UNCHANGED <<server, registry>>

Event(c) ==
  /\ Asked(c, {"event"})
  /\ IF Target(c) = 0 THEN Answer(c, "denied", {})
                      ELSE Answer(c, "ok", {<<"event", Target(c)>>})
  /\ UNCHANGED <<server, registry>>

Attach(c) ==
  /\ Asked(c, {"attach"}) /\ Spawned(Target(c)) /\ Target(c) \notin attached
  /\ attached' = attached \cup {Target(c)}
  /\ Answer(c, "ok", {<<"attach", Target(c)>>})
  /\ UNCHANGED <<server, byName, nameOf, kind, exited, made>>
AttachDenied(c) ==
  /\ Asked(c, {"attach"}) /\ (Spawned(Target(c)) => Target(c) \in attached)
  /\ Deny(c)

\* attached_names, then the acknowledgement and the notify.
Listed == {byName[n] : n \in Names}
Shutdown(c) ==
  /\ Asked(c, {"stop", "restart"}) /\ part[c] = 1
  /\ How(c) = "force" \/ attached \cap Listed = {}
  /\ daemon' = "closing"
  /\ Answer(c, "ok", {<<"shutdown", boot>>})
  /\ UNCHANGED <<build, boot, starter, registry>>
ShutdownDenied(c) ==
  /\ Asked(c, {"stop", "restart"}) /\ part[c] = 1
  /\ How(c) # "force" /\ attached \cap Listed # {}
  /\ Deny(c)

Serve(c) ==
  \/ Claim(c) \/ ClaimDenied(c) \/ ClaimStrands(c) \/ Rm(c) \/ RmDenied(c) \/ Clean(c)
  \/ Look(c) \/ LookDenied(c) \/ Send(c) \/ SendDenied(c) \/ SendFails(c)
  \/ Event(c) \/ Attach(c) \/ AttachDenied(c)
  \/ Shutdown(c) \/ ShutdownDenied(c)

-----------------------------------------------------------------------------
(* The process, from its answer on. *)

\* What an Ok leads to.
GoOn(c) ==
  CASE Templated(c) -> Move(c, "launch")
    [] Request(c) = "run" /\ How(c) = "attach" -> SecondPart(c, "start")
    [] Request(c) = "attach" -> Move(c, "streaming")
    [] Verb(c) = "send" /\ How(c) = "two" /\ part[c] = 1 -> SecondPart(c, "connect")
    [] Verb(c) \in {"stop", "restart"} -> Move(c, "gone?")
    [] OTHER -> Finish(c, "ok")

\* (Faulty: a send makes its second request whatever the answer to the first.
\* Or: a refused restart goes on as if no daemon were there.)
ToldRegardless(c) ==
  /\ pc[c] = "told"
  /\ IF reply[c] = "ok" \/ (Verb(c) = "send" /\ part[c] = 1)
       THEN GoOn(c) ELSE Finish(c, "denied")
  /\ UNCHANGED <<server, registry>>
ToldTolerant(c) ==
  /\ pc[c] = "told"
  /\ CASE reply[c] = "ok" -> GoOn(c)
       [] reply[c] # "ok" /\ Verb(c) = "restart" -> SecondPart(c, "connect")
       [] OTHER -> Finish(c, "denied")
  /\ UNCHANGED <<server, registry>>
Told(c) ==
  /\ pc[c] = "told"
  /\ IF reply[c] = "ok" THEN GoOn(c) ELSE Finish(c, "denied")
  /\ UNCHANGED <<server, registry>>

\* The daemon is gone before the answer was read.
Lost(c) ==
  /\ pc[c] \in {"ask", "told"} /\ ~Connected(c)
  /\ Finish(c, "lost")
  /\ UNCHANGED <<server, registry>>

\* The [spawn] command: started and forgotten, or not found.
Launch(c, found) ==
  /\ pc[c] = "launch"
  /\ Finish(c, IF found THEN "ok" ELSE "exec")
  /\ UNCHANGED <<server, registry>>

\* Detached, the session over, or the connection lost: each is reported and well.
\* The daemon releases the agent (AttachGuard).
Leave(c) ==
  /\ pc[c] = "streaming"
  /\ Finish(c, "ok")
  /\ attached' = attached \ {i \in Agents : <<"attach", i>> \in effects[c]}
  /\ UNCHANGED <<server, byName, nameOf, kind, exited, made>>

\* wait_for_socket_gone.
WaitForSocketGone(c) ==
  /\ pc[c] = "gone?" /\ daemon # "up"
  /\ IF Verb(c) = "restart" THEN SecondPart(c, "connect") ELSE Finish(c, "ok")
  /\ UNCHANGED <<server, registry>>

-----------------------------------------------------------------------------
(* The daemon's life, and the world. *)

\* A launched daemon comes up when no other answers, or leaves.
DaemonUp ==
  /\ starter /\ daemon = "none"
  /\ starter' = FALSE /\ daemon' = "up" /\ build' = "own" /\ boot' = boot + 1
  /\ UNCHANGED <<registry, process>>
DaemonLeaves ==
  /\ starter /\ starter' = FALSE
  /\ UNCHANGED <<daemon, build, boot, registry, process>>

\* shutdown_all and the end of the process; or its death, with which the kernel
\* kills the agents (PR_SET_PDEATHSIG).
Exit ==
  /\ daemon = "closing" \/ (daemon = "up" /\ Crashes)
  /\ daemon' = "none"
  /\ byName' = [n \in Names |-> 0]
  /\ exited' = exited \cup {i \in 1..made : kind[i] = "spawned"}
  /\ attached' = {}
  /\ UNCHANGED <<build, boot, starter, nameOf, kind, made, process>>

AgentExits(i) ==
  /\ kind[i] = "spawned" /\ i \notin exited
  /\ exited' = exited \cup {i}
  /\ UNCHANGED <<server, byName, nameOf, kind, attached, made, process>>

ClientStep(c) ==
  \/ \E file \in Configs : Load(c, file)
  \/ Connect(c) \/ Mismatch(c) \/ Reset(c) \/ ConnectNoSpawn(c) \/ SpawnDaemon(c)
  \/ Restarted(c) \/ Told(c) \/ Lost(c) \/ WaitForSocketGone(c)
  \/ \E found \in BOOLEAN : Launch(c, found)

Next ==
  \/ \E c \in Clients : \/ ClientStep(c) \/ Serve(c) \/ GiveUp(c) \/ Leave(c)
                        \/ \E cmd \in Commands : Start(c, cmd)
  \/ DaemonUp \/ DaemonLeaves \/ Exit
  \/ \E i \in Agents : AgentExits(i)

Spec == Init /\ [][Next]_vars

\* A request whose answer waits for a thread of the blocking pool, and a send's for
\* an agent to read as well: PtyWrite shows that neither need ever come.
Blocking(c) == Request(c) \in {"send", "rm"}

\* Processes that can run do, a daemon answers what it can answer by itself, and
\* the two seconds pass; nobody has to leave an agent, to stop a daemon, or to
\* keep one.
Fairness ==
  /\ \A c \in Clients : WF_vars(ClientStep(c) \/ GiveUp(c) \/ (~Blocking(c) /\ Serve(c)))
  /\ WF_vars(DaemonUp \/ DaemonLeaves \/ (daemon = "closing" /\ Exit))
FairSpec == Spec /\ Fairness

-----------------------------------------------------------------------------
\* The command ends with this outcome.
Ends(c, how) == pc[c] # "idle" /\ pc'[c] = "idle" /\ outcome'[c] \in how

\* What a command that succeeds has had done, once each.
Promise(c) ==
  CASE Verb(c) = "run"      -> {"claim"} \cup {k \in {"attach"} : How(c) = "attach"}
    [] Verb(c) = "register" -> {"claim"}
    [] Verb(c) = "rm"       -> {"remove"}
    [] Verb(c) = "send"     -> {"write"}
    [] Verb(c) = "attach"   -> {"attach"}
    [] Verb(c) = "stop"     -> {"shutdown"}
    [] OTHER                -> {}
Kept(c) ==
  /\ {e[1] : e \in effects[c]} = Promise(c)
  /\ Cardinality(effects[c]) = Cardinality(Promise(c)) + (IF How(c) = "two" THEN 1 ELSE 0)
  /\ How(c) = "spawn" => argv[c] # <<>>

\* A resolved [spawn] command is the template that was loaded, element by element
\* and word by word: two words shorter for each "{", which stands before "name}"
\* and is where the name went.
Substituted(text, from, name) ==
  LET holes == {j \in DOMAIN from : from[j] = Open}
      place(j) == j - 2 * Cardinality({h \in holes : h < j})
  IN  /\ Len(text) = Len(from) - 2 * Cardinality(holes)
      /\ \A j \in holes : /\ j + 2 \in DOMAIN from /\ from[j+1] = "name" /\ from[j+2] = Close
                          /\ text[place(j)] = name
      /\ \A j \in DOMAIN from :
           {j, j - 1, j - 2} \cap holes = {} => text[place(j)] = from[j]
AsConfigured(c) ==
  argv[c] # <<>> =>
    /\ Len(argv[c]) = Len(template[c])
    /\ \A k \in DOMAIN argv[c] : Substituted(argv[c][k], template[c][k], Name(c))

\* Whose agents were touched: those of the name, and by `clean` those that exited.
Aimed(c, e) ==
  /\ e[1] \in {"claim", "fork", "attach", "write", "part", "event"} => nameOf[e[2]] = Name(c)
  /\ e[1] = "remove" => nameOf[e[2]] = Name(c) \/ (Verb(c) = "clean" /\ e[2] \in exited)

\* What a request may leave behind that fails: a process without an entry, a piece of
\* the text; and what requests have done that did not fail.
Traces(c) == {e \in effects[c] : e[1] \in {"fork", "part"}}
Deeds(c)  == effects[c] \ Traces(c)

\* What a command reports is what was done, whatever the other commands, the
\* daemons and the file did between its requests.
\*   Success: all that it promises, once, to agents of its name, and no more; and
\* `clean` took only agents that had exited.
\*   Refused by the daemon: the half of it that was refused has done nothing but
\* leave a trace (see the run `run_on_taken_name`), the half before it all.
\*   Not asked (its own check, no daemon, another version): the same, without trace.
\*   Its [spawn] command not found: the agent is there.
\*   The daemon was lost: the half before is done, and this one once or not at all,
\* for a command asks nothing twice.
\* (client/*.rs; run.rs:16-18; server.rs, handle_run and Send.)
ReportsAreTrue ==
  [][\A c \in Clients :
       /\ AsConfigured(c) /\ \A e \in effects[c] : Aimed(c, e)
       /\ Ends(c, {"ok"}) /\ Verb(c) \notin {"restart", "event", "clean"} => Kept(c)
       /\ Ends(c, {"denied"}) =>
            Cardinality(Deeds(c)) = part[c] - 1 /\ Cardinality(Traces(c)) <= 1
       /\ Ends(c, {"refused", "nodaemon", "mismatch"}) /\ Verb(c) # "restart" =>
            Cardinality(Deeds(c)) = part[c] - 1 /\ Traces(c) = {}
       /\ Ends(c, {"late"}) /\ Verb(c) \notin {"stop", "restart"} =>
            Cardinality(Deeds(c)) = part[c] - 1 /\ Traces(c) = {}
       /\ Ends(c, {"exec"}) => {e[1] : e \in effects[c]} = {"claim"}
       /\ Ends(c, {"lost"}) /\ Verb(c) \notin {"restart", "clean"} =>
            Cardinality(effects[c]) \in {part[c] - 1, part[c]}]_vars

\* `daemon restart` succeeds only with a daemon that was not there before, never
\* with the one it was to replace (client/daemon.rs, restart).
RestartReplaces ==
  [][\A c \in Clients : Verb(c) = "restart" /\ Ends(c, {"ok"}) => conn[c] > met[c]]_vars

\* A command ends, or shows an agent, whatever becomes of the daemons it talks to,
\* unless it is a send or an rm that a daemon which is there does not answer
\* (connection.rs, the two waits; send.rs and rm.rs, which wait without end).
CommandsEnd ==
  \A c \in Clients : pc[c] # "idle" ~>
    \/ pc[c] \in {"idle", "streaming"}
    \/ pc[c] = "ask" /\ Connected(c) /\ Blocking(c)

-----------------------------------------------------------------------------
(* What the repository says of the program and the code does not do. *)

\* A restart cures a protocol mismatch.
RestartReloads ==
  [][\A c \in Clients : Verb(c) = "restart" => ~Ends(c, {"mismatch"})]_vars

\* A hook starts no daemon.
HookStartsNothing ==
  [][\A c \in Clients : pc[c] = "connect" /\ pc'[c] = "wait" => Verb(c) # "event"]_vars

\* A configuration error of `run` leaves no agent behind.
RunStrandsNothing ==
  [][\A c \in Clients : Verb(c) = "run" /\ Ends(c, {"refused"}) => effects[c] = {}]_vars

\* `run` attaches to the agent it made.
RunAttachesOwn ==
  \A c \in Clients : Verb(c) = "run" =>
    \A i, j \in Agents : {<<"claim", i>>, <<"attach", j>>} \subseteq effects[c] => i = j

\* The two halves of a long send go to one agent.
HalvesMeet ==
  \A c \in Clients : \A i, j \in Agents :
    {<<"write", i, 1>>, <<"write", j, 2>>} \subseteq effects[c] => i = j
=============================================================================

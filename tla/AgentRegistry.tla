--------------------------- MODULE AgentRegistry ---------------------------
(***************************************************************************)
(* The daemon's table of agents (src/src/daemon/registry.rs), the handlers *)
(* that work on it (src/src/daemon/server.rs), the spawner thread that     *)
(* forks the agents (spawner.rs, session.rs) and the daemon's shutdown     *)
(* (server.rs, lifecycle.rs), over the life of each agent's process.       *)
(*                                                                         *)
(* A step is what runs without another task or thread being able to        *)
(* interfere: one critical section of the registry mutex, one atomic       *)
(* operation on a flag, one system call on a child.  Handlers interleave   *)
(* between these, as tasks of a multi-threaded runtime and as closures on  *)
(* its blocking pool do.                                                   *)
(*                                                                         *)
(* An agent's output is in OutputSession; an inbox file is only the set of *)
(* incarnations its unread messages were meant for.                        *)
(***************************************************************************)
EXTENDS Naturals, FiniteSets

CONSTANTS
  Names,          \* agent names, all of them valid
  Ids,            \* agent ids (Uuid): one per process forked or name registered
  Conns,          \* connection tasks
  NoName, NoId,   \* "none" values
  PDeathSig,      \* does the kernel SIGTERM the agents of a dead daemon (Linux)?
  ResourceErrors, \* may accept() and the creation of a thread fail?
  Reporters       \* the agents whose hooks run `pswarm event`

ASSUME NoneAssumption == NoName \notin Names /\ NoId \notin Ids
ASSUME ParameterAssumption ==
  /\ PDeathSig \in BOOLEAN
  /\ ResourceErrors \in BOOLEAN
  /\ Reporters \subseteq Ids

VARIABLES
  phase,     \* of the daemon: accept loop, then the steps of its exit
  shutdown,  \* the permit stored in the Notify, with the first request's kind
  byName, byId,            \* Inner: the two maps under the registry's mutex
  nameOf,    \* the name an id was created for; NoName: not created yet
  child,     \* the agent's process, seen from its parent; "none": registered
  signal,    \* the strongest signal the daemon sent to it
  tty,       \* does a process still hold the terminal's slave side?
  session,   \* the output session task
  dead, attached,          \* the flags every clone of the entry shares
  mail,      \* per name, the incarnations its unread messages were meant for
  lastEvent, \* the agent whose hook reported the entry's last event
  pc, want, agent          \* a handler: where it is, its name, its entry

index    == <<byName, byId>>
process  == <<nameOf, child, signal, tty, session>>
flags    == <<dead, attached>>
handlers == <<pc, want, agent>>
vars == <<phase, shutdown, index, process, flags, mail, lastEvent, handlers>>

Phases   == {"serving", "closing", "returned", "dropping", "exited", "crashed"}
RmSteps  == {"rmForce", "rmTerm", "rmPoll", "rmClean"}
Holding  == RmSteps \cup {"spawned", "attach", "streaming"}
Steps    == Holding \cup {"idle", "open", "queued", "shutPolite", "shutForced"}

TypeOK ==
  /\ phase \in Phases
  /\ shutdown \in {"none", "polite", "forced"}
  /\ byName \in [Names -> Ids \cup {NoId}]
  /\ byId \in SUBSET Ids
  /\ nameOf \in [Ids -> Names \cup {NoName}]
  /\ child \in [Ids -> {"none", "running", "zombie", "reaped"}]
  /\ signal \in [Ids -> {"none", "term", "kill"}]
  /\ tty \in [Ids -> BOOLEAN]
  /\ session \in [Ids -> {"none", "live", "over"}]
  /\ dead \in [Ids -> BOOLEAN]
  /\ attached \in [Ids -> BOOLEAN]
  /\ mail \in [Names -> SUBSET (Ids \cup {NoId})]
  /\ lastEvent \in [Ids -> Ids \cup {NoId}]
  /\ pc \in [Conns -> Steps]
  /\ want \in [Conns -> Names \cup {NoName}]
  /\ agent \in [Conns -> Ids \cup {NoId}]

Init ==
  /\ phase = "serving"
  /\ shutdown = "none"
  /\ byName = [n \in Names |-> NoId]
  /\ byId = {}
  /\ nameOf = [i \in Ids |-> NoName]
  /\ child = [i \in Ids |-> "none"]
  /\ signal = [i \in Ids |-> "none"]
  /\ tty = [i \in Ids |-> FALSE]
  /\ session = [i \in Ids |-> "none"]
  /\ dead = [i \in Ids |-> FALSE]
  /\ attached = [i \in Ids |-> FALSE]
  /\ mail = [n \in Names |-> {}]
  /\ lastEvent = [i \in Ids |-> NoId]
  /\ pc = [c \in Conns |-> "idle"]
  /\ want = [c \in Conns |-> NoName]
  /\ agent = [c \in Conns |-> NoId]

-----------------------------------------------------------------------------
Up      == phase \in {"serving", "closing", "returned"}
Alive   == Up \/ phase = "dropping"
Fresh   == {i \in Ids : nameOf[i] = NoName}
Free(n) == byName[n] = NoId
Exited(i)  == child[i] \in {"zombie", "reaped"}
Spawned(i) == child[i] # "none"
Held(i)    == i \in byId \/ \E c \in Conns : agent[c] = i

\* Handler c stops at step s with no entry in hand, or takes entry i there.
Step(c, s) == /\ pc' = [pc EXCEPT ![c] = s]
              /\ UNCHANGED <<want, agent>>
Enter(c, s, n, i) == /\ pc' = [pc EXCEPT ![c] = s]
                     /\ want' = [want EXCEPT ![c] = n]
                     /\ agent' = [agent EXCEPT ![c] = i]
Finish(c) == Enter(c, "idle", NoName, NoId)

\* try_wait of the processes in S: an exit not collected yet is collected.
Reap(S) == child' = [i \in Ids |->
                      IF i \in S /\ child[i] = "zombie" THEN "reaped" ELSE child[i]]

\* Child::kill of the processes in S, and kill(2) with SIGTERM.
SendSigkill(S) == signal' = [i \in Ids |->
                    IF i \in S /\ child[i] = "running" THEN "kill" ELSE signal[i]]
SendSigterm(S) == signal' = [i \in Ids |->
                    IF i \in S /\ child[i] = "running" /\ signal[i] = "none"
                      THEN "term" ELSE signal[i]]

CleanupInboxFiles(N) == mail' = [n \in Names |-> IF n \in N THEN {} ELSE mail[n]]

Index(n, i) == /\ byName' = [byName EXCEPT ![n] = i]
               /\ byId' = byId \cup {i}
\* (Faulty: the name stays behind.)
UnindexIdOnly(S) == byId' = byId \ S /\ UNCHANGED byName
\* Names leave the index with their entries.
Unindex(S) == /\ byName' = [n \in Names |-> IF byName[n] \in S THEN NoId ELSE byName[n]]
              /\ byId' = byId \ S

-----------------------------------------------------------------------------
\* The accept loop looks at the shutdown permit first.  An accept that loses
\* that race commutes with the Notify, so none is needed once it is stored.
Accept(c) ==
  /\ phase = "serving" /\ shutdown = "none" /\ pc[c] = "idle"
  /\ Step(c, "open")
  /\ UNCHANGED <<phase, shutdown, index, process, flags, mail, lastEvent>>

\* A request that changes nothing (refused handshake, unknown name, Ping,
\* View, GetCwd), or a client that leaves: its Shutdown is then never notified.
Leave(c) ==
  /\ Up /\ pc[c] \in {"open", "shutPolite", "shutForced"}
  /\ Finish(c)
  /\ UNCHANGED <<phase, shutdown, index, process, flags, mail, lastEvent>>

\* handle_run: the request goes to the spawner's queue...
RunRequest(c, n) ==
  /\ Up /\ pc[c] = "open"
  /\ Enter(c, "queued", n, NoId)
  /\ UNCHANGED <<phase, shutdown, index, process, flags, mail, lastEvent>>

\* ...whose thread forks the agent.  While the runtime is being dropped no
\* task waits for the entry any more, and no session task can start.
SpawnSession(c, i) ==
  /\ Alive /\ pc[c] = "queued" /\ i \in Fresh
  /\ nameOf' = [nameOf EXCEPT ![i] = want[c]]
  /\ child' = [child EXCEPT ![i] = "running"]
  /\ tty' = [tty EXCEPT ![i] = TRUE]
  /\ session' = [session EXCEPT ![i] = IF Up THEN "live" ELSE "over"]
  /\ IF Up THEN Enter(c, "spawned", want[c], i) ELSE Finish(c)
  /\ UNCHANGED <<phase, shutdown, index, signal, flags, mail, lastEvent>>

SpawnFailed(c) ==
  /\ Alive /\ pc[c] = "queued"
  /\ Finish(c)
  /\ UNCHANGED <<phase, shutdown, index, process, flags, mail, lastEvent>>

\* The reader thread cannot be created: the error leaves the child behind.
SpawnHalfway(c, i) ==
  /\ ResourceErrors
  /\ Alive /\ pc[c] = "queued" /\ i \in Fresh
  /\ nameOf' = [nameOf EXCEPT ![i] = want[c]]
  /\ child' = [child EXCEPT ![i] = "running"]
  /\ session' = [session EXCEPT ![i] = "over"]
  /\ Finish(c)
  /\ UNCHANGED <<phase, shutdown, index, signal, tty, flags, mail, lastEvent>>

\* (Faulty: the entry is indexed after the handler has let go of it; or the
\* inbox is not cleared.)
InsertAfterFinish(c) ==
  /\ Up /\ pc[c] = "spawned"
  /\ Finish(c)
  /\ IF Free(want[c]) THEN CleanupInboxFiles({want[c]}) /\ Index(want[c], agent'[c])
                      ELSE UNCHANGED <<mail, index>>
  /\ UNCHANGED <<phase, shutdown, process, flags, lastEvent>>
InsertDirty(c) ==
  /\ Up /\ pc[c] = "spawned"
  /\ IF Free(want[c]) THEN Index(want[c], agent[c]) ELSE UNCHANGED index
  /\ Finish(c)
  /\ UNCHANGED <<phase, shutdown, process, flags, mail, lastEvent>>

\* Registry::insert after a fork.  A taken name drops the entry, not the child.
Insert(c) ==
  LET n == want[c] IN
  /\ Up /\ pc[c] = "spawned"
  /\ IF Free(n) THEN CleanupInboxFiles({n}) /\ Index(n, agent[c])
                ELSE UNCHANGED <<mail, index>>
  /\ Finish(c)
  /\ UNCHANGED <<phase, shutdown, process, flags, lastEvent>>

\* handle_register: the same insert of an entry without a process.
Register(c, n, i) ==
  /\ Up /\ pc[c] = "open" /\ Free(n) /\ i \in Fresh
  /\ nameOf' = [nameOf EXCEPT ![i] = n]
  /\ CleanupInboxFiles({n})
  /\ Index(n, i)
  /\ Finish(c)
  /\ UNCHANGED <<phase, shutdown, child, signal, tty, session, flags, lastEvent>>

-----------------------------------------------------------------------------
\* (Faulty: the entry stays in the maps while its process is terminated.)
RmKeepIndexed(c, n, force) ==
  /\ Up /\ pc[c] = "open" /\ ~Free(n)
  /\ Enter(c, IF force THEN "rmForce" ELSE "rmTerm", n, byName[n])
  /\ UNCHANGED <<phase, shutdown, index, process, flags, mail, lastEvent>>

\* Registry::remove, on the blocking pool: the name is free again from here.
Rm(c, n, force) ==
  /\ Up /\ pc[c] = "open" /\ ~Free(n)
  /\ Unindex({byName[n]})
  /\ Enter(c, IF force THEN "rmForce" ELSE "rmTerm", n, byName[n])
  /\ UNCHANGED <<phase, shutdown, process, flags, mail, lastEvent>>

\* terminate_entry, in its five ways through.
TerminateForce(c) ==
  /\ Alive /\ pc[c] = "rmForce"
  /\ SendSigkill({agent[c]})
  /\ Step(c, "rmClean")
  /\ UNCHANGED <<phase, shutdown, index, nameOf, child, tty, session, flags, mail, lastEvent>>

\* Nothing to signal: a registered entry, or a pid that is gone (ESRCH).
TerminateNothing(c) ==
  /\ Alive /\ pc[c] = "rmTerm" /\ child[agent[c]] \in {"none", "reaped"}
  /\ Step(c, "rmClean")
  /\ UNCHANGED <<phase, shutdown, index, process, flags, mail, lastEvent>>

TerminateGraceful(c) ==
  /\ Alive /\ pc[c] = "rmTerm" /\ child[agent[c]] \in {"running", "zombie"}
  /\ SendSigterm({agent[c]})
  /\ Step(c, "rmPoll")
  /\ UNCHANGED <<phase, shutdown, index, nameOf, child, tty, session, flags, mail, lastEvent>>

RmPoll(c) ==
  /\ Alive /\ pc[c] = "rmPoll" /\ Exited(agent[c])
  /\ Reap({agent[c]})
  /\ Step(c, "rmClean")
  /\ UNCHANGED <<phase, shutdown, index, nameOf, signal, tty, session, flags, mail, lastEvent>>

\* (Faulty: no SIGKILL at the deadline; no deadline.)
RmDeadlineSpares(c) ==
  /\ Alive /\ pc[c] = "rmPoll"
  /\ Step(c, "rmClean")
  /\ UNCHANGED <<phase, shutdown, index, process, flags, mail, lastEvent>>
RmDeadlineNever(c) == pc[c] = "rmPoll" /\ Exited(agent[c]) /\ RmDeadlineSpares(c)

RmDeadline(c) ==
  /\ Alive /\ pc[c] = "rmPoll"
  /\ SendSigkill({agent[c]})
  /\ Step(c, "rmClean")
  /\ UNCHANGED <<phase, shutdown, index, nameOf, child, tty, session, flags, mail, lastEvent>>

RmCleanup(c) ==
  /\ Alive /\ pc[c] = "rmClean"
  /\ CleanupInboxFiles({want[c]})
  /\ Finish(c)
  /\ UNCHANGED <<phase, shutdown, index, process, flags, lastEvent>>

\* Registry::list: try_wait of the entries whose dead flag is not set.
Unseen == {i \in byId : Spawned(i) /\ ~dead[i]}
\* (Faulty: a try_wait that finds the process running counts as an exit.)
RefreshAll == /\ Reap(Unseen)
              /\ dead' = [i \in Ids |-> dead[i] \/ i \in Unseen]
Refresh == /\ Reap(Unseen)
           /\ dead' = [i \in Ids |-> dead[i] \/ (i \in Unseen /\ Exited(i))]

Ls(c) ==
  /\ Up /\ pc[c] = "open"
  /\ Refresh
  /\ Finish(c)
  /\ UNCHANGED <<phase, shutdown, index, nameOf, signal, tty, session, attached, mail, lastEvent>>

\* Registry::prune_dead: the refresh, then the sweep, in one critical section.
\* (Faulty: an entry that has no process is swept with the exited ones.)
SweptRegistered == {i \in byId : ~Spawned(i) \/ dead'[i]}
Swept == {i \in byId : Spawned(i) /\ dead'[i]}

Clean(c) ==
  /\ Up /\ pc[c] = "open"
  /\ Refresh
  /\ Unindex(Swept)
  /\ CleanupInboxFiles({nameOf[i] : i \in Swept})
  /\ Finish(c)
  /\ UNCHANGED <<phase, shutdown, nameOf, signal, tty, session, attached, lastEvent>>

-----------------------------------------------------------------------------
\* handle_attach: the lookup clones the entry, which may leave the index
\* before the flag is taken.
AttachLookup(c, n) ==
  /\ Up /\ pc[c] = "open" /\ ~Free(n) /\ Spawned(byName[n])
  /\ Enter(c, "attach", n, byName[n])
  /\ UNCHANGED <<phase, shutdown, index, process, flags, mail, lastEvent>>

\* (Faulty: a plain store.)
AttachTakeStore(c) ==
  /\ Up /\ pc[c] = "attach"
  /\ attached' = [attached EXCEPT ![agent[c]] = TRUE]
  /\ Step(c, "streaming")
  /\ UNCHANGED <<phase, shutdown, index, process, dead, mail, lastEvent>>

\* The compare_exchange of the attached flag.
AttachTake(c) ==
  /\ Up /\ pc[c] = "attach" /\ ~attached[agent[c]]
  /\ attached' = [attached EXCEPT ![agent[c]] = TRUE]
  /\ Step(c, "streaming")
  /\ UNCHANGED <<phase, shutdown, index, process, dead, mail, lastEvent>>

AttachRefused(c) ==
  /\ Up /\ pc[c] = "attach" /\ attached[agent[c]]
  /\ Finish(c)
  /\ UNCHANGED <<phase, shutdown, index, process, flags, mail, lastEvent>>

\* However the handler ends (detach, disconnect, session over, write error),
\* AttachGuard releases the flag.
AttachEnd(c) ==
  /\ Up /\ pc[c] = "streaming"
  /\ attached' = [attached EXCEPT ![agent[c]] = FALSE]
  /\ Finish(c)
  /\ UNCHANGED <<phase, shutdown, index, process, dead, mail, lastEvent>>

\* A hook of agent j reports under the name it inherited (PSWARM_AGENT_NAME).
EventReport(c, j) ==
  /\ Up /\ pc[c] = "open" /\ j \in Reporters \ Fresh
  /\ ~Free(nameOf[j])
  /\ lastEvent' = [lastEvent EXCEPT ![byName[nameOf[j]]] = j]
  /\ Finish(c)
  /\ UNCHANGED <<phase, shutdown, index, process, flags, mail>>

-----------------------------------------------------------------------------
\* The Shutdown arm: the check, then (after the acknowledgement) the notify.
Shutdown(c, force) ==
  /\ Up /\ pc[c] = "open"
  /\ force \/ ~\E i \in byId : attached[i]
  /\ Step(c, IF force THEN "shutForced" ELSE "shutPolite")
  /\ UNCHANGED <<phase, shutdown, index, process, flags, mail, lastEvent>>

\* notify_one stores at most one permit.
Notify(c) ==
  /\ Up /\ pc[c] \in {"shutPolite", "shutForced"}
  /\ shutdown' = IF shutdown # "none" THEN shutdown
                 ELSE IF pc[c] = "shutPolite" THEN "polite" ELSE "forced"
  /\ Finish(c)
  /\ UNCHANGED <<phase, index, process, flags, mail, lastEvent>>

\* The accept loop of server::run ends; the listener is dropped.
ServerBreak ==
  /\ phase = "serving" /\ shutdown # "none"
  /\ phase' = "closing"
  /\ UNCHANGED <<shutdown, index, process, flags, mail, lastEvent, handlers>>

\* accept() fails: run returns the error, past shutdown_all.
AcceptError ==
  /\ ResourceErrors
  /\ phase = "serving"
  /\ phase' = "returned"
  /\ UNCHANGED <<shutdown, index, process, flags, mail, lastEvent, handlers>>

ShutdownAll ==
  /\ phase = "closing"
  /\ phase' = "returned"
  /\ SendSigkill(byId)
  /\ Unindex(byId)
  /\ UNCHANGED <<shutdown, nameOf, child, tty, session, flags, mail, lastEvent, handlers>>

\* What a vanished task or process leaves behind: nothing in memory.
Forget(kept) ==
  /\ pc' = [c \in Conns |-> IF pc[c] \in kept THEN pc[c] ELSE "idle"]
  /\ want' = [c \in Conns |-> IF pc[c] \in kept THEN want[c] ELSE NoName]
  /\ agent' = [c \in Conns |-> IF pc[c] \in kept THEN agent[c] ELSE NoId]
  /\ byName' = [n \in Names |-> NoId]
  /\ byId' = {}
  /\ attached' = [i \in Ids |-> FALSE]
  /\ session' = [i \in Ids |-> IF session[i] = "live" THEN "over" ELSE session[i]]

\* lifecycle::start drops the runtime: every task is cancelled where it waits.
\* A closure already on the blocking pool (rm) runs on and is waited for; a
\* request already in the spawner's queue stays there.
RuntimeDrop ==
  /\ phase = "returned"
  /\ phase' = "dropping"
  /\ Forget(RmSteps \cup {"queued"})
  /\ UNCHANGED <<shutdown, nameOf, child, signal, tty, dead, mail, lastEvent>>

\* The daemon process ends, and with it the thread that forked the agents.
Die(how) ==
  /\ phase' = how
  /\ Forget({})
  /\ IF PDeathSig THEN SendSigterm(Ids) ELSE UNCHANGED signal
  /\ UNCHANGED <<shutdown, nameOf, child, tty, dead, mail, lastEvent>>

\* (Faulty: the exit waits for the spawner's queue too.)
ExitJoins == phase = "dropping" /\ (\A c \in Conns : pc[c] = "idle") /\ Die("exited")

Exit  == phase = "dropping" /\ (\A c \in Conns : pc[c] \notin RmSteps) /\ Die("exited")
Crash == Alive /\ Die("crashed")

\* A later client starts a new daemon: an empty registry, the old inbox files.
Restart ==
  /\ phase \in {"exited", "crashed"}
  /\ phase' = "serving" /\ shutdown' = "none"
  /\ UNCHANGED <<index, process, flags, mail, lastEvent, handlers>>

-----------------------------------------------------------------------------
\* The agent's process ends; a dead daemon's children are reaped by init.
ChildExit(i) ==
  /\ child[i] = "running"
  /\ child' = [child EXCEPT ![i] = IF Alive THEN "zombie" ELSE "reaped"]
  /\ UNCHANGED <<phase, shutdown, index, nameOf, signal, tty, session, flags, mail, lastEvent, handlers>>

\* The last holder of the slave side closes it, which may be before the
\* process exits.  When it has exited, the kernel hangs the terminal up.
TtyClose(i) ==
  /\ tty[i]
  /\ tty' = [tty EXCEPT ![i] = FALSE]
  /\ UNCHANGED <<phase, shutdown, index, nameOf, child, signal, session, flags, mail, lastEvent, handlers>>

\* (Faulty: only an agent that is still listed gets its end of session; or the
\* dead flag is not raised.)
SessionEofListed(i) ==
  /\ Up /\ session[i] = "live" /\ ~tty[i] /\ i \in byId
  /\ session' = [session EXCEPT ![i] = "over"]
  /\ Reap({i})
  /\ dead' = [dead EXCEPT ![i] = TRUE]
  /\ UNCHANGED <<phase, shutdown, index, nameOf, signal, tty, attached, mail, lastEvent, handlers>>
SessionEofSilent(i) ==
  /\ Up /\ session[i] = "live" /\ ~tty[i]
  /\ session' = [session EXCEPT ![i] = "over"]
  /\ Reap({i})
  /\ UNCHANGED <<phase, shutdown, index, nameOf, signal, tty, flags, mail, lastEvent, handlers>>

\* The reader thread sees the end of file; the session task runs on_eof.
SessionEof(i) ==
  /\ Up /\ session[i] = "live" /\ ~tty[i]
  /\ session' = [session EXCEPT ![i] = "over"]
  /\ Reap({i})
  /\ dead' = [dead EXCEPT ![i] = TRUE]
  /\ UNCHANGED <<phase, shutdown, index, nameOf, signal, tty, attached, mail, lastEvent, handlers>>

\* The last clone of the entry is gone: the task drains and never runs on_eof.
SessionDrop(i) ==
  /\ Up /\ session[i] = "live" /\ ~Held(i)
  /\ session' = [session EXCEPT ![i] = "over"]
  /\ UNCHANGED <<phase, shutdown, index, nameOf, child, signal, tty, flags, mail, lastEvent, handlers>>

\* `pswarm inbox post`: the sender writes the file itself, daemon or not.
Post(n) ==
  /\ mail' = [mail EXCEPT ![n] = @ \cup {byName[n]}]
  /\ UNCHANGED <<phase, shutdown, index, process, flags, lastEvent, handlers>>

-----------------------------------------------------------------------------
RmWork(c) == TerminateForce(c) \/ TerminateNothing(c) \/ TerminateGraceful(c)
             \/ RmPoll(c) \/ RmDeadline(c) \/ RmCleanup(c)

Handle(c) ==
  \/ Accept(c) \/ Leave(c) \/ SpawnFailed(c) \/ Insert(c) \/ RmWork(c)
  \/ Ls(c) \/ Clean(c) \/ AttachTake(c) \/ AttachRefused(c) \/ AttachEnd(c) \/ Notify(c)
  \/ \E n \in Names : RunRequest(c, n) \/ AttachLookup(c, n)
  \/ \E n \in Names, force \in BOOLEAN : Rm(c, n, force)
  \/ \E n \in Names, i \in Ids : Register(c, n, i)
  \/ \E i \in Ids : SpawnSession(c, i) \/ SpawnHalfway(c, i) \/ EventReport(c, i)
  \/ \E force \in BOOLEAN : Shutdown(c, force)

Daemon == ServerBreak \/ AcceptError \/ ShutdownAll \/ RuntimeDrop \/ Exit \/ Crash \/ Restart

World(i) == ChildExit(i) \/ TtyClose(i) \/ SessionEof(i) \/ SessionDrop(i)

Next ==
  \/ \E c \in Conns : Handle(c)
  \/ Daemon
  \/ \E i \in Ids : World(i)
  \/ \E n \in Names : Post(n)

Spec == Init /\ [][Next]_vars

\* The runtime polls every ready task and the blocking pool runs every closure
\* it started; the kernel delivers a SIGKILL and hangs up the terminal of an
\* exited process.  A client that has been told its session ended leaves.
\* Nothing obliges a client to ask, an agent to exit, or a daemon to be started.
Fairness ==
  /\ \A c \in Conns : /\ WF_vars(RmWork(c))
                      /\ WF_vars(/\ pc[c] = "streaming" /\ session[agent[c]] = "over"
                              /\ AttachEnd(c))
  /\ \A i \in Ids : /\ WF_vars(signal[i] = "kill" /\ ChildExit(i))
                    /\ WF_vars(Exited(i) /\ TtyClose(i))
                    /\ WF_vars(SessionEof(i))
  /\ WF_vars(ServerBreak \/ ShutdownAll \/ RuntimeDrop \/ Exit)

FairSpec == Spec /\ Fairness

-----------------------------------------------------------------------------
(* Safety. *)

\* The two maps of the registry agree: a name leads to an entry of that name,
\* and every entry is reached by its own name and by no other (registry.rs,
\* Inner), whichever of insert, remove, prune_dead and shutdown_all ran.
IndexConsistent ==
  \A n \in Names, i \in Ids : byName[n] = i <=> (i \in byId /\ nameOf[i] = n)

\* An agent's attached flag is set exactly while one handler streams from it,
\* and never two: neither an rm that takes the entry away in the middle, nor a
\* reuse of the name, nor the cancellation of the handler loses or frees it
\* (server.rs, handle_attach and AttachGuard).
AttachExclusive ==
  /\ \A i \in Ids : attached[i] <=> \E c \in Conns : pc[c] = "streaming" /\ agent[c] = i
  /\ \A c, d \in Conns :
       pc[c] = "streaming" /\ pc[d] = "streaming" /\ agent[c] = agent[d] => c = d

\* When rm is done terminating, the process it took over has exited or has
\* been sent SIGKILL, whatever the session task, Clean or Ls collected
\* meanwhile (registry.rs, terminate_entry).
RmOutcome ==
  \A c \in Conns : pc[c] = "rmClean" /\ child[agent[c]] = "running"
                     => signal[agent[c]] = "kill"

\* Two concurrent rm of one name never work on the same entry, and an entry
\* being removed can no longer be found by name while its process is given
\* its second to terminate (registry.rs, remove).
RmOwnsEntry ==
  \A c \in Conns : pc[c] \in RmSteps =>
    /\ agent[c] \notin byId
    /\ \A d \in Conns : pc[d] \in RmSteps /\ agent[d] = agent[c] => c = d

\* Both: an rm ends the process of the entry it took, and of no entry another
\* rm took or a new agent of the name put there (registry.rs, remove).
RmSound == RmOutcome /\ RmOwnsEntry

\* An entry shown as dead has an exited process or a terminal nobody holds:
\* the two ways the flag is raised, the end of file and try_wait, are both
\* reports of that entry's own process (session.rs, on_eof; registry.rs, list).
DeadIsGone == \A i \in Ids : dead[i] => Exited(i) \/ ~tty[i]

\* An agent never finds in its inbox a message that was posted to an earlier
\* agent of its name, however that one ended: rm, clean, shutdown or crash
\* (registry.rs, insert and cleanup_inbox_files).
InboxFresh == \A n \in Names : ~Free(n) => mail[n] \subseteq {byName[n]}

\* `clean`, and anything else that is not an rm of that agent or the end of the
\* daemon, leaves alone an agent whose process runs on its terminal, and an
\* agent that has no process at all (registry.rs, prune_dead).
LeavesByRequest(i) ==
  phase' # phase \/ \E c \in Conns : pc'[c] \in {"rmForce", "rmTerm"} /\ agent'[c] = i
SparesRunning ==
  \A i \in byId \ byId' :
    child[i] = "none" \/ (child[i] = "running" /\ tty[i]) => LeavesByRequest(i)
CleanSparesRunning == [][SparesRunning]_vars

\* A process is killed outright only on a demand for force, at the end of the
\* daemon, or after it has been asked to terminate (registry.rs, remove).
KillOnDemand ==
  \A i \in Ids :
    signal[i] = "none" /\ signal'[i] = "kill"
      => phase = "closing" \/ \E c \in Conns : pc[c] = "rmForce" /\ agent[c] = i
KillAfterTerm == [][KillOnDemand]_vars

-----------------------------------------------------------------------------
(* Liveness. *)

\* An rm that was accepted ends, even when its agent ignores SIGTERM and even
\* when the daemon is shutting down under it.
RmCompletes == \A c \in Conns : pc[c] \in RmSteps ~> pc[c] \notin RmSteps

\* Every exit is noticed: an entry whose process has exited is shown as dead,
\* or leaves the registry, without anyone asking for a list, and an attach to it
\* is released without the user having to detach, also when an rm has taken the
\* entry away meanwhile (session.rs, on_eof; server.rs, handle_attach).
ExitNoticed ==
  \A i \in Ids : (Exited(i) /\ (i \in byId \/ attached[i]))
                   ~> ((dead[i] \/ i \notin byId) /\ ~attached[i])

\* Once the accept loop has been notified the daemon exits, also while rm
\* waits for an agent to terminate.
StopCompletes == (shutdown # "none") ~> (phase \in {"exited", "crashed"})

-----------------------------------------------------------------------------
(* What the repository says of the program and the code does not do. *)

\* While a daemon serves, every agent process that runs and that nobody has
\* told to terminate is one the daemon has a record of.
NoUnownedChild ==
  phase = "serving" =>
    \A i \in Ids : child[i] = "running" /\ signal[i] = "none" => Held(i)

\* A requested shutdown kills every live agent before the daemon is gone.
GracefulStopKillsAll ==
  phase = "exited" => \A i \in Ids : child[i] = "running" => signal[i] = "kill"

\* A shutdown without force does not end a daemon somebody is attached to.
PoliteStopSparesAttached ==
  phase = "closing" /\ shutdown = "polite" => \A i \in Ids : ~attached[i]

\* Clean drops only agents whose process has exited.
CleanOnlyExited ==
  [][\A i \in byId \ byId' : child[i] = "running" => LeavesByRequest(i)]_vars

\* While an agent keeps its name, its unread messages are kept.
InboxKept ==
  [][\A n \in Names : ~Free(n) /\ byName'[n] = byName[n] => mail[n] \subseteq mail'[n]]_vars

\* The last event of an agent was reported by that agent.
EventFromSelf == \A i \in Ids : lastEvent[i] \in {NoId, i}
=============================================================================

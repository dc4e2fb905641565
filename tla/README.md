# picoswarm in TLA+

picoswarm (`pswarm`) keeps interactive agents alive behind a small daemon: each
agent is a process on a pseudo-terminal, and clients attach to it, look at its
output, type into it, leave it mail and remove it. This directory holds TLA+
models of the parts of that program where order matters, the TLC configurations
that check them, and TLAPS proofs of every safety property the passing runs check.
Paths below are relative to `src/src/` unless they start with `docs/`, `issues/` or
`README`.

    tlc -workers 4 -config MCAgentRegistry_safety.cfg MCAgentRegistry.tla
    for m in *Proofs.tla; do tlapm $m; done

## 1. The system

| part | state it keeps | operations | talks to |
|---|---|---|---|
| Registry, `daemon/registry.rs` | `by_id`, `by_name` under one mutex; per entry shared atomics `attached`, `dead`, the `Child`, the pty, the last event | insert, lookup, list, remove, prune_dead, shutdown_all, attached_names | handlers call it; `terminate_entry` and `cleanup_inbox_files` run outside the mutex |
| Connection handlers, `daemon/server.rs` | one task per connection; `AttachGuard` | handshake, Run, Register, Ls, Rm, Clean, Attach, Event, Send, View, GetCwd, Shutdown | registry, spawner, session tasks, blocking pool, the shutdown `Notify` |
| Spawner, `daemon/spawner.rs`, `daemon/session.rs` | a thread with a queue of requests | fork on a pty, wire up flags, reader thread and session task | handler awaits it; the parent-death signal belongs to this thread |
| Output session, `daemon/output_session.rs` | ring of the last 64 KB, subscribers | chunk, end of file, subscribe, snapshot, drain only | reader thread feeds it, handlers subscribe |
| Daemon life cycle, `daemon/server.rs` run, `daemon/lifecycle.rs` | the socket file, the listener | probe, unlink stale, bind, chmod, accept, close, kill agents, unlink, exit | clients' connections; other daemons through the file system |
| Connecting clients, `client/connection.rs`, `client/daemon.rs` | none | connect, autostart, handshake, stop, restart, wait for socket | the daemon through the socket |
| Attached client, `client/attach.rs` | channel of outgoing messages, held-back bytes | stdin thread, stream loop, resize, detach | the attach handler, in frames of `protocol.rs` |
| Inbox, `client/inbox.rs` | two files per name: messages, cursor | post, read, follow | other processes through the files; the daemon removes them |
| Writers of a terminal, `client/send.rs`, `daemon/server.rs` Send and Stdin | the `write_lock` of an entry, closures on the blocking pool | write a payload; a long `send` is two requests | the terminal; `rm` shares the pool |
| Commands, `main.rs`, `cli.rs`, `client/*.rs` | what they have loaded and been told | run, register, rm, clean, ls, view, cwd, send, attach, event, completion, stop, restart | configuration, the daemon, in one or two requests |
| Configuration, `config.rs` | none | parse the detach key, resolve a `[spawn]` template | the commands that load it |
| The rest | none | argument parsing, paths, logging | |

What is hard in it, and what makes each part correct:

- **Registry.** Handlers hold clones of an entry while it is removed and its
  name used again. Two maps must agree; an attach must be exclusive; an `rm` has
  one second of grace without the lock, while others reap the same child; the
  daemon may stop or die in the middle; inbox files outlive it. Correct: the maps
  agree, one handler streams from an agent, a removed process is dead or killed,
  a name starts with an empty inbox, clean spares what runs, everything ends.
- **Output session.** Backlog and live output are joined, the end of the terminal
  races subscriptions and removals, a full kernel buffer blocks the agent.
  Correct: no byte lost or doubled, the end comes last and reaches everyone, the
  agent's writes never stay blocked.
- **Socket.** Every step is a system call on a path that several processes share.
  Correct: a command gets a daemon, a stop stops it, no file is left behind.
- **Attached connection.** Two loops of biased `select!`, a socket with finite
  buffers, a blocking write to the terminal. Correct: order is kept both ways,
  the end and the detach key are honoured, a lost client is noticed.
- **Detach key.** Two encodings, cut anywhere by `read`. Correct: the result does
  not depend on the cuts.
- **Writers.** A write blocks while the agent does not read, and holds a lock and a
  thread that others need, `rm` among them. Correct: payloads whole and in order,
  a write ends when something frees it, a stop always does.
- **Commands.** A command checks here, asks there, and waits in between, while
  daemons stop, die and start, and the user edits the file. Correct: what it
  reports is what was done.
- **Inbox.** No locks, a cursor that is truncated and then written, kills.
  Correct: what the cursor skips has been printed; each message once.

`PROJECT.json` lists the hazards one by one, each with the line where it bites.

## 2. Modules

| module | models | how |
|---|---|---|
| `AgentRegistry` | registry, handlers on it, spawner, shutdown, the life of each process | below |
| `AgentRegistryProofs`, `OutputSessionProofs`, `DaemonSocketProofs`, `AttachStreamProofs`, `DetachTriggerProofs`, `PtyWriteProofs`, `CommandsProofs`, `InboxProofs` | TLAPS proofs of the safety of the module they are named for | section 5 |
| `OutputFeed` | what a session promises a client: an abstract specification | a counter of bytes and, for each client, the interval it has seen |
| `OutputSession` | reader thread, channel, session task, ring, subscribers, handlers; implements `OutputFeed` | the agent's k-th byte is the number k |
| `DaemonSocket` | daemons that start, stop, die; clients that use, stop, restart | one action per system call on the path |
| `AttachStream` | the two select! loops of an attachment and the socket between | a frame is a length piece and a body piece |
| `Config` | `config.rs`: detach key, template | operators; characters are code points, template elements are words |
| `DetachTrigger`, extends `Config` | the stdin thread, for a key of the configuration | the bytes of the key's encodings and one more, all cuts |
| `PtyWrite` | `send`, typists and `rm` on one terminal, the blocking pool, the end of the daemon | a payload is a number of pieces, each one `write(2)` |
| `Commands`, extends `Config` | every `pswarm` command from its arguments to its report | a request is one step; daemons have a build and a number |
| `Inbox` | senders, readers, the two files, their removal | one action per system call |
| `MC...` | instances for TLC | symmetry, key specifications, command lines, configuration files, payload lengths |

**AgentRegistry.** A step is what runs without interference: one critical section
of the registry mutex, one atomic operation on a flag, one system call. `pc[c]` is
the position of handler `c` (`"idle"`: no connection), `want` and `agent` the name
and the entry it has in hand. An id stands for a `Uuid`, its entry and its
process; `nameOf` says whether it has been created. `byName`/`byId` are `Inner`.
`child` is the process as its parent sees it (running, zombie, reaped), `signal`
the strongest signal the daemon sent it, `tty` whether somebody holds its
terminal, `session` its session task, `dead`/`attached` the shared flags.
`mail[n]` is the set of incarnations the unread messages of a name were meant
for. `phase` follows `server::run` and the drop of the runtime, `shutdown` is the
permit in the `Notify`. Actions carry the names of the functions: `Insert`,
`Register`, `Rm` (the critical section of `remove`), `Terminate*`, `RmPoll`,
`RmDeadline`, `RmCleanup`, `Ls`, `Clean`, `AttachLookup`/`AttachTake`/
`AttachRefused`/`AttachEnd`, `EventReport`, `Shutdown`/`Notify`, `ServerBreak`,
`ShutdownAll`, `RuntimeDrop`, `Exit`, `Crash`, `Restart`. The world adds
`ChildExit`, `TtyClose`, `SessionEof` (the `on_eof` callback), `SessionDrop` (the
drain-only loop) and `Post`.

**OutputSession.** `written - read` is the content of the kernel's buffer, `chunks`
the channel of the reader thread, `requests` the channel behind `SessionInbox`,
`events[c]` a subscriber's channel, `sent[c]` all a client has been sent.
`OutputFeed` is its abstraction: a client that joins is shown a suffix of what has
been written and then everything, in order, until it leaves or is told of the end
after the last byte. `Feed == INSTANCE OutputFeed WITH ...` is the mapping and
`ImplementsFeed` the property.

**AttachStream** continues where `AgentRegistry`'s `"streaming"` and
`OutputSession`'s `events` end: the handler takes an event, writes its frame in
pieces when the socket has room, and reads frames only in between. `cgot`/`dgot` is
what a read under way has taken, and `ccut`/`dcut` whether the other branch has ever
dropped one. What is left of that frame is then read as a length (`Garbage`): the
read fails, or goes `"astray"` and waits with all it finds, until it is dropped in its
turn or the connection ends. The body of `Detach` and of `Ok` is one byte, too short
for a length, and always waits (`TooShort`).
`WriteTerminal` is the `spawn_blocking` write that the handler awaits.

**PtyWrite.** `pc[c]` is where the request of a client is: `"queued"` for a thread of
the pool, `"locking"`, `"writing"`, `"removing"`. `holder` is who has the
`write_lock`, `part[w]` the payload a writer is at and `progress[w]` what `write_all`
has written of it, `bytes` all that reached the terminal, `taken` how much of it the
agent has read; it may never read. `NextJob` takes closures in the order of the queue, and
`RuntimeDrop` cancels those that have not started, as tokio's pool does. A failed
write ends a `send` but only skips a keystroke. `listed` is the entry in the
registry; what its name comes to mean afterwards is in `AgentRegistry`.

**Commands.** A client is `pc[c]`, the command, and `part[c]`, the half of it: `run`
attaches in a second connection, a long `send` makes two requests, a restart stops
and then starts. `Load` reads a configuration file, a different one each time if the
user edits it. `boot` numbers the daemons and `conn[c]` is the one a client talks to,
so that an answer of a dead daemon never arrives (`Lost`). `build` is `"older"` for a
daemon left over from before an upgrade, whose handshake refuses. `byName`, `kind`,
`exited` and `attached` are as much of `AgentRegistry` as a client can see.
`effects[c]` is history: what was done for the command, and what a request that failed
has left behind (`Traces`): a `run` that is refused after the fork leaves a process
without an entry (`ClaimStrands`), a write that fails perhaps a piece of the text
(`SendFails`). The answers of the daemon are steps of their own (`Serve`), those to
`send` and `rm` among them, which may never come (`Blocking`).

**DetachTrigger** begins with the key that `config.toml` names and the sequences a
terminal sends for it (`Sent`, from the outside); what the code makes of the name is
`Config.ParseDetachKey`, so that `MatchSound` relates the two.

**DaemonSocket** sees a daemon as its steps on the path, and a whole registry as
the step `KillAgents`. `path` is who bound the file that is there. `alone` is
history: the client whose command has met no other command and no crash. In `Inbox`
`orderly` plays that part: readers have so far run one after the other, unkilled.

The modules are composed by what they share: `DaemonSocket.KillAgents` is
`AgentRegistry.ShutdownAll`; `AgentRegistry.SessionEof`/`SessionDrop` are the two
ends of the task in `OutputSession`; `AgentRegistry.CleanupInboxFiles` is
`Inbox.WipeMessages` and `WipeCursor`. `PtyWrite.Terminate` and `ShutdownAll` are
`AgentRegistry`'s; `AttachStream.WriteTerminal` is one client's view of `PtyWrite`.
`Commands` stands on top: each of its requests is a handler of `AgentRegistry`, its
daemons are those of `DaemonSocket` when they do not contend.

Definitions marked "(Faulty: ...)" are not part of any specification. Each is a
plausible bug of the definition below it, kept to show that the property paired
with it in `PROJECT.json` can fail.

### Assumptions of the models

- The exit of an agent's process hangs up its terminal sooner or later; that the
  terminal is closed makes nobody exit. Both are the kernel's doing (`external`).
- A read that has gone astray fails or waits for the rest of its false frame. That
  such a frame becomes complete and is taken for a message is not followed: its false
  length must be within `MAX_FRAME_LEN` and the bytes decode.
- Opening and reading the message file of an inbox is one step; an append is one
  `write`, whole or not at all (`client/inbox.rs:27-28`).
- In `Inbox`, `Outlives = FALSE` says no reader of an earlier agent still runs
  when its files are removed. `MCInbox_outlives.cfg` shows what it hides.
- In `Commands` one daemon serves at a time and a request takes effect in one step;
  `DaemonSocket`, `AgentRegistry` and `PtyWrite` are where those are refined. A client
  is not killed there, and reads its answer if the daemon lives to send one; a client
  that is killed reports nothing.
- In `PtyWrite` the end of the daemon kills an agent that no entry holds (the
  parent-death signal), and a blocking write is woken by the hang-up (the kernel).
- Nobody is attached in `DaemonSocket`, so a stop is never refused there.

## 3. Runs

| run | instance | shows |
|---|---|---|
| `registry_safety` | 1 name, 2 ids, 2 handlers, all failures, symmetry | types, maps, exclusive attach, outcome of rm, truth of `dead`, fresh inbox, what clean and kill may touch; 0.75 million states |
| `registry_live` | 1 name, 1 id, 2 handlers | rm ends, exits are noticed and release an attach, a stop completes |
| `output_feed` | 2 clients, ring of 2 bytes, terminal of 2, 3 bytes written | safety, refinement of `OutputFeed`, and liveness; 0.24 million states |
| `socket` | 3 daemons, 2 clients, 3 commands in all, crashes, timeouts | no file without a crash; a stop stops; a command gets a daemon; 0.5 million states |
| `attach_talk` | 2 keystrokes, 3 chunks, 6 pieces of buffer, split frames | order, delivery, release, the detach key; 0.3 million states |
| `detach_cuts` | 10 keys, 6 bytes in reads of up to 3 | the configured key and only it detaches, whatever the cuts |
| `inbox` | 2 senders, 2 readers, 2 messages each, 3 reads, kills, one removal | the cursor never skips an unprinted message; exactly once, in order, all; 0.3 million states |
| `pty_write` | a paste of 2 pieces and its Enter, a line of 2, 2 keystrokes, an `rm`; 2 threads, room for 1 piece | payloads whole, writes and stops end; 0.19 million states |
| `commands` | 2 clients, 2 commands of 22, 5 files, 3 builds, deaths | what is reported, with success or any kind of failure, is what was done; restarts replace; commands end, unless a send or an rm waits for its answer; 0.24 million states |
| `run_on_taken_name` | violation | section 4 |
| `split_frame` | violation | section 4 |
| `restart_reloads` | violation | section 4 |

Why these bounds. In the registry two ids are what reuse of a name needs (the
removed entry and its successor) and two handlers what every race here needs; the
same safety properties are proved for all sizes. A name more adds nothing but
independent copies: with two names the same run takes 4.3 million states and
holds too. Three bytes over a ring of two make the ring overflow in the middle of
a chunk and leave one more chunk in the channel. Six pieces hold the frames of two
keystrokes and the detach request, so that the client is never kept from reading,
while three chunks and the end do not fit and the handler is. Six bytes hold the
escape form of four with one on each side and leave reads of three to cut it
twice; the keys are the default, one whose control byte begins the other encoding,
a letter, one without a control byte, and one for each way to be refused. Two
threads and three writers and an `rm` fill the pool with one to spare in the queue,
and room for one piece makes every payload of two block in its middle. Three
commands on the socket let a restart cross a stop and a use; two of all the commands
let each meet each between its halves, and the safety properties are proved for any number. Deadlock is not checked: every system here may come to rest (nobody asks,
the agent has nothing to write, bounds are used up).

Fairness. The runtime polls ready tasks, the blocking pool runs what it started,
threads are scheduled: weak fairness of the handlers' own steps, of the reader
thread, of the session task, of the daemon's exit sequence. The kernel delivers
SIGKILL and hangs up the terminal of an exited process. No fairness is given to
users, agents, crashes or requests, none to which branch a `select!` without
`biased` takes, and a timeout need not be late. In `AttachStream` an agent that
reads its input goes on to do so (`AgentReads`), and so it does in `PtyWrite`
(`reads`), where one that does not is never made to; in `OutputSession` a client goes
on reading what it is sent. In `Commands` a daemon that has been told to stop stops,
and the two seconds of a wait pass; a user need not leave an agent. A daemon answers
what it can answer by itself. Nothing makes it answer a `send`, which awaits a write
that lasts until the agent reads, or an `rm`, which awaits a thread of the pool such
writes may fill (`daemon/server.rs:245`, `324`; `RmTakesPlace` is violated in
`PtyWrite`), and their clients have no timeout: `CommandsEnd` says that nothing else
keeps a command from ending, and `WritesEnd` when those do.

## 4. Disagreements between the repository's words and the code

Three are runs, with their counterexample checked at every check:

| run | words | what happens |
|---|---|---|
| `run_on_taken_name` | the daemon owns its agents; only a hard crash leaves processes it has no record of (`issues/29-macos-orphan-prevention.md:15-21`) | `handle_run` forks before it inserts; with a taken name the entry is dropped and the child runs on, kept alive by its reader thread |
| `split_frame` | each message is a length-prefixed frame (`docs/protocol.md:13`) | `read_msg` is a `select!` branch and not cancel-safe: output that becomes ready between the length and the body drops the length; the next read fails or waits for ever, or, after a second drop, a whole frame is missing |
| `restart_reloads` | on a version mismatch, `pswarm daemon restart` reloads the binary (`docs/protocol.md:28`, `client/connection.rs:60-63`) | restart takes the mismatch for "no daemon", connects again to the same daemon and fails the same way; nobody asks it to stop |

More are stated in the modules (the section "What the repository says of the
program and the code does not do"), each with a configuration that shows the
counterexample; one that names several properties stops at the first, and
`tlc -continue ... | grep violated` lists them all:

| property, configuration | what happens |
|---|---|
| `GracefulStopKillsAll`, `MCAgentRegistry_stop` | a run that crosses a stop is forked or inserted after `shutdown_all` and survives the daemon |
| `PoliteStopSparesAttached`, `MCAgentRegistry_stop` | somebody attaches between the check for attached agents and the notification |
| `CleanOnlyExited`, `MCAgentRegistry_cleanonly` | an agent that closed its terminal and runs on is marked dead and swept |
| `InboxKept`, `MCAgentRegistry_inboxkept` | an rm that ends late wipes the inbox of the next agent of the name |
| `EventFromSelf`, `MCAgentRegistry_eventself` | a hook of a removed agent reports for its successor |
| `ViewOfDead`, `MCOutputSession_words` | the ring is gone with the session task |
| `AttachedIsTold`, `MCOutputSession_words` | an attach accepted just before the end gets an internal error |
| `ExitCodeTruthful`, `MCOutputSession_words` | death by a signal is reported as code 0 |
| `StopConfirmsExit`, `MCDaemonSocket_confirms` | the socket refuses before the daemon has exited |
| `SingleInstance`, `MCDaemonSocket_single` | only one daemon may bind the socket (`docs/protocol.md:8`), but two find the same stale file and the second removes what the first has just bound |
| `RestartServes`, `MCDaemonSocket_restart` | a lone restart: the new daemon finds the old file, the old daemon unlinks it, the new one's `remove_file` fails and it leaves |
| `EveryKeyForwarded`, `MCDetachTrigger_forwarded` | a lone Escape is held back until the next key |
| `CutsDoNotShow`, `MCDetachTrigger_capital` | the escape form of `ctrl+B` is built from the capital's code, which no terminal sends |
| `RmTakesPlace`, `MCPtyWrite_rmtakesplace` | writes that wait for the agent fill the pool, and the `rm` that would end them waits behind them |
| `SubmitsOwnText`, `MCPtyWrite_submits` | another writer's bytes come between a paste and its Enter |
| `HookStartsNothing`, `MCCommands_hook` | `event` is to be "a true no-op" without a daemon (`client/event.rs:10-13`), and starts one |
| `RunStrandsNothing`, `MCCommands_strands` | a configuration error is to leave no stranded agent (`client/run.rs:15-17`); without `--spawn` the file is read after the agent exists |
| `RunAttachesOwn`, `MCCommands_other` | `run` attaches by name, to whoever has it by then |
| `HalvesMeet`, `MCCommands_halves` | the Enter of a long `send` goes to the next agent of the name |
| `UnreadIsEmitted`, `MCInbox_outlives` | a follower does not notice a new file as long as the old one |
| `EveryChunkPrinted`, `MCAttachStream_deadlock` | both ends write into full sockets and wait for each other |
| `DetachCloses`, `MCAttachStream_busy` | an agent that does not read keeps its handler in the write |
| `DetachAlways`, `MCAttachStream_strays` | the length of the detach request is dropped; its one byte is no length, the handler waits for more, and the client, whose stdin thread has returned, waits for its `Ok` |
| `LostMeansLost`, `MCAttachStream_deadlock` | a keystroke that meets the end of the session is reported as a lost daemon |

One thing met while modelling has no property: commands started at the same moment
may find the file of a daemon that has bound but does not listen yet. That, and
`RestartServes`, are why `UseSucceeds` is about commands that meet no other, and
`StopStops` about the time before a second daemon starts.

## 5. Proofs

`AgentRegistryProofs` proves, for every set of names, ids and handlers, with or
without parent-death signals and resource errors, every safety property of
`registry_safety`: `TypeCorrect`, `MapsAgree`, `AttachIsExclusive`, `RmIsSound`,
`DeadIsTrue`, `InboxStartsFresh`, and the action properties
`CleanIsSafe` and `KillIsLast`. The only assumptions are `NoneAssumption` (the
"none" values are not names or ids) and `ParameterAssumption` (the types of the
switches).

No property is inductive by itself. `Inv` adds to them what they lack:

- `HandlerOK`: a handler at a step that works on an entry has one, of the name it
  wants; the others have none. Everything about `agent[c]` needs it.
- `IndexOK`: the maps agree and hold created ids only, so that a fresh id is in
  neither.
- `FreshOK`: an id not created has no process, session or flag. Without it a fork
  could begin dead.
- `SpawnOwned`: a forked entry that is not inserted is in one hand and not in the
  index. Without it `Insert` could put back what an `rm` is removing, and
  the second half of `RmSound` (`RmOwnsEntry`) would break.
- `PollSignalled`: the grace period begins with a signal. `KillAfterTerm` needs it.

There is one lemma per conjunct (`TypeStep`, `HandlerStep`, `IndexStep`, ...), each
with a case for every action; `InitInv`, `NextInv` and `Invariance` join them.

`DaemonSocketProofs` proves `TypeCorrect`, `LeftoverIsCrash` (`NoLeftover`) and
`StopIsTrue` (`StopStops`) for any number of daemons, clients and commands, from
`SocketAssumption`. Its invariant says where a daemon stands whose file is at the
path (`BoundOK`: past bind, and if it is gone, it died), whose listener is open
(`ListeningOK`), that a daemon alone finds its file where it put it (`PathKept`,
which is what makes a missing file mean a closed listener), and that a client on
its way to stop a daemon has one (`PeerOK`).

`PtyWriteProofs` proves `TypeCorrect` and `WritesAreWhole` (`PayloadsWhole`) for any
finite set of clients, any payloads that are not empty, any size of the pool and of
the terminal's buffer, from `PtyWriteAssumption`. `Whole` is not inductive, for the
first piece of a payload may follow only the last piece of another:

- `LastIsMine`: while a writer is within a payload, its piece is the last of the
  terminal. It rests on `ClientsOK`, where exactly the holder of the lock writes.
- `LastIsComplete`: when nobody is, the last piece ends a payload, as long as the
  terminal is open. A failed write leaves a fragment, but only on a terminal that was
  hung up, and nothing follows on it.
- `NoneAhead`: no piece is of a payload its writer has not come to (for `InOrder`).
- `PartOK`: a writer that is not through has a payload to write (for the types).

`AsideInv` keeps these on every step that is not a writer's, which `AsideSteps`
collects; `LockInv`, `PieceInv` and `DoneInv` do the writer's steps, `TypeInv` the
types, with lemmas for the queue (`JoinQueue`, `LeaveQueue`) and for the number of
running closures (`FewerRun`, `OneMoreRuns`).

`InboxProofs` proves `TypeCorrect` for any processes and bounds, and, for an agent
that does not outlive its files (`Outlives = FALSE`, section 3), `NothingSkipped`
(`SavedMeansPrinted`) and `PrintedOnce` (`PrintedIsPrefix`). A line number means
something only while the file under it is appended to and never removed. So the
invariant, `Counted`, says that the files go only while nobody reads (`Quiet`), that
no line number in use points past the end (`Within`), and that a reader's copy is the
beginning of the file (`BatchOK`); then that everything before a line number has been
printed (`SavedOK`, `CursorOK`), and, while there was one reader at a time, that the
line number is how many were printed (`OrderlyOK`). `Within` needs `Quiet`: without
it `MCInbox_outlives` shows a reader that takes new lines for old ones.

`OutputSessionProofs` proves `TypeCorrect`, `StreamsAreSound` (`StreamSound`) and
`SessionIsFeed` (`ImplementsFeed`, the refinement of `OutputFeed`) for any clients,
ring, terminal buffer and amount of output, from `SizesAssumption`. Wherever output
waits it is a run of consecutive bytes, and each run begins where the next place's
ends:

- the channel of the reader thread is a `Chain` from `pushed` to `read`
  (`ChannelInv`), the ring the run before it (`TaskInv`), and a listener's events a
  `Chain` from what it was given to `pushed` (`ListenerInv`); flattening a chain gives
  the run, by induction on its length (`ChainFlattens`);
- what a listener was given begins where its backlog did (`GivenInv`), which is the
  window that `OutputFeed` fixes;
- every handler waits for one request only (`RequestsInv`), and the reader is done
  before the task only at the end of the terminal (`ReaderInv`): without it a task
  could end with bytes unread, and the end would come too early.

The refinement has one lemma per action, which names the step of `OutputFeed` that
it is, or shows that it leaves the feed unchanged.

`AttachStreamProofs` proves `TypeCorrect`, `KeysAreDelivered` (`KeysDelivered`) and
`OutputIsDelivered` (`OutputDelivered`) for any buffers and any number of keystrokes
and chunks, with and without frames that are split by `select!`, from
`StreamAssumption`. The pieces on the socket and those still to be written are those
of some list of messages from one place on, half a frame in when `h` is 1 (`Wire`), and
that is so whatever a reader makes of them: it takes from the front, also when it
drops what it has or goes astray (`ReadHalf`, `ReadAway`). So a message that is read
whole comes after all that was read before, and the list is numbered without gaps
(`UpRel`, `DownRel`): order needs no more. That nothing is missing needs a reader that
has never dropped anything (`dcut`, `ccut`), and both properties say so: after two
drops a reader may be in step again and have lost a frame in silence. The two
directions need each other only at the detach: an `Ok` is on the wire when the handler
has read the detach key, behind everything typed (`OkSent`).

`DetachTriggerProofs` proves `TypeCorrect` and `OnlyTheKeyIsHeld` (`HeldIsKeyPrefix`)
for any keys and any bytes, from `TriggerAssumption`, and `CutsAreNotSeen`
(`MatchSound`) with one hypothesis more, `AsParsed`: the terminal sends for a key what
`parse_detach_key` derives from its name. That is so of every key but the capital
letters, where the code is wrong (section 4); `MCDetachTrigger` assumes, and TLC
evaluates, that exactly the instance without capitals satisfies it. What makes
`MatchSound` inductive is `Holding`: until the detach the key is nowhere in what was
typed (`Untriggered`) and whatever beginning of it stands at the end is no longer than
what is held (`HeldIn`). So a key that the next read completes lies in what the thread
searches (`BegunLate`). `Found` says the same of the first key found. Lemmas turn
`IsPrefix`, `IsSuffix` and `SubSeq` into positions (`Begun`), and say that
`find_detach_trigger` finds the first key (`TriggersAre`, `MinIsLeast`) and
`partial_prefix_at_end` the longest beginning (`HeldBackIs`).

`CommandsProofs` proves `TypeCorrect`, `RestartsReplace` (`RestartReplaces`) and
`WhatIsReportedIsDone` (`ReportsAreTrue`) for any clients, commands, names, files and
templates of any length, from `CommandsAssumption`. `ReportsAreTrue` says for each
outcome what was done: all that is promised, once, for a success; for a refusal the half
before it and no more than a trace of the one refused; for a request that was never
made, or whose daemon did not come up, not even that; for a `[spawn]` command that is
not found, the agent; for a daemon that was lost, this request once or not at all. A
restart, which takes some failures for the absence of a daemon, is held to
`RestartReplaces` instead, and of `clean`, which may remove any number, only the aim is
stated. The invariant says what a command
has had done at each place it can be at (`EffectsOK`), on which agents (`AimedOK`), with
which command line (`ArgvOK`), that a restart in its second half is not served by the
daemon it found (`RestartOK`), and, for the types, counts the agents and daemons that
commands may still make (`CountsOK`). `ResolvedArgv` is the one fact about data: what
`substitute_element` leaves of an element, by induction on the words scanned.

Induction over data is done without the library's induction theorems, which take an
operator: a set of naturals that holds 0 and the successors of its members is all of
them, since the strict subset ordering of finite sets is well-founded (`LeastElement`;
`OutputSessionProofs` and `CommandsProofs` go on to `SetInduction`).

Only model-checked: liveness under fairness (`RmCompletes`, `ExitNoticed`,
`StopCompletes`, `RequestsAnswered`, `StreamsEnd`, `AgentNeverStuck`, `UseSucceeds`,
`GoneReleases`, `DetachWorks`, `EveryMessageRead`, `WritesEnd`, `StopEnds`,
`CommandsEnd`), which is out of the prover's reach here. Every other property of the
passing runs is also a theorem.

## 6. Not modelled

`Resize` (it travels like a keystroke), the raw mode of the user's terminal, process
ids, environment and directory of an agent, what `ls`, `view` and `doctor` print, the
grammar of the command line and of TOML, completion snippets, paths, logging, the
encoding of messages (a library's), memory held by the channels of slow clients,
zombies that the drain-only loop leaves. Left out of `AgentRegistry` is a SIGTERM that
the kernel refuses for another reason than that the pid is gone
(`daemon/registry.rs:299`; an agent that has changed its user): the code only logs it
and waits and sends the SIGKILL as ever, which is refused as well. The properties
about kills are about agents the daemon may signal.

## 7. Plan

In this order:

1. Process ids in `AgentRegistry`: a SIGTERM to a pid that has been reaped and
   reused (`daemon/registry.rs:295`).
2. Output that does not end in `AttachStream`: the biased `select!` and a detach
   that waits behind it.
3. A composition of `AgentRegistry` with `Inbox`, and of `OutputSession` with
   `AttachStream`, over one entry.

--------------------------- MODULE OutputSession ---------------------------
(***************************************************************************)
(* The output of one agent on its way to the clients: the pseudo-terminal, *)
(* the reader thread (session.rs, drain_into_session), the session task    *)
(* (output_session.rs) and the connection handlers that subscribe to it or *)
(* take a snapshot (server.rs, handle_attach and View).                    *)
(*                                                                         *)
(* The agent's k-th byte of output is the number k, so that a loss, a      *)
(* repetition and a change of order all show.  What an attached client     *)
(* types, and the frames on its socket, are another module's matter.       *)
(***************************************************************************)
EXTENDS Naturals, Sequences, SequencesExt

CONSTANTS
  Clients,     \* connection handlers, one request each
  RingBytes,   \* RING_BUFFER_BYTES
  PtyBytes,    \* what the kernel's terminal buffer holds
  MaxOutput    \* bound: bytes the agent writes

ASSUME SizesAssumption == /\ RingBytes \in Nat \ {0}
                          /\ PtyBytes \in Nat \ {0}
                          /\ MaxOutput \in Nat

VARIABLES
  fate,      \* of the agent's process: running, or how it ended
  tty,       \* does a process hold the slave side?
  written,   \* bytes the agent has written
  read,      \* bytes the reader thread has taken from the terminal
  reader,    \* "reading", or "done": its sender of chunks is dropped
  chunks,    \* the channel from the reader to the task
  task,      \* "running", "draining" (no inbox is left) or "gone"
  pushed,    \* how many bytes the task has put into the ring
  ring,
  requests,  \* the channel behind SessionInbox
  subscribers, \* the task's senders of events
  listed,    \* does the registry still hold the entry, and so an inbox?
  pc,        \* of each handler
  backlog,   \* of the SubscribeReply it got
  events,    \* its channel of SessionEvents
  sent       \* what it has written to its client

terminal == <<fate, tty, written>>
producer == <<read, reader>>
session  == <<task, pushed, ring, subscribers>>
handlers == <<pc, backlog, sent>>
vars == <<terminal, producer, chunks, session, requests, listed, handlers, events>>

Waiting == {"subscribing", "snapshotting"}
Holders == Waiting \cup {"attach", "view", "subscribed", "streaming"}
Ends    == {"left", "refused", "viewed", "endedZero", "endedNonzero"}

Output(bytes) == [type |-> "output", bytes |-> bytes]
Ended(code)   == [type |-> code, bytes |-> <<>>]
IsOutput(e)   == e.type = "output"

Runs(S) == UNION {[1..n -> S] : n \in 0..MaxOutput}
TypeOK ==
  /\ fate \in {"running", "zero", "nonzero", "signal"}
  /\ tty \in BOOLEAN
  /\ read \in 0..MaxOutput /\ written \in read..(read + PtyBytes)
  /\ reader \in {"reading", "done"}
  /\ task \in {"running", "draining", "gone"}
  /\ pushed \in 0..read
  /\ ring \in Runs(1..MaxOutput) /\ Len(ring) <= RingBytes
  /\ subscribers \subseteq Clients
  /\ listed \in BOOLEAN
  /\ pc \in [Clients -> {"idle"} \cup Holders \cup Ends]
  /\ \A c \in Clients : Len(backlog[c]) <= RingBytes
  /\ \A k \in DOMAIN requests : requests[k] \in Clients /\ pc[requests[k]] \in Waiting

Init ==
  /\ fate = "running" /\ tty = TRUE
  /\ written = 0 /\ read = 0
  /\ reader = "reading"
  /\ chunks = <<>>
  /\ task = "running" /\ pushed = 0 /\ ring = <<>> /\ subscribers = {}
  /\ requests = <<>>
  /\ listed = TRUE
  /\ pc = [c \in Clients |-> "idle"]
  /\ backlog = [c \in Clients |-> <<>>]
  /\ events = [c \in Clients |-> <<>>]
  /\ sent = [c \in Clients |-> <<>>]

Bytes(lo, hi) == [k \in 1..(hi - lo) |-> lo + k]

-----------------------------------------------------------------------------
(* The agent and its terminal. *)

\* A write blocks while the kernel's buffer is full.
AgentWrite ==
  /\ tty /\ written < MaxOutput /\ written - read < PtyBytes
  /\ written' = written + 1
  /\ UNCHANGED <<fate, tty, producer, chunks, session, requests, listed, handlers, events>>

\* Its end, and the closing of the slave side, by it or by the last process it
\* left behind, before or after that.
AgentExit(how) ==
  /\ fate = "running"
  /\ fate' = how
  /\ UNCHANGED <<tty, written, producer, chunks, session, requests, listed, handlers, events>>

TtyClose ==
  /\ tty
  /\ tty' = FALSE
  /\ UNCHANGED <<fate, written, producer, chunks, session, requests, listed, handlers, events>>

-----------------------------------------------------------------------------
(* The reader thread, drain_into_session. *)

\* read() returns what is there, in part or all.  A chunk that the task is not
\* there to receive ends the thread.
Read(n) ==
  /\ reader = "reading" /\ n \in 1..(written - read)
  /\ read' = read + n
  /\ IF task = "gone" THEN reader' = "done" /\ UNCHANGED chunks
     ELSE chunks' = Append(chunks, Bytes(read, read + n)) /\ UNCHANGED reader
  /\ UNCHANGED <<terminal, session, requests, listed, handlers, events>>

\* Ok(0), or the EIO of a master whose slaves are all closed.
ReadEof ==
  /\ reader = "reading" /\ ~tty /\ read = written
  /\ reader' = "done"
  /\ UNCHANGED <<terminal, read, chunks, session, requests, listed, handlers, events>>

-----------------------------------------------------------------------------
(* The session task.  Its select! takes any branch that is ready. *)

\* push_into_ring, byte by byte.
\* (Faulty: nothing is evicted; the new byte is dropped instead of the oldest.)
PushByteGrow(r, b) == Append(r, b)
PushByteKeepOld(r, b) == IF Len(r) = RingBytes THEN r ELSE Append(r, b)
PushByte(r, b) == Append(IF Len(r) = RingBytes THEN Tail(r) ELSE r, b)
PushIntoRing(r, bytes) ==
  LET after[k \in 0..Len(bytes)] == IF k = 0 THEN r ELSE PushByte(after[k-1], bytes[k])
  IN  after[Len(bytes)]

\* A handler that has stopped receiving makes the send to it fail.
Listening(c) == pc[c] \in {"subscribed", "streaming"}
\* (Faulty: a channel with room for one event, whose overflow is ignored.)
SendBounded(S, e) == events' = [c \in Clients |->
  IF c \in S /\ Listening(c) /\ events[c] = <<>> THEN <<e>> ELSE events[c]]
Send(S, e) == events' = [c \in Clients |->
                           IF c \in S /\ Listening(c) THEN Append(events[c], e) ELSE events[c]]

TakeChunk ==
  /\ task = "running" /\ chunks # <<>>
  /\ chunks' = Tail(chunks)
  /\ ring' = PushIntoRing(ring, Head(chunks))
  /\ pushed' = pushed + Len(Head(chunks))
  /\ Send(subscribers, Output(Head(chunks)))
  /\ subscribers' = {c \in subscribers : Listening(c)}
  /\ UNCHANGED <<terminal, producer, task, requests, listed, handlers>>

\* on_eof: code() of a status try_wait has, 0 without one and for a signal.
ExitCode == IF fate = "nonzero" THEN "endedNonzero" ELSE "endedZero"

\* Requests still in the channel are dropped with it, and so are the replies
\* their senders wait for.
\* (Faulty: the end of the thread is acted on before its chunks; no event.)
TakeEofEarly ==
  /\ task = "running" /\ reader = "done"
  /\ task' = "gone"
  /\ Send(subscribers, Ended(ExitCode))
  /\ requests' = <<>>
  /\ subscribers' = {}
  /\ UNCHANGED <<terminal, producer, chunks, pushed, ring, listed, handlers>>
TakeEofSilent ==
  /\ task = "running" /\ chunks = <<>> /\ reader = "done"
  /\ task' = "gone"
  /\ requests' = <<>>
  /\ UNCHANGED <<terminal, producer, chunks, pushed, ring, subscribers, listed, handlers, events>>
TakeEof ==
  /\ task = "running" /\ chunks = <<>> /\ reader = "done"
  /\ task' = "gone"
  /\ Send(subscribers, Ended(ExitCode))
  /\ requests' = <<>>
  /\ subscribers' = {}
  /\ UNCHANGED <<terminal, producer, chunks, pushed, ring, listed, handlers>>

\* (Faulty: the reply is sent, its events are not registered.)
TakeSubscribeForgets ==
  LET c == Head(requests) IN
  /\ task = "running" /\ requests # <<>> /\ pc[c] = "subscribing"
  /\ requests' = Tail(requests)
  /\ backlog' = [backlog EXCEPT ![c] = ring]
  /\ pc' = [pc EXCEPT ![c] = "subscribed"]
  /\ UNCHANGED <<terminal, producer, chunks, session, listed, sent, events>>
TakeSubscribe ==
  LET c == Head(requests) IN
  /\ task = "running" /\ requests # <<>> /\ pc[c] = "subscribing"
  /\ requests' = Tail(requests)
  /\ backlog' = [backlog EXCEPT ![c] = ring]
  /\ subscribers' = subscribers \cup {c}
  /\ pc' = [pc EXCEPT ![c] = "subscribed"]
  /\ UNCHANGED <<terminal, producer, chunks, task, pushed, ring, listed, sent, events>>

TakeSnapshot ==
  LET c == Head(requests) IN
  /\ task = "running" /\ requests # <<>> /\ pc[c] = "snapshotting"
  /\ requests' = Tail(requests)
  /\ sent' = [sent EXCEPT ![c] = ring]
  /\ pc' = [pc EXCEPT ![c] = "viewed"]
  /\ UNCHANGED <<terminal, producer, chunks, session, listed, backlog, events>>

\* No inbox is left: nobody can ask any more.
Unwanted == ~listed /\ \A c \in Clients : pc[c] \notin Holders

\* (Faulty: handlers keep no inbox of their own.)
StartDrainingUnlisted ==
  /\ task = "running" /\ requests = <<>> /\ ~listed
  /\ task' = "draining"
  /\ UNCHANGED <<terminal, producer, chunks, pushed, ring, subscribers, requests, listed, handlers, events>>
StartDraining ==
  /\ task = "running" /\ requests = <<>> /\ Unwanted
  /\ task' = "draining"
  /\ UNCHANGED <<terminal, producer, chunks, pushed, ring, subscribers, requests, listed, handlers, events>>

\* (Faulty: the task ends instead.)
DrainNothing ==
  /\ task = "draining"
  /\ task' = "gone"
  /\ UNCHANGED <<terminal, producer, chunks, pushed, ring, subscribers, requests, listed, handlers, events>>
Drain ==
  /\ task = "draining"
  /\ IF chunks # <<>> THEN chunks' = Tail(chunks) /\ UNCHANGED task
     ELSE reader = "done" /\ task' = "gone" /\ UNCHANGED chunks
  /\ UNCHANGED <<terminal, producer, pushed, ring, subscribers, requests, listed, handlers, events>>

TaskStep == TakeChunk \/ TakeEof \/ TakeSubscribe \/ TakeSnapshot \/ StartDraining \/ Drain

-----------------------------------------------------------------------------
(* The connection handlers. *)

Goto(c, s) == pc' = [pc EXCEPT ![c] = s]

\* The lookup clones the entry.
Lookup(c, what) ==
  /\ listed /\ pc[c] = "idle"
  /\ Goto(c, what)
  /\ UNCHANGED <<terminal, producer, chunks, session, requests, listed, backlog, sent, events>>

\* SessionInbox::subscribe and snapshot; an attached client has had its Ok.
Request(c) ==
  /\ pc[c] \in {"attach", "view"} /\ task # "gone"
  /\ requests' = Append(requests, c)
  /\ Goto(c, IF pc[c] = "attach" THEN "subscribing" ELSE "snapshotting")
  /\ UNCHANGED <<terminal, producer, chunks, session, listed, backlog, sent, events>>

\* The task is gone, before the request or before it was served.
\* (Faulty: only the send is checked; a reply that never comes is waited for.)
RefusedEarly(c) ==
  /\ pc[c] \in {"attach", "view"} /\ task = "gone"
  /\ Goto(c, "refused")
  /\ UNCHANGED <<terminal, producer, chunks, session, requests, listed, backlog, sent, events>>
Refused(c) ==
  /\ pc[c] \in {"attach", "view"} \cup Waiting /\ task = "gone"
  /\ Goto(c, "refused")
  /\ UNCHANGED <<terminal, producer, chunks, session, requests, listed, backlog, sent, events>>

WriteBacklog(c) ==
  /\ pc[c] = "subscribed"
  /\ sent' = [sent EXCEPT ![c] = backlog[c]]
  /\ Goto(c, "streaming")
  /\ UNCHANGED <<terminal, producer, chunks, session, requests, listed, backlog, events>>

ForwardOutput(c) ==
  /\ pc[c] = "streaming" /\ events[c] # <<>> /\ IsOutput(Head(events[c]))
  /\ sent' = [sent EXCEPT ![c] = @ \o Head(events[c]).bytes]
  /\ events' = [events EXCEPT ![c] = Tail(@)]
  /\ UNCHANGED <<terminal, producer, chunks, session, requests, listed, pc, backlog>>

ForwardEnded(c) ==
  /\ pc[c] = "streaming" /\ events[c] # <<>> /\ ~IsOutput(Head(events[c]))
  /\ Goto(c, Head(events[c]).type)
  /\ events' = [events EXCEPT ![c] = <<>>]
  /\ UNCHANGED <<terminal, producer, chunks, session, requests, listed, backlog, sent>>

\* Detach, a disconnect, or a failed write.  The receiver is dropped; the task
\* finds out at its next send.
Leave(c) ==
  /\ Listening(c)
  /\ Goto(c, "left")
  /\ events' = [events EXCEPT ![c] = <<>>]
  /\ UNCHANGED <<terminal, producer, chunks, session, requests, listed, backlog, sent>>

\* rm, clean, or the end of the daemon.
Unlist ==
  /\ listed
  /\ listed' = FALSE
  /\ UNCHANGED <<terminal, producer, chunks, session, requests, handlers, events>>

HandlerStep(c) ==
  Request(c) \/ Refused(c) \/ WriteBacklog(c) \/ ForwardOutput(c) \/ ForwardEnded(c)

-----------------------------------------------------------------------------
ReaderStep == ReadEof \/ \E n \in 1..PtyBytes : Read(n)

Next ==
  \/ AgentWrite \/ TtyClose \/ \E how \in {"zero", "nonzero", "signal"} : AgentExit(how)
  \/ ReaderStep
  \/ TaskStep
  \/ Unlist
  \/ \E c \in Clients : \/ HandlerStep(c) \/ Leave(c)
                        \/ \E what \in {"attach", "view"} : Lookup(c, what)

Spec == Init /\ [][Next]_vars

\* The thread and the tasks are scheduled; clients read what they are sent.
\* Nothing is assumed of the agent, of rm, or of which branch select! prefers.
Fairness == /\ WF_vars(ReaderStep)
            /\ WF_vars(TaskStep)
            /\ \A c \in Clients : WF_vars(HandlerStep(c))
FairSpec == Spec /\ Fairness

-----------------------------------------------------------------------------
(* Safety. *)

\* The bytes a handler has written or is about to write, in order.
Pipeline(c) ==
  (IF pc[c] = "subscribed" THEN backlog[c] ELSE sent[c])
    \o FlattenSeq([k \in DOMAIN events[c] |-> events[c][k].bytes])
Contiguous(s) == \A k \in 2..Len(s) : s[k] = s[k-1] + 1

\* The byte-wise eviction leaves the most recent bytes, whatever the sizes of
\* the chunks (output_session.rs, push_into_ring).
RingIsRecent == ring = Bytes(IF pushed > RingBytes THEN pushed - RingBytes ELSE 0, pushed)

\* A subscription is atomic: between the backlog and the first event, and ever
\* after, no byte is missing and none comes twice, and the listener is owed
\* everything up to the task's last chunk (output_session.rs, doc lines 3-10).
NoGapNoRepeat ==
  \A c \in Clients :
    /\ Contiguous(Pipeline(c))
    /\ Listening(c) /\ pushed > 0 => Pipeline(c) # <<>> /\ Last(Pipeline(c)) = pushed

\* The end of the session comes after the last byte the agent wrote, and
\* nothing comes after it, even when the process exits with output in the
\* terminal, the channel and the task's hands.
EndedIsLast ==
  \A c \in Clients :
    /\ pc[c] \in {"endedZero", "endedNonzero"} /\ written > 0
         => sent[c] # <<>> /\ Last(sent[c]) = written
    /\ \A k \in DOMAIN events[c] : IsOutput(events[c][k]) \/ k = Len(events[c])

\* Nobody listens to a task that has stopped talking: the drain-only loop has
\* no subscriber left, and a finished task has told every one (so the arm of
\* handle_attach for a closed channel is never taken).
NobodyCutOff ==
  \A c \in Clients : Listening(c) =>
    /\ task # "draining"
    /\ task = "gone" => events[c] # <<>> /\ ~IsOutput(Last(events[c]))

\* All four: a listener gets the recent bytes, everything after them, and the
\* end, each once and in order.
StreamSound == RingIsRecent /\ NoGapNoRepeat /\ EndedIsLast /\ NobodyCutOff

-----------------------------------------------------------------------------
(* Liveness. *)

\* A request is answered, though the task end with it in the channel.
RequestsAnswered == \A c \in Clients : pc[c] \in Waiting ~> pc[c] \notin Waiting

\* When the terminal is closed every stream comes to its end.
StreamsEnd == \A c \in Clients : (Listening(c) /\ ~tty) ~> ~Listening(c)

\* The agent's writes are never blocked for good, listed or removed, attached
\* or not (output_session.rs, the drain-only loop).
AgentNeverStuck == (written - read = PtyBytes) ~> (written - read < PtyBytes)

-----------------------------------------------------------------------------
(* Refinement: this is an OutputFeed. *)

\* What has become of a client, as far as it can tell.
Standing(c) ==
  IF pc[c] \in {"attach", "view"} \cup Waiting THEN "idle"
  ELSE IF Listening(c) THEN "open"
  ELSE IF pc[c] \in {"endedZero", "endedNonzero"} THEN "ended" ELSE pc[c]

\* Where its window begins: before the first byte it is owed or was given.
WindowStart(c) ==
  LET owed == IF backlog[c] # <<>> THEN backlog[c] ELSE Pipeline(c)
  IN  IF owed = <<>> THEN 0 ELSE Head(owed) - 1

FeedState == [c \in Clients |-> Standing(c)]
FeedBase  == [c \in Clients |-> WindowStart(c)]

Feed == INSTANCE OutputFeed WITH
  out <- pushed, over <- task # "running", state <- FeedState, base <- FeedBase, seen <- sent

\* Every step of the terminal, the thread, the task and the handlers is a step
\* of the feed or changes nothing a client can see.
ImplementsFeed == Feed!Spec

-----------------------------------------------------------------------------
(* What the repository says of the program and the code does not do. *)

\* A dead agent still returns its ring until its entry is removed.
ViewOfDead ==
  [][\A c \in Clients : listed /\ pc[c] \in {"view", "snapshotting"} => pc'[c] # "refused"]_vars

\* When the process exits, a client whose attach was accepted before is sent
\* SessionEnded.
AttachedIsTold == [][\A c \in Clients : pc[c] = "subscribing" => pc'[c] # "refused"]_vars

\* The exit code a client is given is the one of the process, if known.
ExitCodeTruthful ==
  \A c \in Clients : \A k \in DOMAIN events[c] :
    events[c][k].type = "endedZero" => fate = "zero"
=============================================================================

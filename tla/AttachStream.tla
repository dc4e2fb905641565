---------------------------- MODULE AttachStream ----------------------------
(***************************************************************************)
(* The conversation of an accepted attach: the client's select! loop       *)
(* (src/src/client/attach.rs, stream_loop), the handler's select! loop     *)
(* (src/src/daemon/server.rs, handle_attach) and the socket between them,  *)
(* whose frames are written and read in two pieces (protocol.rs).          *)
(*                                                                         *)
(* Both loops read with `read_msg` as one branch of a biased select!: when *)
(* the other branch is ready the read is dropped, with the bytes it has    *)
(* already taken from the socket.  The next read then takes the first four *)
(* bytes of what is left for a length: it waits until there are four, and  *)
(* fails or waits for a frame of that length.  Both loops write inside a   *)
(* branch, and do not read until the write is done.                        *)
(*                                                                         *)
(* The keystrokes and the chunks of output are numbered in their order.    *)
(* A Resize travels like a keystroke and is left out.                      *)
(***************************************************************************)
EXTENDS Naturals, SequencesExt

CONSTANTS
  Buffer,     \* pieces of frames a socket holds in each direction
  PtyInput,   \* keystrokes the terminal holds until the agent reads them
  MaxKeys, MaxOutput, \* bounds: keystrokes, chunks of output
  Split,      \* may a frame arrive in two pieces?
  AgentReads  \* does the agent read what is typed?

ASSUME StreamAssumption ==
  /\ Buffer \in Nat /\ Buffer >= 2 /\ PtyInput \in Nat \ {0}
  /\ MaxKeys \in Nat /\ MaxOutput \in Nat
  /\ Split \in BOOLEAN /\ AgentReads \in BOOLEAN

VARIABLES
  typed, asked,   \* keystrokes so far; has the detach key been hit?
  outgoing,       \* msg_rx of the client
  made, ended,    \* chunks the agent has written; is its session over?
  events,         \* the handler's channel of SessionEvents
  up, down,       \* the socket, from the client and to it
  cexit, cwrite, cgot,  \* client: how it ended, what it still has to write,
                        \*   what its read_msg has taken from the socket
  dstate, dwrite, dgot, \* the same of the handler
  ccut, dcut,           \* history: has it dropped a read that had begun?
  key,            \* the keystroke the handler is writing to the terminal
  input, taken,   \* all keystrokes written to the terminal; how many were read
  printed         \* all chunks the client has printed

user   == <<typed, asked>>
agent  == <<made, ended, taken>>
client == <<cexit, cwrite, cgot, ccut, printed>>
daemon == <<dstate, dwrite, dgot, dcut, key, input>>
vars == <<user, outgoing, agent, events, up, down, client, daemon>>

Msg(t, n) == [type |-> t, n |-> n]
Frame(m)  == <<[part |-> "len", msg |-> m], [part |-> "body", msg |-> m]>>

Messages == [type : {"stdin", "detach", "stdout", "ended", "ok"}, n : 0..(MaxKeys + MaxOutput)]
Pieces   == [part : {"len", "body"}, msg : Messages]

\* What a read has taken: the length of a frame, or bytes that are not one.
Got == {"nothing", "length", "astray"}

TypeOK ==
  /\ typed \in 0..MaxKeys /\ asked \in BOOLEAN
  /\ outgoing \in Seq(Messages) /\ events \in Seq(Messages)
  /\ made \in 0..MaxOutput /\ ended \in BOOLEAN
  /\ up \in Seq(Pieces) /\ down \in Seq(Pieces)
  /\ Len(up) <= Buffer /\ Len(down) <= Buffer
  /\ cexit \in {"no", "detached", "ended", "closed", "killed"}
  /\ cwrite \in Seq(Pieces) /\ dwrite \in Seq(Pieces)
  /\ cgot \in Got /\ dgot \in Got
  /\ ccut \in BOOLEAN /\ dcut \in BOOLEAN
  /\ dstate \in {"select", "terminal", "last", "over"}
  /\ key \in 0..MaxKeys
  /\ input \in Seq(1..MaxKeys) /\ taken \in 0..Len(input)
  /\ printed \in Seq(1..MaxOutput)

Init ==
  /\ typed = 0 /\ asked = FALSE /\ outgoing = <<>>
  /\ made = 0 /\ ended = FALSE /\ events = <<>>
  /\ up = <<>> /\ down = <<>>
  /\ cexit = "no" /\ cwrite = <<>> /\ cgot = "nothing" /\ ccut = FALSE
  /\ dstate = "select" /\ dwrite = <<>> /\ dgot = "nothing" /\ dcut = FALSE
  /\ key = 0 /\ input = <<>> /\ taken = 0
  /\ printed = <<>>

Attached == cexit = "no"
Serving  == dstate # "over"

-----------------------------------------------------------------------------
(* The user, through the stdin thread, and the agent. *)

Type ==
  /\ Attached /\ ~asked /\ typed < MaxKeys
  /\ typed' = typed + 1
  /\ outgoing' = Append(outgoing, Msg("stdin", typed'))
  /\ UNCHANGED <<asked, agent, events, up, down, client, daemon>>

\* (Faulty: it overtakes what was typed; or the thread returns without it.)
HitDetachKeyFirst ==
  /\ Attached /\ ~asked
  /\ asked' = TRUE
  /\ outgoing' = <<Msg("detach", 0)>> \o outgoing
  /\ UNCHANGED <<typed, agent, events, up, down, client, daemon>>
HitDetachKeySilent ==
  /\ Attached /\ ~asked
  /\ asked' = TRUE
  /\ UNCHANGED <<typed, outgoing, agent, events, up, down, client, daemon>>
HitDetachKey ==
  /\ Attached /\ ~asked
  /\ asked' = TRUE
  /\ outgoing' = Append(outgoing, Msg("detach", 0))
  /\ UNCHANGED <<typed, agent, events, up, down, client, daemon>>

Produce ==
  /\ ~ended /\ made < MaxOutput
  /\ made' = made + 1
  /\ events' = IF Serving THEN Append(events, Msg("stdout", made')) ELSE events
  /\ UNCHANGED <<user, outgoing, ended, taken, up, down, client, daemon>>

EndSession ==
  /\ ~ended
  /\ ended' = TRUE
  /\ events' = IF Serving THEN Append(events, Msg("ended", 0)) ELSE events
  /\ UNCHANGED <<user, outgoing, made, taken, up, down, client, daemon>>

ReadInput ==
  /\ AgentReads /\ taken < Len(input)
  /\ taken' = taken + 1
  /\ UNCHANGED <<user, outgoing, made, ended, events, up, down, client, daemon>>

-----------------------------------------------------------------------------
(* Frames.  write_msg waits for room; a frame that is not split needs its    *)
(* whole room at once.  read_msg takes what is there.                        *)

Now(pieces) == IF Split THEN SubSeq(pieces, 1, 1) ELSE pieces
Later(pieces) == SubSeq(pieces, Len(Now(pieces)) + 1, Len(pieces))
Room(sock, pieces) == Len(sock) + Len(Now(pieces)) <= Buffer

\* Whole: the frame, or what a read that has its length still lacks, is there.
Whole(sock, got) == CASE got = "nothing" -> Len(sock) >= 2 /\ Head(sock).part = "len"
                      [] got = "length"  -> sock # <<>>
                      [] OTHER           -> FALSE
Rest(sock, got) == IF got = "length" THEN Tail(sock) ELSE Tail(Tail(sock))
Begun(sock, got) == got = "nothing" /\ Len(sock) = 1 /\ Head(sock).part = "len"

\* What is there will be read for a length, or as a frame of a false length,
\* for the length before it was dropped.
Garbage(sock, got) ==
  sock # <<>> /\ (got = "astray" \/ (got = "nothing" /\ Head(sock).part = "body"))
\* A Detach and an Ok are one byte, of the four of a length; a short Stdin or
\* SessionEnded is less than four too, but another need not be.
TooShort(sock, got) ==
  got = "nothing" /\ Len(sock) = 1 /\ Head(sock).msg.type \in {"detach", "ok"}

-----------------------------------------------------------------------------
(* The client: stream_loop. *)

CSelect == Attached /\ cwrite = <<>>

\* The biased select! prefers what goes out, and drops a read that has begun.
CTake ==
  /\ CSelect /\ outgoing # <<>>
  /\ cwrite' = Frame(Head(outgoing))
  /\ outgoing' = Tail(outgoing)
  /\ cgot' = "nothing" /\ ccut' = (ccut \/ cgot # "nothing")
  /\ UNCHANGED <<user, agent, events, up, down, cexit, printed, daemon>>

CWrite ==
  /\ Attached /\ cwrite # <<>> /\ Serving /\ Room(up, cwrite)
  /\ up' = up \o Now(cwrite)
  /\ cwrite' = Later(cwrite)
  /\ UNCHANGED <<user, outgoing, agent, events, down, cexit, cgot, ccut, printed, daemon>>

CWriteFails ==
  /\ Attached /\ cwrite # <<>> /\ ~Serving
  /\ cexit' = "closed"
  /\ UNCHANGED <<user, outgoing, agent, events, up, down, cwrite, cgot, ccut, printed, daemon>>

\* (Faulty: a chunk that comes after the detach key is not printed.)
CReadDeaf ==
  LET m == Head(down).msg IN
  /\ CSelect /\ outgoing = <<>> /\ Whole(down, cgot)
  /\ down' = Rest(down, cgot) /\ cgot' = "nothing"
  /\ printed' = IF m.type = "stdout" /\ ~asked THEN Append(printed, m.n) ELSE printed
  /\ cexit' = CASE m.type = "ended" -> "ended" [] m.type = "ok" -> "detached" [] OTHER -> cexit
  /\ UNCHANGED <<user, outgoing, agent, events, up, cwrite, ccut, daemon>>
CRead ==
  LET m == Head(down).msg IN
  /\ CSelect /\ outgoing = <<>> /\ Whole(down, cgot)
  /\ down' = Rest(down, cgot) /\ cgot' = "nothing"
  /\ printed' = IF m.type = "stdout" THEN Append(printed, m.n) ELSE printed
  /\ cexit' = CASE m.type = "ended" -> "ended" [] m.type = "ok" -> "detached" [] OTHER -> cexit
  /\ UNCHANGED <<user, outgoing, agent, events, up, cwrite, ccut, daemon>>

CReadBegins ==
  /\ CSelect /\ outgoing = <<>> /\ Begun(down, cgot)
  /\ down' = <<>> /\ cgot' = "length"
  /\ UNCHANGED <<user, outgoing, agent, events, up, cexit, cwrite, ccut, printed, daemon>>

\* Bytes that are no length are taken for one, or for a frame of it.
CReadStrays ==
  /\ CSelect /\ outgoing = <<>> /\ Garbage(down, cgot)
  /\ down' = <<>> /\ cgot' = "astray"
  /\ UNCHANGED <<user, outgoing, agent, events, up, cexit, cwrite, ccut, printed, daemon>>

\* End of file; or a length over the limit.
CReadFails ==
  /\ CSelect /\ outgoing = <<>>
  /\ (down = <<>> /\ ~Serving) \/ (Garbage(down, cgot) /\ ~TooShort(down, cgot))
  /\ cexit' = "closed"
  /\ UNCHANGED <<user, outgoing, agent, events, up, down, cwrite, cgot, ccut, printed, daemon>>

ClientStep == CTake \/ CWrite \/ CWriteFails \/ CRead \/ CReadBegins
              \/ CReadStrays \/ CReadFails

\* A SIGKILL, a closed terminal window.
CKilled ==
  /\ Attached
  /\ cexit' = "killed"
  /\ UNCHANGED <<user, outgoing, agent, events, up, down, cwrite, cgot, ccut, printed, daemon>>

-----------------------------------------------------------------------------
(* The handler: handle_attach. *)

DSelect == dstate = "select" /\ dwrite = <<>>

\* (Faulty: only the latest event is kept for a handler that is busy.)
DTakeLatest ==
  /\ DSelect /\ events # <<>>
  /\ dwrite' = Frame(Last(events))
  /\ events' = <<>>
  /\ dstate' = IF Last(events).type = "ended" THEN "last" ELSE dstate
  /\ dgot' = "nothing" /\ dcut' = (dcut \/ dgot # "nothing")
  /\ UNCHANGED <<user, outgoing, agent, up, down, client, key, input>>
DTake ==
  /\ DSelect /\ events # <<>>
  /\ dwrite' = Frame(Head(events))
  /\ events' = Tail(events)
  /\ dstate' = IF Head(events).type = "ended" THEN "last" ELSE dstate
  /\ dgot' = "nothing" /\ dcut' = (dcut \/ dgot # "nothing")
  /\ UNCHANGED <<user, outgoing, agent, up, down, client, key, input>>

\* (Faulty: the room is not looked at.)
DWriteRegardless ==
  /\ Serving /\ dwrite # <<>> /\ Attached
  /\ down' = down \o Now(dwrite)
  /\ dwrite' = Later(dwrite)
  /\ dstate' = IF dstate = "last" /\ dwrite' = <<>> THEN "over" ELSE dstate
  /\ UNCHANGED <<user, outgoing, agent, events, up, client, dgot, dcut, key, input>>
DWrite ==
  /\ Serving /\ dwrite # <<>> /\ Attached /\ Room(down, dwrite)
  /\ down' = down \o Now(dwrite)
  /\ dwrite' = Later(dwrite)
  /\ dstate' = IF dstate = "last" /\ dwrite' = <<>> THEN "over" ELSE dstate
  /\ UNCHANGED <<user, outgoing, agent, events, up, client, dgot, dcut, key, input>>

DWriteFails ==
  /\ Serving /\ dwrite # <<>> /\ ~Attached
  /\ dstate' = "over"
  /\ UNCHANGED <<user, outgoing, agent, events, up, down, client, dwrite, dgot, dcut, key, input>>

DRead ==
  LET m == Head(up).msg IN
  /\ DSelect /\ events = <<>> /\ Whole(up, dgot)
  /\ up' = Rest(up, dgot) /\ dgot' = "nothing"
  /\ IF m.type = "stdin"
       THEN dstate' = "terminal" /\ key' = m.n /\ UNCHANGED dwrite
       ELSE dstate' = "last" /\ dwrite' = Frame(Msg("ok", 0)) /\ UNCHANGED key
  /\ UNCHANGED <<user, outgoing, agent, events, down, client, dcut, input>>

DReadBegins ==
  /\ DSelect /\ events = <<>> /\ Begun(up, dgot)
  /\ up' = <<>> /\ dgot' = "length"
  /\ UNCHANGED <<user, outgoing, agent, events, down, client, dstate, dwrite, dcut, key, input>>

DReadStrays ==
  /\ DSelect /\ events = <<>> /\ Garbage(up, dgot)
  /\ up' = <<>> /\ dgot' = "astray"
  /\ UNCHANGED <<user, outgoing, agent, events, down, client, dstate, dwrite, dcut, key, input>>

\* (Faulty: only a length over the limit ends the handler, the end of file does
\* not.)
DReadFailsGarbage ==
  /\ DSelect /\ events = <<>> /\ Garbage(up, dgot) /\ ~TooShort(up, dgot)
  /\ dstate' = "over"
  /\ UNCHANGED <<user, outgoing, agent, events, up, down, client, dwrite, dgot, dcut, key, input>>
DReadFails ==
  /\ DSelect /\ events = <<>>
  /\ (up = <<>> /\ ~Attached) \/ (Garbage(up, dgot) /\ ~TooShort(up, dgot))
  /\ dstate' = "over"
  /\ UNCHANGED <<user, outgoing, agent, events, up, down, client, dwrite, dgot, dcut, key, input>>

\* (Faulty: a write that took nothing passes for a whole one.)
WriteTerminalShort ==
  /\ dstate = "terminal" /\ (ended \/ Len(input) - taken < PtyInput)
  /\ dstate' = "select"
  /\ input' \in {input, IF ended THEN input ELSE Append(input, key)}
  /\ UNCHANGED <<user, outgoing, agent, events, up, down, client, dwrite, dgot, dcut, key>>
\* The handler waits for the blocking write to the terminal, which waits for
\* room; a terminal that is gone makes it fail, which is only logged.
WriteTerminal ==
  /\ dstate = "terminal" /\ (ended \/ Len(input) - taken < PtyInput)
  /\ dstate' = "select"
  /\ input' = IF ended THEN input ELSE Append(input, key)
  /\ UNCHANGED <<user, outgoing, agent, events, up, down, client, dwrite, dgot, dcut, key>>

HandlerStep == DTake \/ DWrite \/ DWriteFails \/ DRead \/ DReadBegins
               \/ DReadStrays \/ DReadFails \/ WriteTerminal

Next == Type \/ HitDetachKey \/ Produce \/ EndSession \/ ReadInput
        \/ ClientStep \/ CKilled \/ HandlerStep

Spec == Init /\ [][Next]_vars

\* Both loops are polled; an agent that reads does so again and again.
Fairness == WF_vars(ClientStep) /\ WF_vars(HandlerStep) /\ WF_vars(ReadInput)
FairSpec == Spec /\ Fairness

-----------------------------------------------------------------------------
Upto(n) == [k \in 1..n |-> k]

\* Some of the numbers up to n, in order and none twice.
InOrder(s, n) ==
  /\ \A k \in 1..Len(s) : s[k] \in 1..n
  /\ \A j, k \in 1..Len(s) : j < k => s[j] < s[k]

\* The agent gets keystrokes in the order they were typed and none twice, though
\* each is written by another thread of the blocking pool, and leaves none out
\* unless a read was dropped half-way (server.rs, handle_attach).
KeysInOrder == InOrder(input, typed) /\ (~dcut => IsPrefix(input, Upto(typed)))

\* The client prints the output in order and none twice, and without a gap
\* unless a read was dropped half-way (attach.rs, stream_loop).
OutputInOrder == InOrder(printed, made) /\ (~ccut => IsPrefix(printed, Upto(made)))

\* A client that was told of the end has printed everything before it, unless a
\* read of its own was dropped half-way.
EndedPrintsAll == cexit = "ended" /\ ~ccut => printed = Upto(made)

\* A client that detached leaves nothing behind: what was typed before the
\* detach key has reached the terminal (attach.rs, stdin_loop; server.rs,
\* handle_attach), unless the handler dropped a read half-way.
DetachedDelivers == cexit = "detached" /\ ~ended /\ ~dcut => input = Upto(typed)

\* Both directions: what arrives is in order, and what each way of leaving
\* promises has arrived.
KeysDelivered   == KeysInOrder /\ DetachedDelivers
OutputDelivered == OutputInOrder /\ EndedPrintsAll

\* However the client goes, the handler ends, and with it the attachment of the
\* agent (server.rs, AttachGuard).
GoneReleases == ~Attached ~> ~Serving

\* The detach key ends the attachment, for a user who has not typed more than
\* the socket holds, unless the handler has dropped a read half-way; and then
\* the end of the session still ends it (attach.rs, stdin_loop and stream_loop;
\* server.rs, handle_attach).
DetachWorks == /\ asked ~> (~Attached \/ dcut)
               /\ ended ~> ~Attached

-----------------------------------------------------------------------------
(* What the repository says of the program and the code does not do. *)

\* A frame is read as the frame it was written as.
FramesStayWhole == ~Garbage(down, cgot) /\ ~Garbage(up, dgot)

\* The detach key detaches, whatever the handler was in the middle of: not if
\* that was the frame of the detach key.
DetachAlways == asked ~> ~Attached

\* The connection closes when the detach key is hit.
DetachCloses == asked ~> ~Serving

\* Every chunk of output that reaches the handler is printed, if the client
\* stays.
EveryChunkPrinted ==
  \A k \in 1..MaxOutput : (Serving /\ made = k) ~> (Len(printed) >= k \/ ~Attached)

\* The connection is reported as lost only if the session has not ended.
LostMeansLost == cexit = "closed" => ~ended
=============================================================================

--------------------------- MODULE PtyWriteProofs ---------------------------
(***************************************************************************)
(* The write_lock of an agent does what it is for: for any number of       *)
(* clients, payloads of any length, any size of the pool and of the        *)
(* terminal's buffer, payloads reach the terminal whole and in order.      *)
(*                                                                         *)
(* While a writer is within a payload, its last piece is the last piece of *)
(* the terminal (LastIsMine); otherwise the last piece ends a payload, as  *)
(* long as the terminal is open and more may follow (LastIsComplete).      *)
(***************************************************************************)
EXTENDS PtyWrite, TLAPS, FiniteSetTheorems, SequenceTheorems

Busy == {"ready", "queued", "locking", "writing"}

\* A writer that is not through has a payload to write.
PartOK == \A w \in Writers : pc[w] \in Busy => part[w] \in DOMAIN Script[w]

\* No piece is of a payload that its writer has not come to.
NoneAhead == \A i \in DOMAIN bytes : bytes[i].payload <= part[bytes[i].by]

LastPiece == bytes[Len(bytes)]

LastIsMine ==
  \A w \in Writers : pc[w] = "writing" /\ progress[w] > 0 =>
    bytes # <<>> /\ LastPiece = Piece(w, part[w], progress[w])

LastIsComplete ==
  open /\ bytes # <<>> /\ (\A w \in Writers : pc[w] = "writing" => progress[w] = 0)
    => Ended(LastPiece)

Inv == TypeOK /\ PartOK /\ NoneAhead /\ LastIsMine /\ LastIsComplete /\ PayloadsWhole

USE DEF States

-----------------------------------------------------------------------------
\* Every payload has a first piece.
LEMMA ScriptLengths ==
  ASSUME NEW w \in Writers
  PROVE  /\ Len(Script[w]) \in Nat \ {0}
         /\ DOMAIN Script[w] = 1..Len(Script[w])
         /\ \A k \in DOMAIN Script[w] : Script[w][k] \in Nat \ {0}
BY PtyWriteAssumption, EmptySeq, LenProperties, ElementOfSeq

\* Nothing has been written, and no closure runs.
LEMMA InitInv == Init => Inv
<1> SUFFICES ASSUME Init PROVE Inv
  OBVIOUS
<1> USE PtyWriteAssumption DEF Init
<1>1. Running = {}
  BY DEF Running, Started
<1>2. Cardinality(Running) <= PoolThreads
  BY <1>1, FS_EmptySet
<1>3. queue \in Seq(Clients) /\ IsInjective(queue) /\ Range(queue) = {}
  BY DEF IsInjective, Range
<1>4. \A w \in Writers : part[w] \in DOMAIN Script[w]
  BY ScriptLengths
<1>5. TypeOK
  BY <1>2, <1>3, ScriptLengths
     DEF TypeOK, ClientsOK, QueueOK, PoolOK, TerminalOK, DaemonOK, Clients, Writers
<1>6. PartOK /\ NoneAhead /\ LastIsMine /\ LastIsComplete
  BY <1>4 DEF PartOK, NoneAhead, LastIsMine, LastIsComplete, Clients
<1>7. PayloadsWhole
  <2>1. Whole /\ InOrder
    BY DEF Whole, InOrder
  <2>2. \A s \in Senders : 1..(part[s] - 1) = {}
    BY DEF Writers
  <2> QED BY <2>1, <2>2 DEF PayloadsWhole, OkIsWritten
<1> QED BY <1>5, <1>6, <1>7 DEF Inv

-----------------------------------------------------------------------------
\* The number of running closures grows only by one that a thread was free for.
LEMMA FewerRun ==
  ASSUME Inv, Running' \subseteq Running
  PROVE  Cardinality(Running') <= PoolThreads
<1>1. IsFiniteSet(Running)
  BY PtyWriteAssumption, FS_Subset DEF Running
<1>2. Cardinality(Running') <= Cardinality(Running) /\ IsFiniteSet(Running')
  BY <1>1, FS_Subset
<1>3. Cardinality(Running) \in Nat /\ Cardinality(Running') \in Nat
  BY <1>1, <1>2, FS_CardinalityType
<1> QED BY <1>2, <1>3, PtyWriteAssumption DEF Inv, TypeOK, PoolOK

LEMMA OneMoreRuns ==
  ASSUME Inv, Cardinality(Running) < PoolThreads, NEW c,
         Running' \subseteq Running \cup {c}
  PROVE  Cardinality(Running') <= PoolThreads
<1>1. IsFiniteSet(Running)
  BY PtyWriteAssumption, FS_Subset DEF Running
<1>2. /\ IsFiniteSet(Running \cup {c})
      /\ Cardinality(Running \cup {c}) \in {Cardinality(Running), Cardinality(Running) + 1}
  BY <1>1, FS_AddElement
<1>3. Cardinality(Running') <= Cardinality(Running \cup {c}) /\ IsFiniteSet(Running')
  BY <1>2, FS_Subset
<1>4. /\ Cardinality(Running) \in Nat /\ Cardinality(Running') \in Nat
      /\ Cardinality(Running \cup {c}) \in Nat
  BY <1>1, <1>2, <1>3, FS_CardinalityType
<1> QED BY <1>2, <1>3, <1>4, PtyWriteAssumption

\* A closure that joins the queue was not in it.
LEMMA JoinQueue ==
  ASSUME Inv, NEW c \in Clients, pc[c] = "ready", Goto(c, "queued"),
         queue' = Append(queue, c)
  PROVE  /\ queue' \in Seq(Clients) /\ IsInjective(queue')
         /\ Range(queue') = {d \in Clients : pc'[d] = "queued"}
<1> USE DEF Inv, TypeOK, QueueOK, ClientsOK
<1>1. /\ queue' \in Seq(Clients) /\ Len(queue') = Len(queue) + 1 /\ Len(queue) \in Nat
      /\ \A i \in 1..Len(queue) : queue'[i] = queue[i]
      /\ queue'[Len(queue) + 1] = c
  BY AppendProperties, LenProperties
<1>2. DOMAIN queue = 1..Len(queue) /\ DOMAIN queue' = 1..(Len(queue) + 1)
  BY <1>1, LenProperties
<1>3. \A i \in DOMAIN queue : queue[i] # c
  BY DEF Range
<1>4. IsInjective(queue')
  BY <1>1, <1>2, <1>3 DEF IsInjective
<1>5. Range(queue') = Range(queue) \cup {c}
  <2>1. Range(queue') \subseteq Range(queue) \cup {c}
    BY <1>1, <1>2 DEF Range
  <2>2. \A i \in DOMAIN queue : i \in DOMAIN queue' /\ queue[i] = queue'[i]
    BY <1>1, <1>2
  <2>3. Range(queue) \subseteq Range(queue')
    <3> HIDE DEF Inv, TypeOK, QueueOK, ClientsOK
    <3> QED BY <2>2 DEF Range
  <2>4. c \in Range(queue')
    <3>1. Len(queue) + 1 \in DOMAIN queue' /\ queue'[Len(queue) + 1] = c
      BY <1>1, <1>2
    <3> HIDE DEF Inv, TypeOK, QueueOK, ClientsOK
    <3> QED BY <3>1 DEF Range
  <2> QED BY <2>1, <2>3, <2>4
<1>6. {d \in Clients : pc'[d] = "queued"} = {d \in Clients : pc[d] = "queued"} \cup {c}
  BY DEF Goto
<1> QED BY <1>1, <1>4, <1>5, <1>6

\* The closure at the head of the queue has not started.
LEMMA HeadQueued ==
  ASSUME Inv, queue # <<>>
  PROVE  Head(queue) \in Clients /\ pc[Head(queue)] = "queued"
<1>1. queue \in Seq(Clients)
  BY DEF Inv, TypeOK, QueueOK
<1>2. 1 \in DOMAIN queue /\ Head(queue) = queue[1]
  BY <1>1, EmptySeq, LenProperties
<1>3. Head(queue) \in Range(queue)
  BY <1>2 DEF Range
<1> QED BY <1>3 DEF Inv, TypeOK, QueueOK

\* A closure that leaves it is not in it any more.
LEMMA LeaveQueue ==
  ASSUME Inv, queue # <<>>, queue' = Tail(queue),
         NEW s \in {"locking", "removing", "failed"}, Goto(Head(queue), s)
  PROVE  /\ queue' \in Seq(Clients) /\ IsInjective(queue')
         /\ Range(queue') = {d \in Clients : pc'[d] = "queued"}
<1> USE DEF Inv, TypeOK, QueueOK, ClientsOK
<1>1. /\ queue' \in Seq(Clients) /\ Len(queue') = Len(queue) - 1
      /\ Len(queue) \in Nat \ {0}
      /\ \A i \in 1..Len(queue') : queue'[i] = queue[i + 1]
  BY HeadTailProperties, EmptySeq
<1>2. DOMAIN queue = 1..Len(queue) /\ DOMAIN queue' = 1..(Len(queue) - 1)
  BY <1>1, LenProperties
<1>3. Head(queue) = queue[1]
  OBVIOUS
<1>4. IsInjective(queue')
  BY <1>1, <1>2 DEF IsInjective
<1>5. Range(queue') = Range(queue) \ {queue[1]}
  <2> HIDE DEF Inv, TypeOK, QueueOK, ClientsOK
  <2>1. \A i, j \in DOMAIN queue : queue[i] = queue[j] => i = j
    BY DEF Inv, TypeOK, QueueOK, IsInjective
  <2>2. ASSUME NEW x \in Range(queue')  PROVE x \in Range(queue) \ {queue[1]}
    <3>1. PICK i \in DOMAIN queue' : x = queue'[i]
      BY <2>2 DEF Range
    <3>2. i + 1 \in DOMAIN queue /\ 1 \in DOMAIN queue /\ i + 1 # 1 /\ x = queue[i + 1]
      BY <1>1, <1>2, <3>1
    <3> QED BY <2>1, <3>2 DEF Range
  <2>3. ASSUME NEW x \in Range(queue), x # queue[1]  PROVE x \in Range(queue')
    <3>1. PICK i \in DOMAIN queue : x = queue[i]
      BY <2>3 DEF Range
    <3>2. i - 1 \in DOMAIN queue' /\ queue'[i - 1] = x
      BY <1>1, <1>2, <2>3, <3>1
    <3> QED BY <3>2 DEF Range
  <2> QED BY <2>2, <2>3
<1>6. {d \in Clients : pc'[d] = "queued"} = {d \in Clients : pc[d] = "queued"} \ {queue[1]}
  BY <1>3 DEF Goto
<1> QED BY <1>1, <1>4, <1>5, <1>6

\* A closure neither joins nor leaves the queue.
LEMMA QueueKept ==
  ASSUME Inv, UNCHANGED queue,
         \A c \in Clients : (pc'[c] = "queued") <=> (pc[c] = "queued")
  PROVE  QueueOK'
BY DEF Inv, TypeOK, QueueOK

\* No closure starts.
LEMMA PoolKept ==
  ASSUME Inv, \A c \in Clients : Started(c)' => Started(c)
  PROVE  PoolOK'
<1>1. Running' \subseteq Running
  BY DEF Running
<1> QED BY <1>1, FewerRun DEF PoolOK

LEMMA TerminalKept == ASSUME Inv, UNCHANGED <<bytes, taken>> PROVE TerminalOK'
BY DEF Inv, TypeOK, TerminalOK

LEMMA DaemonTyped == ASSUME Inv, Next PROVE DaemonOK'
BY DEF Inv, TypeOK, DaemonOK, Next, Send, SendRefused, Type, SessionEnds, Rm, Quit,
  PoolStep, NextJob, Lock, WritePiece, WriteDone, WriteFails, Terminate, AgentRead,
  AgentExit, HangUp, ShutdownAll, RuntimeDrop, Exit, position, pool, terminal, agent

-----------------------------------------------------------------------------
\* A request is made.
LEMMA Queued ==
  ASSUME Inv, NEW c \in Clients, pc[c] = "ready", Goto(c, "queued"),
         queue' = Append(queue, c), UNCHANGED <<part, progress, holder, bytes, taken>>
  PROVE  QueueOK' /\ PoolOK' /\ ClientsOK' /\ TerminalOK'
<1>1. QueueOK'
  BY JoinQueue DEF QueueOK
<1>2. pc \in [Clients -> States]
  BY DEF Inv, TypeOK, ClientsOK
<1>3. PoolOK'
  BY <1>2, PoolKept DEF Started, Goto
<1>4. ClientsOK'
  BY <1>2 DEF Inv, TypeOK, ClientsOK, Goto, Writers, Clients
<1> QED BY <1>1, <1>3, <1>4, TerminalKept

\* A client makes no request any more.
LEMMA Left ==
  ASSUME Inv, NEW c \in Clients, pc[c] = "ready", NEW s \in {"failed", "done", "lost"},
         Goto(c, s), UNCHANGED <<part, progress, queue, holder, bytes, taken>>
  PROVE  QueueOK' /\ PoolOK' /\ ClientsOK' /\ TerminalOK'
<1>1. pc \in [Clients -> States]
  BY DEF Inv, TypeOK, ClientsOK
<1>2. QueueOK'
  BY <1>1, QueueKept DEF Goto
<1>3. PoolOK'
  BY <1>1, PoolKept DEF Started, Goto
<1>4. ClientsOK'
  BY <1>1 DEF Inv, TypeOK, ClientsOK, Goto, Writers, Clients
<1> QED BY <1>2, <1>3, <1>4, TerminalKept

\* A thread of the pool takes a closure.
LEMMA Dequeued ==
  ASSUME Inv, NextJob
  PROVE  QueueOK' /\ PoolOK' /\ ClientsOK' /\ TerminalOK'
<1>1. PICK s \in {"locking", "removing", "failed"} :
        /\ Goto(Head(queue), s)
        /\ Head(queue) \in Writers => s = "locking"
        /\ Head(queue) \in Removers => s # "locking"
  BY PtyWriteAssumption DEF NextJob
<1>2. queue # <<>> /\ queue' = Tail(queue) /\ Cardinality(Running) < PoolThreads
      /\ UNCHANGED <<part, progress, holder, bytes, taken>>
  BY DEF NextJob, position, terminal
<1>3. Head(queue) \in Clients /\ pc[Head(queue)] = "queued"
  BY <1>2, HeadQueued
<1>4. pc \in [Clients -> States]
  BY DEF Inv, TypeOK, ClientsOK
<1>5. QueueOK'
  BY <1>1, <1>2, LeaveQueue DEF QueueOK
<1>6. PoolOK'
  <2>1. Running' \subseteq Running \cup {Head(queue)}
    BY <1>1, <1>4 DEF Running, Started, Goto
  <2> QED BY <1>2, <2>1, OneMoreRuns DEF PoolOK
<1>7. ClientsOK'
  BY <1>1, <1>2, <1>3, <1>4, PtyWriteAssumption DEF Inv, TypeOK, ClientsOK, Goto, Writers, Clients
<1> QED BY <1>5, <1>6, <1>7, <1>2, TerminalKept

\* A closure that runs goes on.
LEMMA Ran ==
  ASSUME Inv, NEW c \in Clients, Started(c),
         NEW s \in {"ready", "writing", "done", "failed", "lost"},
         Goto(c, s), UNCHANGED queue, s = "writing" => c \in Writers
  PROVE  QueueOK' /\ PoolOK'
<1>1. pc \in [Clients -> States]
  BY DEF Inv, TypeOK, ClientsOK
<1>2. QueueOK'
  BY <1>1, QueueKept DEF Goto, Started
<1>3. PoolOK'
  BY <1>1, PoolKept DEF Started, Goto
<1> QED BY <1>2, <1>3

\* The lock is given back, and the writer may go on to its next payload.
LEMMA Unlocked ==
  ASSUME Inv, NEW w \in Writers, pc[w] = "writing",
         NEW s \in {"ready", "done", "failed", "lost"}, Goto(w, s), holder' = None,
         part' \in {part, [part EXCEPT ![w] = @ + 1]}, UNCHANGED progress
  PROVE  ClientsOK'
<1> USE PtyWriteAssumption DEF Inv, TypeOK, ClientsOK
<1>1. w \in Clients
  BY DEF Clients
<1>2. part[w] \in 1..Len(Script[w]) /\ Len(Script[w]) \in Nat
  BY ScriptLengths DEF PartOK, Busy
<1>3. /\ part' \in [Writers -> Nat] /\ part'[w] \in 1..(Len(Script[w]) + 1)
      /\ \A v \in Writers : v # w => part'[v] = part[v]
  <2>1. CASE part' = part
    BY <1>2, <2>1
  <2>2. CASE part' = [part EXCEPT ![w] = @ + 1]
    <3>1. part[w] \in Nat /\ part'[w] = part[w] + 1
      BY <2>2
    <3> QED BY <1>2, <2>2, <3>1
  <2> QED BY <2>1, <2>2
<1>4. \A c \in Clients : pc'[c] = IF c = w THEN s ELSE pc[c]
  BY DEF Goto
<1>5. pc' \in [Clients -> States]
  BY DEF Goto
<1>6. \A v \in Writers : part'[v] \in 1..(Len(Script[v]) + 1)
  BY <1>3
<1>7. \A v \in Writers : pc'[v] = "writing" => progress'[v] <= Script[v][part'[v]]
  BY <1>3, <1>4 DEF Clients
<1>8. \A v \in Writers : (holder' = v) <=> (pc'[v] = "writing")
  BY <1>1, <1>4 DEF Clients
<1>9. /\ \A v \in Writers : pc'[v] # "removing"
      /\ \A r \in Removers : pc'[r] \notin {"locking", "writing"}
  BY <1>4 DEF Clients
<1> QED BY <1>3, <1>5, <1>6, <1>7, <1>8, <1>9

\* The step of a writer that runs: the lock, a piece, the end of a payload.
LEMMA WriterTyped ==
  ASSUME Inv, NEW w \in Writers, Lock(w) \/ WritePiece(w) \/ WriteDone(w) \/ WriteFails(w)
  PROVE  QueueOK' /\ PoolOK' /\ ClientsOK' /\ TerminalOK'
<1> USE PtyWriteAssumption
<1>1. w \in Clients
  BY DEF Clients
<1>2. /\ pc \in [Clients -> States]
      /\ part \in [Writers -> Nat] /\ progress \in [Writers -> Nat]
      /\ part[w] \in 1..(Len(Script[w]) + 1)
      /\ bytes \in Seq([by : Writers, payload : Nat, piece : Nat])
  BY DEF Inv, TypeOK, ClientsOK, TerminalOK
<1>3. pc[w] = "writing" => part[w] \in DOMAIN Script[w] /\ Script[w][part[w]] \in Nat \ {0}
  BY ScriptLengths DEF Inv, PartOK, Busy
<1>4. After(w) \in {"ready", "done", "lost"}
  BY DEF After
<1>5. CASE Lock(w)
  <2> USE <1>5 DEF Lock, terminal
  <2>1. QueueOK' /\ PoolOK'
    BY <1>1, Ran DEF Started
  <2>2. pc[w] = "locking" => part[w] \in DOMAIN Script[w] /\ Script[w][part[w]] \in Nat \ {0}
    BY ScriptLengths DEF Inv, PartOK, Busy
  <2>3. ClientsOK'
    BY <1>1, <1>2, <2>2 DEF Inv, TypeOK, ClientsOK, Goto, Clients
  <2> QED BY <2>1, <2>3, TerminalKept
<1>6. CASE WritePiece(w)
  <2> USE <1>6 DEF WritePiece, pool
  <2>1. QueueOK' /\ PoolOK'
    BY QueueKept, PoolKept DEF Started
  <2>2. ClientsOK'
    <3>1. pc' = pc /\ part' = part /\ holder' = holder /\ ClientsOK
      BY DEF Inv, TypeOK
    <3>2. progress' \in [Writers -> Nat] /\ progress'[w] = progress[w] + 1
          /\ \A v \in Writers : v # w => progress'[v] = progress[v]
      BY <1>2
    <3>3. progress'[w] <= Script[w][part[w]]
      <4>1. progress[w] < Script[w][part[w]] /\ Script[w][part[w]] \in Nat /\ progress[w] \in Nat
        BY <1>2, <1>3
      <4> QED BY <3>2, <4>1
    <3>4. \A v \in Writers : pc'[v] = "writing" => progress'[v] <= Script[v][part'[v]]
      BY <3>1, <3>2, <3>3 DEF ClientsOK
    <3> HIDE <1>6 DEF WritePiece, pool
    <3> QED BY <3>1, <3>2, <3>4 DEF ClientsOK
  <2>3. TerminalOK'
    <3>1. progress'[w] = progress[w] + 1
      BY <1>2
    <3> DEFINE p == Piece(w, part[w], progress'[w])
    <3>2. p \in [by : Writers, payload : Nat, piece : Nat] /\ bytes' = Append(bytes, p)
      BY <1>2, <3>1 DEF Piece
    <3>3. p.payload \in DOMAIN Script[p.by] /\ p.piece \in 1..Script[p.by][p.payload]
      BY <1>2, <1>3, <3>1 DEF Piece
    <3> HIDE DEF p
    <3>4. /\ bytes' \in Seq([by : Writers, payload : Nat, piece : Nat])
          /\ Len(bytes') = Len(bytes) + 1 /\ Len(bytes) \in Nat
          /\ \A i \in 1..Len(bytes) : bytes'[i] = bytes[i]
          /\ bytes'[Len(bytes) + 1] = p
          /\ DOMAIN bytes = 1..Len(bytes) /\ DOMAIN bytes' = 1..(Len(bytes) + 1)
      BY <1>2, <3>2, AppendProperties, LenProperties
    <3>5. \A i \in DOMAIN bytes' :
            /\ bytes'[i].payload \in DOMAIN Script[bytes'[i].by]
            /\ bytes'[i].piece \in 1..Script[bytes'[i].by][bytes'[i].payload]
      <4> SUFFICES ASSUME NEW i \in DOMAIN bytes'
                   PROVE  /\ bytes'[i].payload \in DOMAIN Script[bytes'[i].by]
                          /\ bytes'[i].piece \in 1..Script[bytes'[i].by][bytes'[i].payload]
        OBVIOUS
      <4>1. CASE i \in DOMAIN bytes
        BY <3>4, <4>1 DEF Inv, TypeOK, TerminalOK
      <4>2. CASE i = Len(bytes) + 1
        BY <3>3, <3>4, <4>2
      <4> QED BY <3>4, <4>1, <4>2
    <3>6. taken' \in 0..Len(bytes') /\ Len(bytes') - taken' <= PtyRoom
      BY <3>4 DEF Inv, TypeOK, TerminalOK
    <3> QED BY <3>4, <3>5, <3>6 DEF TerminalOK
  <2> QED BY <2>1, <2>2, <2>3
<1>7. CASE WriteDone(w)
  <2> USE <1>7 DEF WriteDone, terminal
  <2>1. QueueOK' /\ PoolOK'
    BY <1>1, <1>4, Ran DEF Started
  <2>2. ClientsOK'
    BY <1>4, Unlocked
  <2> QED BY <2>1, <2>2, TerminalKept
<1>8. CASE WriteFails(w)
  <2> USE <1>8 DEF WriteFails, terminal
  <2>1. PICK s \in {"ready", "done", "failed", "lost"} : Goto(w, s)
    BY <1>4
  <2>2. part' \in {part, [part EXCEPT ![w] = @ + 1]}
    OBVIOUS
  <2>3. QueueOK' /\ PoolOK'
    BY <1>1, <2>1, Ran DEF Started
  <2>4. ClientsOK'
    BY <2>1, <2>2, Unlocked
  <2> QED BY <2>3, <2>4, TerminalKept
<1> QED BY <1>5, <1>6, <1>7, <1>8

\* No step of a request: the agent, and the end of the daemon.
LEMMA OthersTyped ==
  ASSUME Inv,
         \/ AgentRead \/ AgentExit \/ HangUp
         \/ ShutdownAll \/ RuntimeDrop \/ Exit
  PROVE  QueueOK' /\ PoolOK' /\ ClientsOK' /\ TerminalOK'
<1>1. CASE AgentRead
  <2> USE <1>1 DEF AgentRead, position, pool
  <2>1. QueueOK' /\ PoolOK'
    BY QueueKept, PoolKept DEF Started
  <2>2. ClientsOK'
    BY DEF Inv, TypeOK, ClientsOK
  <2>3. Len(bytes) \in Nat
    BY LenProperties DEF Inv, TypeOK, TerminalOK
  <2>4. TerminalOK'
    BY <2>3, PtyWriteAssumption DEF Inv, TypeOK, TerminalOK
  <2> QED BY <2>1, <2>2, <2>4
<1>2. CASE AgentExit \/ HangUp \/ ShutdownAll \/ Exit
  <2>1. UNCHANGED <<pc, part, progress, queue, holder, bytes, taken>>
    BY <1>2 DEF AgentExit, HangUp, ShutdownAll, Exit, position, pool, terminal
  <2>2. QueueOK' /\ PoolOK' /\ TerminalOK'
    BY <2>1, QueueKept, PoolKept, TerminalKept DEF Started
  <2>3. ClientsOK'
    BY <2>1 DEF Inv, TypeOK, ClientsOK
  <2> QED BY <2>2, <2>3
<1>3. CASE RuntimeDrop
  <2> USE <1>3 DEF RuntimeDrop, position, terminal
  <2>1. pc \in [Clients -> States]
    BY DEF Inv, TypeOK, ClientsOK
  <2>2. QueueOK'
    <3>1. queue' = <<>> /\ \A c \in Clients : pc'[c] # "queued"
      BY <2>1
    <3> QED BY <3>1 DEF QueueOK, IsInjective, Range
  <2>3. PoolOK'
    BY <2>1, PoolKept DEF Started
  <2>4. ClientsOK'
    BY <2>1 DEF Inv, TypeOK, ClientsOK, Clients
  <2> QED BY <2>2, <2>3, <2>4, TerminalKept
<1> QED BY <1>1, <1>2, <1>3

LEMMA TypeInv == ASSUME Inv, Next PROVE TypeOK'
<1> SUFFICES QueueOK' /\ PoolOK' /\ ClientsOK' /\ TerminalOK'
  BY DaemonTyped DEF TypeOK
<1>1. ASSUME NEW s \in Senders, Send(s) \/ SendRefused(s)
      PROVE  QueueOK' /\ PoolOK' /\ ClientsOK' /\ TerminalOK'
  BY <1>1, Queued, Left DEF Send, SendRefused, Clients, Writers, position, pool, terminal
<1>2. ASSUME NEW t \in Typists, Type(t) \/ SessionEnds(t)
      PROVE  QueueOK' /\ PoolOK' /\ ClientsOK' /\ TerminalOK'
  BY <1>2, Queued, Left DEF Type, SessionEnds, Clients, Writers, position, pool, terminal
<1>3. ASSUME NEW r \in Removers, Rm(r)
      PROVE  QueueOK' /\ PoolOK' /\ ClientsOK' /\ TerminalOK'
  BY <1>3, Queued DEF Rm, Clients, position, terminal
<1>4. ASSUME NEW w \in Writers, Quit(w)
      PROVE  QueueOK' /\ PoolOK' /\ ClientsOK' /\ TerminalOK'
  BY <1>4, Left DEF Quit, Clients, position, pool, terminal
<1>5. ASSUME NEW r \in Removers, Terminate(r)
      PROVE  QueueOK' /\ PoolOK' /\ ClientsOK' /\ TerminalOK'
  <2> USE <1>5 DEF Terminate, position, pool, terminal
  <2>1. QueueOK' /\ PoolOK'
    BY Ran DEF Started, Clients
  <2>2. ClientsOK'
    BY PtyWriteAssumption DEF Inv, TypeOK, ClientsOK, Goto, Clients
  <2> QED BY <2>1, <2>2, TerminalKept
<1> QED BY <1>1, <1>2, <1>3, <1>4, <1>5, Dequeued, WriterTyped, OthersTyped DEF Next, PoolStep

-----------------------------------------------------------------------------
\* A step that writes nothing, begins no payload and ends none keeps what is said
\* of the bytes.
Aside ==
  /\ UNCHANGED <<part, progress, bytes>> /\ (open' => open)
  /\ \A w \in Writers : (pc'[w] = "writing") <=> (pc[w] = "writing")
  /\ \A w \in Writers : pc'[w] \in Busy => pc[w] \in Busy

LEMMA AsideInv ==
  ASSUME Inv, Aside
  PROVE  PartOK' /\ NoneAhead' /\ LastIsMine' /\ LastIsComplete' /\ PayloadsWhole'
<1> USE DEF Inv, Aside
<1>1. PartOK' /\ NoneAhead'
  BY DEF PartOK, NoneAhead
<1>2. LastIsMine' /\ LastIsComplete'
  BY DEF LastIsMine, LastIsComplete, LastPiece, Ended
<1>3. PayloadsWhole'
  BY DEF PayloadsWhole, Whole, InOrder, OkIsWritten, Ended
<1> QED BY <1>1, <1>2, <1>3

\* So does every step but those of a closure that writes.
WriterStep(w) == Lock(w) \/ WritePiece(w) \/ WriteDone(w) \/ WriteFails(w)

LEMMA AsideSteps ==
  ASSUME Inv, Next
  PROVE  Aside \/ \E w \in Writers : WriterStep(w)
<1> USE DEF Aside, Busy, Goto, Clients, Writers, position, pool, terminal
<1>1. pc \in [Clients -> States]
  BY DEF Inv, TypeOK, ClientsOK
<1>2. ASSUME NEW s \in Senders, Send(s) \/ SendRefused(s)  PROVE Aside
  BY <1>1, <1>2 DEF Send, SendRefused
<1>3. ASSUME NEW t \in Typists, Type(t) \/ SessionEnds(t)  PROVE Aside
  BY <1>1, <1>3 DEF Type, SessionEnds
<1>4. ASSUME NEW r \in Removers, Rm(r)  PROVE Aside
  BY <1>1, <1>4 DEF Rm
<1>5. ASSUME NEW w \in Writers, Quit(w)  PROVE Aside
  BY <1>1, <1>5 DEF Quit
<1>6. CASE NextJob
  <2>1. PICK s \in {"locking", "removing", "failed"} :
          pc' = [pc EXCEPT ![Head(queue)] = s]
    BY <1>6 DEF NextJob
  <2>2. pc[Head(queue)] = "queued"
    BY <1>6, HeadQueued DEF NextJob
  <2> QED BY <1>1, <1>6, <2>1, <2>2 DEF NextJob
<1>7. ASSUME NEW r \in Removers, Terminate(r)  PROVE Aside
  BY <1>1, <1>7 DEF Terminate
<1>8. CASE AgentRead \/ AgentExit \/ HangUp \/ ShutdownAll \/ Exit
  BY <1>8 DEF AgentRead, AgentExit, HangUp, ShutdownAll, Exit
<1>9. CASE RuntimeDrop
  BY <1>1, <1>9 DEF RuntimeDrop
<1> QED BY <1>2, <1>3, <1>4, <1>5, <1>6, <1>7, <1>8, <1>9 DEF Next, PoolStep, WriterStep

\* What the pieces of the terminal are.
LEMMA BytesTyped ==
  ASSUME Inv
  PROVE  /\ bytes \in Seq([by : Writers, payload : Nat, piece : Nat])
         /\ Len(bytes) \in Nat /\ DOMAIN bytes = 1..Len(bytes)
         /\ bytes # <<>> => Len(bytes) \in DOMAIN bytes
         /\ \A i \in DOMAIN bytes :
              bytes[i].by \in Writers /\ bytes[i].payload \in Nat /\ bytes[i].piece \in Nat
<1>1. bytes \in Seq([by : Writers, payload : Nat, piece : Nat])
  BY DEF Inv, TypeOK, TerminalOK
<1>2. Len(bytes) \in Nat /\ DOMAIN bytes = 1..Len(bytes)
  BY <1>1, LenProperties
<1>3. \A i \in DOMAIN bytes : bytes[i] \in [by : Writers, payload : Nat, piece : Nat]
  BY <1>1, <1>2, ElementOfSeq
<1> QED BY <1>1, <1>2, <1>3, EmptySeq

\* The lock is taken: no payload is under way.
LEMMA LockInv ==
  ASSUME Inv, NEW w \in Writers, Lock(w)
  PROVE  PartOK' /\ NoneAhead' /\ LastIsMine' /\ LastIsComplete' /\ PayloadsWhole'
<1> USE DEF Inv
<1>1. UNCHANGED <<part, bytes, open>> /\ w \in Clients
  BY DEF Lock, terminal, Clients
<1>2. \A v \in Writers : pc[v] # "writing"
  BY PtyWriteAssumption DEF Lock, TypeOK, ClientsOK, Clients
<1>3. \A v \in Writers : pc'[v] = IF v = w THEN "writing" ELSE pc[v]
  BY <1>1 DEF Lock, Goto, TypeOK, ClientsOK, Clients
<1>4. progress'[w] = 0
  BY DEF Lock, TypeOK, ClientsOK
<1>5. PartOK' /\ NoneAhead'
  BY <1>1, <1>3 DEF PartOK, NoneAhead, Busy, Lock
<1>6. LastIsMine'
  BY <1>2, <1>3, <1>4 DEF LastIsMine
<1>7. LastIsComplete'
  BY <1>1, <1>2 DEF LastIsComplete, LastPiece, Ended
<1>8. PayloadsWhole'
  BY <1>1 DEF PayloadsWhole, Whole, InOrder, OkIsWritten, Ended
<1> QED BY <1>5, <1>6, <1>7, <1>8

\* A payload ends, or is given up when the terminal has been hung up.
LEMMA DoneInv ==
  ASSUME Inv, NEW w \in Writers, WriteDone(w) \/ WriteFails(w)
  PROVE  PartOK' /\ NoneAhead' /\ LastIsMine' /\ LastIsComplete' /\ PayloadsWhole'
<1> USE DEF Inv
<1>1. /\ UNCHANGED <<progress, bytes, open>> /\ w \in Clients /\ pc[w] = "writing"
      /\ holder' = None
  BY DEF WriteDone, WriteFails, terminal, Clients
<1>2. \A v \in Writers : pc[v] = "writing" => v = w
  BY <1>1 DEF TypeOK, ClientsOK
<1>3. PICK s \in {"ready", "done", "failed", "lost"} : Goto(w, s)
  BY DEF WriteDone, WriteFails, After
<1>4. \A v \in Writers : pc'[v] = IF v = w THEN s ELSE pc[v]
  BY <1>1, <1>3 DEF Goto, TypeOK, ClientsOK, Clients
<1>5. \A v \in Writers : pc'[v] # "writing"
  BY <1>2, <1>4
<1>6. part[w] \in 1..Len(Script[w]) /\ Len(Script[w]) \in Nat
  BY <1>1, ScriptLengths DEF PartOK, Busy
<1>7. \A v \in Writers : part[v] \in Nat
  BY DEF TypeOK, ClientsOK
<1>8. /\ \A v \in Writers : v # w => part'[v] = part[v]
      /\ part'[w] \in {part[w], part[w] + 1}
      /\ s = "ready" => part'[w] = part[w] + 1 /\ part[w] < Len(Script[w])
  BY <1>1, <1>3, <1>7 DEF WriteDone, WriteFails, After, Goto, TypeOK, ClientsOK
<1>9. PartOK'
  <2> SUFFICES ASSUME NEW v \in Writers, pc'[v] \in Busy  PROVE part'[v] \in DOMAIN Script[v]
    BY DEF PartOK
  <2>1. CASE v = w
    BY <1>4, <1>6, <1>8, <2>1, ScriptLengths DEF Busy
  <2>2. CASE v # w
    BY <1>4, <1>8, <2>2 DEF PartOK
  <2> QED BY <2>1, <2>2
<1>10. NoneAhead'
  <2>1. \A i \in DOMAIN bytes : bytes[i].by \in Writers /\ bytes[i].payload \in Nat
    BY BytesTyped
  <2> QED BY <1>1, <1>7, <1>8, <2>1 DEF NoneAhead
<1>11. LastIsMine'
  BY <1>5 DEF LastIsMine
<1>12. LastIsComplete'
  <2>1. CASE WriteDone(w)
    <3>1. progress[w] = Script[w][part[w]] /\ progress[w] > 0
      BY <1>6, <2>1, ScriptLengths DEF WriteDone
    <3>2. LastPiece = Piece(w, part[w], progress[w])
      BY <1>1, <3>1 DEF LastIsMine
    <3>3. Ended(LastPiece)
      BY <3>1, <3>2 DEF Ended, Piece
    <3> QED BY <1>1, <3>3 DEF LastIsComplete, LastPiece, Ended
  <2>2. CASE WriteFails(w)
    BY <1>1, <2>2 DEF WriteFails, LastIsComplete
  <2> QED BY <2>1, <2>2
<1>13. PayloadsWhole'
  <2>1. Whole' /\ InOrder'
    BY <1>1 DEF PayloadsWhole, Whole, InOrder, Ended
  <2>2. ASSUME NEW v \in Senders, NEW k \in 1..(part'[v] - 1)
        PROVE  Contains(bytes, Piece(v, k, Script[v][k]))
    <3>0. v \in Writers /\ k \in Nat \ {0}
      BY DEF Writers
    <3>1. CASE k \in 1..(part[v] - 1)
      BY <3>1 DEF PayloadsWhole, OkIsWritten
    <3>2. CASE k \notin 1..(part[v] - 1)
      <4>1. v = w /\ k = part[w] /\ part'[w] = part[w] + 1
        BY <1>7, <1>8, <3>0, <3>2
      <4>2. WriteDone(w)
        BY <1>7, <4>1, PtyWriteAssumption DEF WriteFails
      <4>3. progress[w] = Script[w][part[w]] /\ progress[w] > 0
        BY <1>6, <4>2, ScriptLengths DEF WriteDone
      <4>4. bytes # <<>> /\ bytes[Len(bytes)] = Piece(w, part[w], progress[w])
        BY <1>1, <4>3 DEF LastIsMine, LastPiece
      <4>5. Len(bytes) \in 1..Len(bytes)
        BY <4>4, BytesTyped
      <4> QED BY <4>1, <4>3, <4>4, <4>5 DEF Contains
    <3> QED BY <3>1, <3>2
  <2> QED BY <1>1, <2>1, <2>2 DEF PayloadsWhole, OkIsWritten
<1> QED BY <1>9, <1>10, <1>11, <1>12, <1>13

\* A piece is written: the first, after the end of a payload, or the next one.
LEMMA PieceInv ==
  ASSUME Inv, NEW w \in Writers, WritePiece(w)
  PROVE  PartOK' /\ NoneAhead' /\ LastIsMine' /\ LastIsComplete' /\ PayloadsWhole'
<1> USE DEF Inv
<1> DEFINE p == Piece(w, part[w], progress[w] + 1)
<1>1. /\ UNCHANGED <<pc, part, open>> /\ pc[w] = "writing" /\ open
      /\ progress' = [progress EXCEPT ![w] = @ + 1]
  BY DEF WritePiece
<1>2. \A v \in Writers : pc[v] = "writing" => v = w
  BY <1>1 DEF TypeOK, ClientsOK
<1>3. progress \in [Writers -> Nat] /\ part[w] \in Nat
  BY DEF TypeOK, ClientsOK
<1>4. bytes' = Append(bytes, p)
  BY <1>1, <1>3 DEF WritePiece
<1>5. /\ p \in [by : Writers, payload : Nat, piece : Nat]
      /\ p.by = w /\ p.payload = part[w] /\ p.piece = progress[w] + 1
  BY <1>3 DEF Piece
<1> HIDE DEF p
<1>6. /\ Len(bytes) \in Nat /\ DOMAIN bytes = 1..Len(bytes)
      /\ Len(bytes') = Len(bytes) + 1 /\ DOMAIN bytes' = 1..(Len(bytes) + 1)
      /\ \A i \in 1..Len(bytes) : bytes'[i] = bytes[i]
      /\ bytes'[Len(bytes) + 1] = p /\ bytes' # <<>>
  BY <1>4, <1>5, BytesTyped, AppendProperties, LenProperties
<1>7. PartOK'
  BY <1>1 DEF PartOK
<1>8. NoneAhead'
  BY <1>1, <1>3, <1>5, <1>6 DEF NoneAhead
<1>9. LastIsMine'
  <2>1. LastPiece' = Piece(w, part'[w], progress'[w])
    BY <1>1, <1>3, <1>6 DEF LastPiece, p
  <2> QED BY <1>1, <1>2, <1>6, <2>1 DEF LastIsMine
<1>10. LastIsComplete'
  BY <1>1, <1>3 DEF LastIsComplete
<1>11. Whole'
  <2> SUFFICES ASSUME NEW i \in DOMAIN bytes'
               PROVE  \/ bytes'[i].piece = 1 /\ (i > 1 => Ended(bytes'[i - 1]))
                      \/ /\ i > 1
                         /\ bytes'[i] = Piece(bytes'[i - 1].by, bytes'[i - 1].payload,
                                              bytes'[i - 1].piece + 1)
    BY DEF Whole, Ended
  <2>1. CASE i \in DOMAIN bytes
    <3>1. bytes'[i] = bytes[i] /\ (i > 1 => bytes'[i - 1] = bytes[i - 1])
      BY <1>6, <2>1
    <3> QED BY <2>1, <3>1 DEF PayloadsWhole, Whole
  <2>2. CASE i = Len(bytes) + 1 /\ progress[w] = 0
    <3>1. bytes'[i].piece = 1
      BY <1>5, <1>6, <2>2
    <3>2. i > 1 => bytes # <<>> /\ bytes'[i - 1] = LastPiece
      BY <1>6, <2>2 DEF LastPiece
    <3>3. bytes # <<>> => Ended(LastPiece)
      BY <1>1, <1>2, <2>2 DEF LastIsComplete
    <3> QED BY <3>1, <3>2, <3>3
  <2>3. CASE i = Len(bytes) + 1 /\ progress[w] > 0
    <3>1. bytes # <<>> /\ LastPiece = Piece(w, part[w], progress[w])
      BY <1>1, <2>3 DEF LastIsMine
    <3>2. i > 1 /\ bytes'[i - 1] = LastPiece
      BY <1>6, <2>3, <3>1, BytesTyped DEF LastPiece
    <3>3. bytes'[i] = p
      BY <1>6, <2>3
    <3> QED BY <3>1, <3>2, <3>3 DEF p, Piece
  <2> QED BY <1>3, <1>6, <2>1, <2>2, <2>3
<1>12. InOrder'
  <2> SUFFICES ASSUME NEW i \in DOMAIN bytes', NEW j \in DOMAIN bytes', i < j,
                      bytes'[i].by = bytes'[j].by
               PROVE  bytes'[i].payload <= bytes'[j].payload
    BY DEF InOrder
  <2>1. CASE j \in DOMAIN bytes
    BY <1>6, <2>1 DEF PayloadsWhole, InOrder
  <2>2. CASE j = Len(bytes) + 1
    <3>1. i \in DOMAIN bytes /\ bytes'[i] = bytes[i] /\ bytes'[j] = p
      BY <1>6, <2>2
    <3> QED BY <1>5, <3>1 DEF NoneAhead
  <2> QED BY <1>6, <2>1, <2>2
<1>13. OkIsWritten'
  <2> SUFFICES ASSUME NEW s \in Senders, NEW k \in 1..(part[s] - 1)
               PROVE  Contains(bytes', Piece(s, k, Script[s][k]))
    BY <1>1 DEF OkIsWritten
  <2>1. PICK i \in 1..Len(bytes) : bytes[i] = Piece(s, k, Script[s][k])
    BY DEF PayloadsWhole, OkIsWritten, Contains
  <2>2. i \in 1..Len(bytes') /\ bytes'[i] = bytes[i]
    BY <1>6, <2>1
  <2> QED BY <2>1, <2>2 DEF Contains
<1> QED BY <1>7, <1>8, <1>9, <1>10, <1>11, <1>12, <1>13 DEF PayloadsWhole

-----------------------------------------------------------------------------
LEMMA NextInv == Inv /\ [Next]_vars => Inv'
<1> SUFFICES ASSUME Inv, [Next]_vars  PROVE Inv'
  OBVIOUS
<1>1. CASE Next
  <2>1. TypeOK'
    BY <1>1, TypeInv
  <2>2. PartOK' /\ NoneAhead' /\ LastIsMine' /\ LastIsComplete' /\ PayloadsWhole'
    BY <1>1, AsideSteps, AsideInv, LockInv, DoneInv, PieceInv DEF WriterStep
  <2> QED BY <2>1, <2>2 DEF Inv
<1>2. CASE UNCHANGED vars
  <2> USE <1>2 DEF vars, position, pool, terminal, agent
  <2>1. TypeOK'
    <3>1. QueueOK' /\ PoolOK' /\ TerminalOK'
      BY QueueKept, PoolKept, TerminalKept DEF Started
    <3>2. ClientsOK' /\ DaemonOK'
      BY DEF Inv, TypeOK, ClientsOK, DaemonOK
    <3> QED BY <3>1, <3>2 DEF TypeOK
  <2>2. Aside
    BY DEF Aside
  <2> QED BY <2>1, <2>2, AsideInv DEF Inv
<1> QED BY <1>1, <1>2

LEMMA Invariance == Spec => []Inv
BY InitInv, NextInv, PTL DEF Spec

\* Every variable keeps its type: no closure is queued twice or runs without a
\* thread, and the one that writes is the one that holds write_lock
\* (server.rs, the closures of spawn_blocking).
THEOREM TypeCorrect == Spec => []TypeOK
BY Invariance, PTL DEF Inv

\* Payloads reach the terminal whole, and those of one client in order, whoever
\* writes, is cut off or dies, and a payload that was answered with Ok is all
\* there (registry.rs, write_lock).
THEOREM WritesAreWhole == Spec => []PayloadsWhole
BY Invariance, PTL DEF Inv
=============================================================================

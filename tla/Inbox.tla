------------------------------- MODULE Inbox -------------------------------
(***************************************************************************)
(* The inbox of one agent name (src/src/client/inbox.rs): a file of        *)
(* messages that any process appends to, a file with the number of lines   *)
(* already read, and readers that print what is unread.  No daemon stands  *)
(* between them, but the daemon removes both files when an agent of the    *)
(* name starts or goes (daemon/registry.rs, cleanup_inbox_files).          *)
(*                                                                         *)
(* Processes interleave between system calls.  A message is its number; an *)
(* append is one write(2), whole or not at all; a cursor file that is      *)
(* missing, empty or truncated counts as line 0.                           *)
(***************************************************************************)
EXTENDS Naturals, SequencesExt

CONSTANTS
  Senders, Readers,  \* processes
  MaxPosts,  \* bound: messages
  MaxReads,  \* bound: `inbox read` commands
  MaxWipes,  \* bound: removals of the files
  Crashes,   \* may a reader be killed at any point?
  Outlives   \* may a reader of an earlier agent still run when the files go?

ASSUME InboxAssumption ==
  /\ MaxPosts \in Nat /\ MaxReads \in Nat /\ MaxWipes \in Nat
  /\ Crashes \in BOOLEAN /\ Outlives \in BOOLEAN

VARIABLES
  inode, lines, \* the message file: which one it is (0: there is none), its lines
  saved,        \* the line number in the cursor file
  inodes, posts, wipes, reads, \* how many so far
  handle,       \* the file a sender has opened; 0: none
  wiping,       \* the daemon is between the removals of the two files
  pc, follow, cursor, batch,   \* a reader, its variables
  printed,      \* what the readers printed, in order
  orderly       \* one reader at a time so far, each saved what it printed, no wipe

file    == <<inode, lines, inodes>>
sending == <<posts, handle>>
daemon  == <<wipes, wiping>>
reader  == <<reads, pc, follow, cursor, batch>>
vars == <<file, saved, sending, daemon, reader, printed, orderly>>

FilesOK ==
  /\ inode \in 0..inodes /\ inodes \in Nat
  /\ lines \in Seq(1..MaxPosts) /\ Len(lines) <= posts
  /\ saved \in 0..MaxPosts
  /\ posts \in 0..MaxPosts /\ wipes \in 0..MaxWipes
  /\ handle \in [Senders -> 0..inodes]
  /\ wiping \in BOOLEAN

ReadersOK ==
  /\ reads \in 0..MaxReads
  /\ pc \in [Readers -> {"off", "start", "poll", "print", "truncate", "save"}]
  /\ follow \in [Readers -> BOOLEAN]
  /\ cursor \in [Readers -> 0..MaxPosts]
  /\ batch \in [Readers -> Seq(1..MaxPosts)]
  /\ \A r \in Readers : Len(batch[r]) <= MaxPosts
  /\ printed \in Seq(1..MaxPosts)
  /\ orderly \in BOOLEAN

TypeOK == FilesOK /\ ReadersOK

Init ==
  /\ inode = 0 /\ lines = <<>> /\ inodes = 0
  /\ saved = 0 /\ posts = 0 /\ wipes = 0
  /\ reads = 0
  /\ handle = [s \in Senders |-> 0]
  /\ wiping = FALSE
  /\ pc = [r \in Readers |-> "off"]
  /\ follow = [r \in Readers |-> FALSE]
  /\ cursor = [r \in Readers |-> 0]
  /\ batch = [r \in Readers |-> <<>>]
  /\ printed = <<>>
  /\ orderly = TRUE

-----------------------------------------------------------------------------
\* post: the file is opened, and created if need be...
PostOpen(s) ==
  /\ handle[s] = 0 /\ posts < MaxPosts
  /\ IF inode = 0 THEN inode' = inodes + 1 /\ inodes' = inodes + 1
                  ELSE UNCHANGED <<inode, inodes>>
  /\ handle' = [handle EXCEPT ![s] = inode']
  /\ UNCHANGED <<lines, saved, posts, daemon, reader, printed, orderly>>

\* ...and written to, which nobody sees if it has been removed meanwhile.
PostWrite(s) ==
  /\ handle[s] # 0 /\ posts < MaxPosts
  /\ posts' = posts + 1
  /\ lines' = IF handle[s] = inode THEN Append(lines, posts') ELSE lines
  /\ handle' = [handle EXCEPT ![s] = 0]
  /\ UNCHANGED <<inode, inodes, saved, daemon, reader, printed, orderly>>

\* cleanup_inbox_files: the messages go before the cursor.
WipeMessages ==
  /\ ~wiping /\ wipes < MaxWipes
  /\ Outlives \/ \A r \in Readers : pc[r] = "off"
  /\ wiping' = TRUE /\ wipes' = wipes + 1
  /\ inode' = 0 /\ lines' = <<>>
  /\ orderly' = FALSE
  /\ UNCHANGED <<inodes, saved, sending, reader, printed>>

WipeCursor ==
  /\ wiping
  /\ wiping' = FALSE
  /\ saved' = 0
  /\ UNCHANGED <<file, sending, wipes, reader, printed, orderly>>

-----------------------------------------------------------------------------
Goto(r, s) == pc' = [pc EXCEPT ![r] = s]

Start(r, f) ==
  /\ pc[r] = "off" /\ reads < MaxReads
  /\ Outlives \/ ~wiping
  /\ Goto(r, "start")
  /\ reads' = reads + 1
  /\ orderly' = (orderly /\ \A q \in Readers : pc[q] = "off")
  /\ follow' = [follow EXCEPT ![r] = f]
  /\ UNCHANGED <<file, saved, sending, daemon, cursor, batch, printed>>

ReadCursor(r) ==
  /\ pc[r] = "start"
  /\ Goto(r, "poll")
  /\ cursor' = [cursor EXCEPT ![r] = saved]
  /\ UNCHANGED <<file, saved, sending, daemon, reads, follow, batch, printed, orderly>>

\* The end of a drain: the next poll, or the end of a read without --follow.
Drained(r) == Goto(r, IF follow[r] THEN "poll" ELSE "off")

\* (Faulty: what was there before is taken for read.)
PollFromEnd(r) ==
  /\ pc[r] = "poll" /\ inode # 0
  /\ batch' = [batch EXCEPT ![r] = lines]
  /\ cursor' = [cursor EXCEPT ![r] = IF @ = 0 \/ Len(lines) < @ THEN Len(lines) ELSE @]
  /\ Goto(r, "print")
  /\ UNCHANGED <<file, saved, sending, daemon, reads, follow, printed, orderly>>
\* drain reads the whole file; fewer lines than were read make it start over.
Poll(r) ==
  /\ pc[r] = "poll" /\ inode # 0
  /\ batch' = [batch EXCEPT ![r] = lines]
  /\ cursor' = [cursor EXCEPT ![r] = IF Len(lines) < @ THEN 0 ELSE @]
  /\ Goto(r, "print")
  /\ UNCHANGED <<file, saved, sending, daemon, reads, follow, printed, orderly>>

NoInbox(r) ==
  /\ pc[r] = "poll" /\ inode = 0
  /\ Drained(r)
  /\ UNCHANGED <<file, saved, sending, daemon, reads, follow, cursor, batch, printed, orderly>>

\* An unread line is printed before the cursor file is written.
PrintLine(r) ==
  /\ pc[r] = "print" /\ cursor[r] < Len(batch[r])
  /\ printed' = Append(printed, batch[r][cursor[r] + 1])
  /\ cursor' = [cursor EXCEPT ![r] = @ + 1]
  /\ Goto(r, "truncate")
  /\ UNCHANGED <<file, saved, sending, daemon, reads, follow, batch, orderly>>

\* write_cursor is fs::write: the file is truncated, then written.
Truncate(r) ==
  /\ pc[r] = "truncate"
  /\ saved' = 0
  /\ Goto(r, "save")
  /\ UNCHANGED <<file, sending, daemon, reads, follow, cursor, batch, printed, orderly>>

\* (Faulty: the number of the next line is saved; or that of the last one of
\* the batch, at once; or none.)
SaveNext(r) ==
  /\ pc[r] = "save"
  /\ saved' = cursor[r] + 1
  /\ Goto(r, "print")
  /\ UNCHANGED <<file, sending, daemon, reads, follow, cursor, batch, printed, orderly>>
SaveAll(r) ==
  /\ pc[r] = "save"
  /\ saved' = Len(batch[r])
  /\ Goto(r, "print")
  /\ UNCHANGED <<file, sending, daemon, reads, follow, cursor, batch, printed, orderly>>
SaveNothing(r) ==
  /\ pc[r] = "save"
  /\ Goto(r, "print")
  /\ UNCHANGED <<file, saved, sending, daemon, reads, follow, cursor, batch, printed, orderly>>
Save(r) ==
  /\ pc[r] = "save"
  /\ saved' = cursor[r]
  /\ Goto(r, "print")
  /\ UNCHANGED <<file, sending, daemon, reads, follow, cursor, batch, printed, orderly>>

PrintedAll(r) ==
  /\ pc[r] = "print" /\ cursor[r] >= Len(batch[r])
  /\ Drained(r)
  /\ UNCHANGED <<file, saved, sending, daemon, reads, follow, cursor, batch, printed, orderly>>

ReaderStep(r) == ReadCursor(r) \/ Poll(r) \/ NoInbox(r) \/ PrintLine(r)
                 \/ Truncate(r) \/ Save(r) \/ PrintedAll(r)

Kill(r) ==
  /\ Crashes /\ pc[r] # "off"
  /\ orderly' = (orderly /\ pc[r] \notin {"truncate", "save"})
  /\ Goto(r, "off")
  /\ UNCHANGED <<file, saved, sending, daemon, reads, follow, cursor, batch, printed>>

Next ==
  \/ \E s \in Senders : PostOpen(s) \/ PostWrite(s)
  \/ WipeMessages \/ WipeCursor
  \/ \E r \in Readers : \/ ReaderStep(r) \/ Kill(r)
                        \/ \E f \in BOOLEAN : Start(r, f)

Spec == Init /\ [][Next]_vars

\* A reader that runs is scheduled, its polls come in time.
Fairness == \A r \in Readers : WF_vars(ReaderStep(r))
FairSpec == Spec /\ Fairness

-----------------------------------------------------------------------------
\* Readers one at a time print every message exactly once and in order, over any
\* number of commands and polls, whichever sender created the file, and wherever
\* they are killed but between printing a line and saving its number (inbox.rs,
\* read and drain).
PrintedIsPrefix == orderly => IsPrefix(printed, lines)

\* A message before the saved cursor has been printed: whatever the readers
\* overwrite of each other's cursor, wherever one is killed, and whatever was
\* read before the files were removed, a later read skips nothing (inbox.rs,
\* drain; registry.rs, cleanup_inbox_files).
SavedMeansPrinted ==
  ~wiping => \A k \in 1..saved : k <= Len(lines) => Contains(printed, lines[k])

\* A follower prints every message of the file, also one that was there before
\* it started, unless it is killed or the file is removed first, and whatever
\* another reader does to the cursor file (inbox.rs, read).
EveryMessageRead ==
  \A r \in Readers : \A m \in 1..MaxPosts :
    (pc[r] = "start" /\ follow[r] /\ Contains(lines, m))
      ~> (Contains(printed, m) \/ pc[r] = "off" \/ ~Contains(lines, m))

\* A reader has printed every line it takes for read.
UnreadIsEmitted ==
  \A r \in Readers : pc[r] = "poll" =>
    \A k \in 1..cursor[r] : k <= Len(batch[r]) => Contains(printed, batch[r][k])
=============================================================================

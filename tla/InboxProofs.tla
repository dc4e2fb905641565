----------------------------- MODULE InboxProofs -----------------------------
(***************************************************************************)
(* The inbox of a name whose agent does not outlive its files (~Outlives): *)
(* for any number of senders, readers, messages, commands, removals and    *)
(* kills, no later read skips a message, and readers one at a time print   *)
(* each message once and in order.                                         *)
(*                                                                         *)
(* What makes a line number mean anything is that the file under it is     *)
(* only appended to: a reader that runs keeps the daemon from removing it  *)
(* (Quiet), so that what it has read stays the beginning of the file       *)
(* (BatchOK) and no line number points past its end (Within).              *)
(***************************************************************************)
EXTENDS Inbox, TLAPS, SequenceTheorems

Draining == {"print", "truncate", "save"}
Held     == {"poll"} \cup Draining      \* a reader's cursor is a line number
Saving   == {"truncate", "save"}

Quiet == wiping => \A r \in Readers : pc[r] = "off"

Within ==
  /\ ~wiping => saved <= Len(lines)
  /\ \A r \in Readers : pc[r] \in Held => cursor[r] <= Len(lines)

BatchOK ==
  \A r \in Readers : pc[r] \in Draining =>
    /\ cursor[r] <= Len(batch[r]) /\ Len(batch[r]) <= Len(lines)
    /\ \A k \in 1..Len(batch[r]) : batch[r][k] = lines[k]

\* What is before the saved line number, or a reader's, has been printed.
SavedOK  == ~wiping => \A k \in 1..saved : Contains(printed, lines[k])
CursorOK ==
  \A r \in Readers : pc[r] \in Held => \A k \in 1..cursor[r] : Contains(printed, lines[k])

\* With one reader at a time the line number is how many lines were printed.
OrderlyOK ==
  orderly =>
    /\ ~wiping
    /\ \A r, q \in Readers : pc[r] # "off" /\ pc[q] # "off" => r = q
    /\ (\A r \in Readers : pc[r] \notin Saving) => saved = Len(printed)
    /\ \A r \in Readers : pc[r] \in Held => cursor[r] = Len(printed)
    /\ Len(printed) <= Len(lines) /\ \A k \in 1..Len(printed) : printed[k] = lines[k]

Counted == Quiet /\ Within /\ BatchOK /\ SavedOK /\ CursorOK /\ OrderlyOK
Inv == TypeOK /\ Counted

USE InboxAssumption DEF Draining, Held, Saving

-----------------------------------------------------------------------------
\* The lengths are numbers.
LEMMA Lengths ==
  ASSUME TypeOK
  PROVE  /\ lines \in Seq(1..MaxPosts) /\ Len(lines) \in Nat
         /\ printed \in Seq(1..MaxPosts) /\ Len(printed) \in Nat
         /\ \A r \in Readers : batch[r] \in Seq(1..MaxPosts) /\ Len(batch[r]) \in Nat
         /\ saved \in Nat /\ \A r \in Readers : cursor[r] \in Nat
BY LenProperties DEF TypeOK, FilesOK, ReadersOK

LEMMA NoLines == <<>> \in Seq(1..MaxPosts) /\ Len(<<>>) = 0
OBVIOUS

LEMMA InitInv == Init => Inv
<1> SUFFICES ASSUME Init PROVE Inv
  OBVIOUS
<1> USE NoLines DEF Init
<1>1. FilesOK
  <2>1. wiping \in BOOLEAN
    OBVIOUS
  <2>2. inode = 0 /\ lines = <<>> /\ inodes = 0 /\ saved = 0 /\ posts = 0 /\ wipes = 0
        /\ handle = [s \in Senders |-> 0]
    OBVIOUS
  <2> HIDE DEF Init
  <2> QED BY <2>1, <2>2 DEF FilesOK
<1>2. ReadersOK
  BY DEF ReadersOK
<1>3. Counted
  BY DEF Counted, Quiet, Within, BatchOK, SavedOK, CursorOK, OrderlyOK
<1> QED BY <1>1, <1>2, <1>3 DEF Inv, TypeOK

-----------------------------------------------------------------------------
\* The types hold whether readers outlive the files or not.
LEMMA FilesStep == ASSUME TypeOK, [Next]_vars PROVE FilesOK'
<1> USE DEF FilesOK, file, sending, daemon
<1>0. TypeOK /\ FilesOK
  BY DEF TypeOK
<1>1. ASSUME NEW s \in Senders, PostOpen(s)  PROVE FilesOK'
  BY <1>0, <1>1 DEF PostOpen
<1>2. ASSUME NEW s \in Senders, PostWrite(s)  PROVE FilesOK'
  <2>1. posts' \in 1..MaxPosts /\ posts' = posts + 1
    BY <1>0, <1>2 DEF PostWrite
  <2>2. /\ Append(lines, posts') \in Seq(1..MaxPosts)
        /\ Len(Append(lines, posts')) = Len(lines) + 1
    BY <1>0, <2>1, AppendProperties
  <2>3. lines' \in Seq(1..MaxPosts) /\ Len(lines') <= posts'
    <3>1. Len(lines) \in Nat /\ lines' \in {lines, Append(lines, posts')}
      BY <1>0, <1>2, Lengths DEF PostWrite
    <3>2. CASE lines' = lines
      BY <1>0, <2>1, <3>1, <3>2
    <3>3. CASE lines' = Append(lines, posts')
      BY <1>0, <2>1, <2>2, <3>1, <3>3
    <3> QED BY <3>1, <3>2, <3>3
  <2>4. handle' \in [Senders -> 0..inodes]
    BY <1>0, <1>2 DEF PostWrite
  <2> QED BY <1>0, <1>2, <2>1, <2>3, <2>4 DEF PostWrite
<1>3. CASE WipeMessages
  BY <1>0, <1>3, NoLines DEF WipeMessages
<1>4. CASE WipeCursor
  <2>1. wiping' \in BOOLEAN
    BY <1>4 DEF WipeCursor
  <2>2. saved' = 0 /\ UNCHANGED <<inode, lines, inodes, posts, wipes, handle>>
    BY <1>4 DEF WipeCursor
  <2> QED BY <1>0, <2>1, <2>2
<1>5. ASSUME NEW r \in Readers, Save(r)  PROVE FilesOK'
  <2>1. cursor[r] \in 0..MaxPosts
    BY DEF TypeOK, ReadersOK
  <2> QED BY <1>0, <1>5, <2>1 DEF Save
<1>6. ASSUME NEW r \in Readers, Truncate(r)  PROVE FilesOK'
  BY <1>0, <1>6 DEF Truncate
<1>7. ASSUME UNCHANGED <<file, saved, sending, daemon>>  PROVE FilesOK'
  BY <1>0, <1>7
<1> QED BY <1>1, <1>2, <1>3, <1>4, <1>5, <1>6, <1>7
        DEF Next, ReaderStep, Start, ReadCursor, Poll, NoInbox, PrintLine, PrintedAll, Kill, vars

LEMMA ReadersStep == ASSUME TypeOK, [Next]_vars PROVE ReadersOK'
<1> USE DEF ReadersOK, reader, Goto
<1>0. ReadersOK /\ \A r \in Readers : Len(batch[r]) \in Nat
  BY Lengths DEF TypeOK
<1>1. ASSUME NEW r \in Readers, NEW f \in BOOLEAN, Start(r, f)  PROVE ReadersOK'
  BY <1>0, <1>1 DEF Start
<1>2. ASSUME NEW r \in Readers, ReadCursor(r)  PROVE ReadersOK'
  <2>1. saved \in 0..MaxPosts
    BY DEF TypeOK, FilesOK
  <2> QED BY <1>0, <1>2, <2>1 DEF ReadCursor
<1>3. ASSUME NEW r \in Readers, Poll(r)  PROVE ReadersOK'
  <2>1. lines \in Seq(1..MaxPosts) /\ Len(lines) <= MaxPosts
    BY Lengths DEF TypeOK, FilesOK
  <2> QED BY <1>0, <1>3, <2>1 DEF Poll
<1>4. ASSUME NEW r \in Readers, NoInbox(r) \/ PrintedAll(r)  PROVE ReadersOK'
  BY <1>0, <1>4 DEF NoInbox, PrintedAll, Drained
<1>5. ASSUME NEW r \in Readers, PrintLine(r)  PROVE ReadersOK'
  <2>1. cursor[r] + 1 \in 1..Len(batch[r]) /\ cursor[r] + 1 \in 0..MaxPosts
    BY <1>0, <1>5 DEF PrintLine
  <2>2. batch[r][cursor[r] + 1] \in 1..MaxPosts
    BY <1>0, <2>1, ElementOfSeq
  <2>3. printed' \in Seq(1..MaxPosts)
    BY <1>0, <1>5, <2>2, AppendProperties DEF PrintLine
  <2> QED BY <1>0, <1>5, <2>1, <2>3 DEF PrintLine
<1>6. ASSUME NEW r \in Readers, Truncate(r) \/ Save(r)  PROVE ReadersOK'
  BY <1>0, <1>6 DEF Truncate, Save
<1>7. ASSUME NEW r \in Readers, Kill(r)  PROVE ReadersOK'
  BY <1>0, <1>7 DEF Kill
<1>8. ASSUME UNCHANGED <<reader, printed>>, orderly' \in BOOLEAN  PROVE ReadersOK'
  BY <1>0, <1>8
<1> QED BY <1>0, <1>1, <1>2, <1>3, <1>4, <1>5, <1>6, <1>7, <1>8
        DEF Next, ReaderStep, PostOpen, PostWrite, WipeMessages, WipeCursor, vars

LEMMA TypeStep == ASSUME TypeOK, [Next]_vars PROVE TypeOK'
BY FilesStep, ReadersStep DEF TypeOK

-----------------------------------------------------------------------------
\* A sender only adds to the end of the file.
LEMMA PostStep ==
  ASSUME Inv, NEW s \in Senders, PostOpen(s) \/ PostWrite(s)
  PROVE  Counted'
<1> USE DEF Inv
<1>1. UNCHANGED <<saved, daemon, reader, printed, orderly>>
  BY DEF PostOpen, PostWrite
<1>2. /\ Len(lines) <= Len(lines') /\ Len(lines) \in Nat /\ Len(lines') \in Nat
      /\ \A k \in 1..Len(lines) : lines'[k] = lines[k]
  <2>1. CASE lines' = lines
    BY <2>1, Lengths
  <2>2. CASE lines' = Append(lines, posts + 1) /\ posts < MaxPosts
    <3>1. posts + 1 \in 1..MaxPosts
      BY <2>2 DEF TypeOK, FilesOK
    <3> QED BY <2>2, <3>1, Lengths, AppendProperties
  <2> QED BY <2>1, <2>2 DEF PostOpen, PostWrite
<1>3. /\ saved \in Nat /\ Len(printed) \in Nat
      /\ \A r \in Readers : cursor[r] \in Nat /\ Len(batch[r]) \in Nat
  BY Lengths
<1> USE <1>1, <1>2, <1>3 DEF Counted, daemon, reader
<1>4. Quiet' /\ Within'
  BY DEF Quiet, Within
<1>5. BatchOK'
  BY DEF BatchOK
<1>6. SavedOK'
  BY DEF SavedOK, Within
<1>7. CursorOK'
  BY DEF CursorOK, Within
<1>8. OrderlyOK'
  BY DEF OrderlyOK
<1> QED BY <1>4, <1>5, <1>6, <1>7, <1>8

\* The files go while nobody reads.
LEMMA WipeStep ==
  ASSUME Inv, ~Outlives, WipeMessages \/ WipeCursor
  PROVE  Counted'
<1> USE DEF Inv, Counted, reader
<1>1. \A r \in Readers : pc[r] = "off"
  BY DEF WipeMessages, WipeCursor, Quiet
<1>2. UNCHANGED <<pc, cursor, batch, printed>>
  BY DEF WipeMessages, WipeCursor
<1>3. ~wiping' => saved' = 0
  BY DEF WipeMessages, WipeCursor
<1>4. ~orderly'
  BY DEF WipeMessages, WipeCursor, OrderlyOK
<1>5. Len(lines') \in Nat
  BY Lengths, NoLines DEF WipeMessages, WipeCursor, file
<1> QED BY <1>1, <1>2, <1>3, <1>4, <1>5
        DEF Quiet, Within, BatchOK, SavedOK, CursorOK, OrderlyOK

-----------------------------------------------------------------------------
\* A reader moves: the file stays, and so do the others.
Elsewhere(r) ==
  /\ UNCHANGED <<lines, wiping>>
  /\ \A q \in Readers : q # r => pc'[q] = pc[q] /\ cursor'[q] = cursor[q] /\ batch'[q] = batch[q]

LEMMA ReaderMoves ==
  ASSUME Inv, NEW r \in Readers, ReaderStep(r) \/ Kill(r) \/ \E f \in BOOLEAN : Start(r, f)
  PROVE  Elsewhere(r)
BY DEF Inv, TypeOK, ReadersOK, Elsewhere, ReaderStep, Kill, Start, ReadCursor, Poll, NoInbox,
       PrintLine, Truncate, Save, PrintedAll, Drained, Goto, file, daemon

LEMMA StartStep ==
  ASSUME Inv, ~Outlives, NEW r \in Readers, NEW f \in BOOLEAN, Start(r, f)
  PROVE  Counted'
<1> USE DEF Inv, Counted
<1>1. /\ UNCHANGED <<lines, saved, wiping, cursor, batch, printed>> /\ ~wiping
      /\ pc[r] = "off" /\ orderly' = (orderly /\ \A q \in Readers : pc[q] = "off")
  BY DEF Start, file, daemon
<1>2. pc'[r] = "start" /\ \A q \in Readers : q # r => pc'[q] = pc[q]
  BY DEF Start, Goto, TypeOK, ReadersOK
<1>3. Quiet' /\ Within' /\ BatchOK' /\ SavedOK' /\ CursorOK'
  BY <1>1, <1>2 DEF Quiet, Within, BatchOK, SavedOK, CursorOK
<1>4. OrderlyOK'
  BY <1>1, <1>2 DEF OrderlyOK
<1> QED BY <1>3, <1>4

\* While a reader runs the files stay, and in orderly times it is alone.
LEMMA Alone ==
  ASSUME Inv, NEW r \in Readers, pc[r] # "off"
  PROVE  ~wiping /\ (orderly => \A q \in Readers : q # r => pc[q] = "off")
BY DEF Inv, Counted, Quiet, OrderlyOK

LEMMA ReadCursorStep ==
  ASSUME Inv, NEW r \in Readers, ReadCursor(r)
  PROVE  Counted'
<1> USE DEF Inv, Counted
<1>1. /\ UNCHANGED <<lines, wiping, saved, printed, orderly, batch>>
      /\ pc[r] = "start" /\ pc'[r] = "poll" /\ cursor'[r] = saved
      /\ Elsewhere(r)
  BY ReaderMoves DEF ReaderStep, ReadCursor, Goto, TypeOK, ReadersOK, file, daemon
<1>2. ~wiping /\ (orderly => \A q \in Readers : q # r => pc[q] = "off")
  BY <1>1, Alone
<1> USE <1>1, <1>2 DEF Elsewhere
<1>3. Quiet' /\ Within' /\ BatchOK' /\ SavedOK'
  BY DEF Quiet, Within, BatchOK, SavedOK
<1>4. CursorOK'
  BY DEF CursorOK, SavedOK
<1>5. OrderlyOK'
  BY DEF OrderlyOK
<1> QED BY <1>3, <1>4, <1>5

\* The line number is within the file: a poll never starts over.
LEMMA PollStep ==
  ASSUME Inv, NEW r \in Readers, Poll(r)
  PROVE  Counted'
<1> USE DEF Inv, Counted
<1>0. cursor[r] <= Len(lines) /\ cursor[r] \in Nat /\ Len(lines) \in Nat
  BY Lengths DEF Poll, Within
<1>1. /\ UNCHANGED <<lines, wiping, saved, printed, orderly>>
      /\ pc[r] = "poll" /\ pc'[r] = "print" /\ cursor'[r] = cursor[r] /\ batch'[r] = lines
      /\ Elsewhere(r)
  <2>1. Elsewhere(r)
    BY ReaderMoves DEF ReaderStep
  <2>2. cursor'[r] = IF Len(lines) < cursor[r] THEN 0 ELSE cursor[r]
    BY DEF Poll, TypeOK, ReadersOK
  <2>3. cursor'[r] = cursor[r]
    BY <1>0, <2>2
  <2> QED BY <2>1, <2>3 DEF Poll, Goto, TypeOK, ReadersOK, file, daemon
<1>2. ~wiping /\ (orderly => \A q \in Readers : q # r => pc[q] = "off")
  BY <1>1, Alone
<1> USE <1>0, <1>1, <1>2 DEF Elsewhere
<1>3. Quiet' /\ Within' /\ SavedOK' /\ CursorOK'
  BY DEF Quiet, Within, SavedOK, CursorOK
<1>4. BatchOK'
  BY DEF BatchOK
<1>5. OrderlyOK'
  BY DEF OrderlyOK
<1> QED BY <1>3, <1>4, <1>5

\* A line is printed, and counted.
LEMMA PrintLineStep ==
  ASSUME Inv, NEW r \in Readers, PrintLine(r)
  PROVE  Counted'
<1> USE DEF Inv, Counted
<1> DEFINE n == cursor[r] + 1
<1>1. /\ UNCHANGED <<lines, wiping, saved, orderly, batch>>
      /\ pc[r] = "print" /\ pc'[r] = "truncate" /\ cursor'[r] = n
      /\ printed' = Append(printed, batch[r][n])
      /\ Elsewhere(r)
  BY ReaderMoves DEF ReaderStep, PrintLine, Goto, TypeOK, ReadersOK, file, daemon
<1>2. ~wiping /\ (orderly => \A q \in Readers : q # r => pc[q] = "off")
  BY <1>1, Alone
<1>3. /\ cursor[r] \in Nat /\ Len(printed) \in Nat /\ Len(lines) \in Nat
      /\ batch[r] \in Seq(1..MaxPosts) /\ Len(batch[r]) \in Nat
      /\ n \in 1..Len(batch[r]) /\ Len(batch[r]) <= Len(lines)
      /\ saved \in Nat /\ \A q \in Readers : cursor[q] \in Nat
  BY <1>1, Lengths DEF PrintLine, BatchOK
<1>4. batch[r][n] = lines[n]
  BY <1>1, <1>3 DEF BatchOK
<1>5. /\ Len(printed') = Len(printed) + 1
      /\ \A k \in 1..Len(printed) : printed'[k] = printed[k]
      /\ printed'[Len(printed) + 1] = lines[n]
  BY <1>1, <1>3, <1>4, Lengths, ElementOfSeq, AppendProperties
<1> HIDE DEF n
<1>6. \A m : Contains(printed, m) => Contains(printed', m)
  BY <1>3, <1>5 DEF Contains
<1>7. Contains(printed', lines[n])
  BY <1>3, <1>5 DEF Contains
<1> USE <1>1, <1>2, <1>3 DEF Elsewhere
<1>8. Quiet' /\ Within' /\ BatchOK'
  <2>1. Quiet'
    BY DEF Quiet
  <2>2. n <= Len(lines) /\ n \in Nat
    OBVIOUS
  <2>3. Within'
    BY <2>2 DEF Within
  <2>4. BatchOK'
    <3> SUFFICES ASSUME NEW q \in Readers, pc'[q] \in Draining
                 PROVE  /\ cursor'[q] <= Len(batch[q]) /\ Len(batch[q]) <= Len(lines)
                        /\ \A k \in 1..Len(batch[q]) : batch[q][k] = lines[k]
      BY DEF BatchOK
    <3>1. CASE q = r
      BY <3>1 DEF BatchOK
    <3>2. CASE q # r
      BY <3>2 DEF BatchOK
    <3> QED BY <3>1, <3>2
  <2> QED BY <2>1, <2>3, <2>4
<1>9. SavedOK'
  BY <1>6 DEF SavedOK
<1>10. CursorOK'
  <2> SUFFICES ASSUME NEW q \in Readers, pc'[q] \in Held, NEW k \in 1..cursor'[q]
               PROVE  Contains(printed', lines[k])
    BY DEF CursorOK
  <2>1. CASE q # r
    BY <1>6, <2>1 DEF CursorOK
  <2>2. CASE q = r /\ k # n
    <3>1. k \in 1..cursor[r]
      BY <2>2 DEF n
    <3> QED BY <1>6, <3>1 DEF CursorOK
  <2>3. CASE q = r /\ k = n
    BY <1>7, <2>3
  <2> QED BY <2>1, <2>2, <2>3
<1>11. OrderlyOK'
  <2> SUFFICES ASSUME orderly
               PROVE  /\ \A q \in Readers : pc'[q] \in Held => cursor'[q] = Len(printed')
                      /\ Len(printed') <= Len(lines)
                      /\ \A k \in 1..Len(printed') : printed'[k] = lines[k]
    BY DEF OrderlyOK
  <2>1. n = Len(printed) + 1 /\ Len(printed') = n
    BY <1>5 DEF OrderlyOK, n
  <2>2. \A q \in Readers : pc'[q] \in Held => cursor'[q] = Len(printed')
    BY <2>1
  <2>3. \A k \in 1..Len(printed') : printed'[k] = lines[k]
    <3> SUFFICES ASSUME NEW k \in 1..Len(printed')  PROVE printed'[k] = lines[k]
      OBVIOUS
    <3>1. CASE k \in 1..Len(printed)
      BY <1>5, <3>1 DEF OrderlyOK
    <3>2. CASE k = n
      BY <1>5, <2>1, <3>2
    <3> QED BY <1>5, <2>1, <3>1, <3>2
  <2> QED BY <2>1, <2>2, <2>3
<1> QED BY <1>8, <1>9, <1>10, <1>11

LEMMA TruncateStep ==
  ASSUME Inv, NEW r \in Readers, Truncate(r)
  PROVE  Counted'
<1> USE DEF Inv, Counted
<1>1. /\ UNCHANGED <<lines, wiping, printed, orderly, cursor, batch>>
      /\ pc[r] = "truncate" /\ pc'[r] = "save" /\ saved' = 0
      /\ Elsewhere(r) /\ Len(lines) \in Nat
  BY ReaderMoves, Lengths DEF ReaderStep, Truncate, Goto, TypeOK, ReadersOK, file, daemon, reader
<1> USE <1>1 DEF Elsewhere
<1>2. Quiet' /\ Within' /\ BatchOK' /\ SavedOK' /\ CursorOK'
  BY DEF Quiet, Within, BatchOK, SavedOK, CursorOK
<1>3. OrderlyOK'
  BY DEF OrderlyOK
<1> QED BY <1>2, <1>3

LEMMA SaveStep ==
  ASSUME Inv, NEW r \in Readers, Save(r)
  PROVE  Counted'
<1> USE DEF Inv, Counted
<1>1. /\ UNCHANGED <<lines, wiping, printed, orderly, cursor, batch>>
      /\ pc[r] = "save" /\ pc'[r] = "print" /\ saved' = cursor[r]
      /\ Elsewhere(r)
  BY ReaderMoves DEF ReaderStep, Save, Goto, TypeOK, ReadersOK, file, daemon, reader
<1>2. ~wiping /\ (orderly => \A q \in Readers : q # r => pc[q] = "off")
  BY <1>1, Alone
<1> USE <1>1, <1>2 DEF Elsewhere
<1>3. Quiet' /\ Within' /\ BatchOK' /\ CursorOK'
  BY DEF Quiet, Within, BatchOK, CursorOK
<1>4. SavedOK'
  BY DEF SavedOK, CursorOK
<1>5. OrderlyOK'
  BY DEF OrderlyOK
<1> QED BY <1>3, <1>4, <1>5

\* A reader ends, is killed, or has nothing more to print.
LEMMA IdleStep ==
  ASSUME Inv, NEW r \in Readers, NoInbox(r) \/ PrintedAll(r) \/ Kill(r)
  PROVE  Counted'
<1> USE DEF Inv, Counted
<1>1. /\ UNCHANGED <<lines, wiping, saved, printed, cursor, batch>>
      /\ pc[r] # "off" /\ Elsewhere(r)
      /\ orderly' => orderly /\ pc[r] \notin Saving
      /\ pc'[r] \in {"off", "poll"} /\ (pc'[r] = "poll" => pc[r] \in Held)
  <2>1. Elsewhere(r)
    BY ReaderMoves DEF ReaderStep
  <2>2. CASE NoInbox(r) \/ PrintedAll(r)
    BY <2>1, <2>2 DEF NoInbox, PrintedAll, Drained, Goto, TypeOK, ReadersOK, file, daemon
  <2>3. CASE Kill(r)
    BY <2>1, <2>3 DEF Kill, Goto, TypeOK, ReadersOK, file, daemon
  <2> QED BY <2>2, <2>3
<1>2. ~wiping /\ (orderly => \A q \in Readers : q # r => pc[q] = "off")
  BY <1>1, Alone
<1> USE <1>1, <1>2 DEF Elsewhere
<1>3. Quiet' /\ Within' /\ BatchOK' /\ SavedOK' /\ CursorOK'
  BY DEF Quiet, Within, BatchOK, SavedOK, CursorOK
<1>4. OrderlyOK'
  BY DEF OrderlyOK
<1> QED BY <1>3, <1>4

-----------------------------------------------------------------------------
LEMMA NextInv == ASSUME ~Outlives PROVE Inv /\ [Next]_vars => Inv'
<1> SUFFICES ASSUME Inv, [Next]_vars  PROVE Inv'
  OBVIOUS
<1>1. TypeOK'
  BY TypeStep DEF Inv
<1>2. CASE Next
  BY <1>1, <1>2, PostStep, WipeStep, StartStep, ReadCursorStep, PollStep, PrintLineStep,
     TruncateStep, SaveStep, IdleStep DEF Inv, Next, ReaderStep
<1>3. CASE UNCHANGED vars
  BY <1>1, <1>3 DEF Inv, Counted, Quiet, Within, BatchOK, SavedOK, CursorOK, OrderlyOK,
                    vars, file, sending, daemon, reader
<1> QED BY <1>2, <1>3

\* Every variable keeps its type: no line number exceeds the messages posted,
\* also when readers outlive the files (inbox.rs, drain and write_cursor).
THEOREM TypeCorrect == Spec => []TypeOK
<1>1. Init => TypeOK
  BY InitInv DEF Inv
<1>2. TypeOK /\ [Next]_vars => TypeOK'
  BY TypeStep
<1> QED BY <1>1, <1>2, PTL DEF Spec

\* A message before the saved line number has been printed, whatever the readers
\* overwrite of each other's cursor and wherever they are killed (inbox.rs,
\* drain).
THEOREM NothingSkipped == ASSUME ~Outlives PROVE Spec => []SavedMeansPrinted
<1>1. Init => Inv
  BY InitInv
<1>2. Inv /\ [Next]_vars => Inv'
  BY NextInv
<1>3. Inv => SavedMeansPrinted
  BY DEF Inv, Counted, SavedOK, SavedMeansPrinted
<1> QED BY <1>1, <1>2, <1>3, PTL DEF Spec

\* Readers one at a time that are not killed between printing a line and saving
\* its number print every message once and in order (inbox.rs, read and drain).
THEOREM PrintedOnce == ASSUME ~Outlives PROVE Spec => []PrintedIsPrefix
<1>1. Init => Inv
  BY InitInv
<1>2. Inv /\ [Next]_vars => Inv'
  BY NextInv
<1>3. Inv => PrintedIsPrefix
  <2> SUFFICES ASSUME Inv, orderly  PROVE IsPrefix(printed, lines)
    BY DEF PrintedIsPrefix
  <2>1. /\ Len(printed) <= Len(lines)
        /\ \A k \in 1..Len(printed) : printed[k] = lines[k]
    BY DEF Inv, Counted, OrderlyOK
  <2> QED BY <2>1, Lengths DEF IsPrefix, Inv
<1> QED BY <1>1, <1>2, <1>3, PTL DEF Spec
=============================================================================

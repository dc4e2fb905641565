-------------------------- MODULE AttachStreamProofs --------------------------
(***************************************************************************)
(* Proofs about AttachStream, for any sizes of the socket and the terminal *)
(* and any number of keystrokes and chunks: however the two biased loops,  *)
(* the user, the agent and the ends of the two processes interleave, what  *)
(* the agent is given and what the client prints are some of what was      *)
(* typed and written, in order and none twice.  As long as a direction has *)
(* not had a half-read frame dropped by its reader, it is the beginning,   *)
(* and a detach or an end that was announced comes after all that it       *)
(* should come after.                                                      *)
(*                                                                         *)
(* The argument: each direction carries a list ms of messages its writer   *)
(* has begun to write.  The pieces between the two programs (in the socket *)
(* and still to be written) are those of ms from the piece after the first *)
(* 2g+h (Wire): the reader has passed g whole messages, and with h = 1 the *)
(* first half of one more.  That is so whatever the reader made of them:   *)
(* it drops what it has taken, or goes astray and swallows what is there   *)
(* (ReadAway), but it takes from the front.  A message that it reads whole *)
(* is therefore ms[g+1] (ReadWhole), which comes after all it read before; *)
(* and if it never dropped a read, it has read the g before it as well.    *)
(* ms is numbered without gaps (UpRel, DownRel).  The two directions meet  *)
(* in OkSent: an Ok is only written by a handler that has read the detach  *)
(* key, behind which nothing was typed.                                    *)
(***************************************************************************)
EXTENDS AttachStream, Integers, TLAPS, SequenceTheorems

-----------------------------------------------------------------------------
(* Frames in pieces. *)

\* What write_msg puts on the socket for a message: its length, then its body.
LenPiece(m)  == [part |-> "len", msg |-> m]
BodyPiece(m) == [part |-> "body", msg |-> m]

\* The pieces of q are those of ms, in order, from the one after the 2g+h that
\* have been read: g whole frames, and the first half of another if h is 1.
Wire(ms, q, g, h) ==
  /\ 2 * g + h + Len(q) = 2 * Len(ms)
  /\ \A k \in 1..Len(q), i \in 1..Len(ms) :
       /\ 2 * g + h + k = 2 * i - 1 => q[k] = LenPiece(ms[i])
       /\ 2 * g + h + k = 2 * i     => q[k] = BodyPiece(ms[i])

\* A frame is two pieces.
LEMMA FrameProperties ==
  ASSUME NEW m \in Messages
  PROVE  /\ Frame(m) \in Seq(Pieces) /\ Len(Frame(m)) = 2
         /\ Frame(m)[1] = LenPiece(m) /\ Frame(m)[2] = BodyPiece(m)
<1> DEFINE a == LenPiece(m)
           b == BodyPiece(m)
<1>1. a \in Pieces /\ b \in Pieces
  BY DEF LenPiece, BodyPiece, Pieces
<1>2. Frame(m) = <<a, b>>
  BY DEF Frame, LenPiece, BodyPiece
<1> HIDE DEF a, b
<1>3. <<a, b>> \in Seq(Pieces) /\ Len(<<a, b>>) = 2 /\ <<a, b>>[1] = a /\ <<a, b>>[2] = b
  BY <1>1
<1> QED BY <1>2, <1>3 DEF a, b

\* A frame is begun: what is behind it is complete.
LEMMA WireTake ==
  ASSUME NEW ms \in Seq(Messages), NEW q \in Seq(Pieces), NEW g \in Nat, NEW h \in 0..1,
         Wire(ms, q, g, h), NEW m \in Messages
  PROVE  Wire(Append(ms, m), q \o Frame(m), g, h)
<1> DEFINE n  == Len(ms)
           l  == Len(q)
           f  == Frame(m)
           r  == q \o f
           mm == Append(ms, m)
<1>1. n \in Nat /\ l \in Nat /\ 2 * g + h + l = 2 * n
  BY LenProperties DEF Wire
<1>2. /\ Len(mm) = n + 1 /\ mm[n + 1] = m
      /\ \A i \in 1..n : mm[i] = ms[i]
  BY AppendProperties
<1>3. f \in Seq(Pieces) /\ Len(f) = 2 /\ f[1] = LenPiece(m) /\ f[2] = BodyPiece(m)
  BY FrameProperties
<1>4. \A k \in 1..l, i \in 1..n : /\ 2 * g + h + k = 2 * i - 1 => q[k] = LenPiece(ms[i])
                                  /\ 2 * g + h + k = 2 * i     => q[k] = BodyPiece(ms[i])
  BY DEF Wire
<1> HIDE DEF f, mm, n, l
<1>5. /\ Len(r) = l + 2
      /\ \A k \in 1..(l + 2) : r[k] = IF k <= l THEN q[k] ELSE f[k - l]
  <2>1. /\ Len(r) = Len(q) + Len(f)
        /\ \A k \in 1..(Len(q) + Len(f)) : r[k] = IF k <= Len(q) THEN q[k] ELSE f[k - Len(q)]
    BY <1>3, ConcatProperties
  <2> HIDE DEF r
  <2>2. Len(q) + Len(f) = l + 2 /\ Len(q) = l
    BY <1>1, <1>3 DEF l
  <2> QED BY <2>1, <2>2
<1> HIDE DEF r
<1>6. 2 * g + h + Len(r) = 2 * Len(mm)
  <2>1. Len(r) = l + 2 /\ Len(mm) = n + 1
    BY <1>2, <1>5
  <2>2. 2 * g + h + (l + 2) = 2 * (n + 1)
    BY <1>1
  <2> QED BY <2>1, <2>2
<1>7. ASSUME NEW k \in 1..(l + 2), NEW i \in 1..(n + 1)
      PROVE  /\ 2 * g + h + k = 2 * i - 1 => r[k] = LenPiece(mm[i])
             /\ 2 * g + h + k = 2 * i     => r[k] = BodyPiece(mm[i])
  <2>1. CASE k <= l
    <3>1. k \in 1..l /\ r[k] = q[k]
      BY <1>1, <1>5, <2>1
    <3>2. ASSUME 2 * g + h + k = 2 * i - 1 \/ 2 * g + h + k = 2 * i PROVE i \in 1..n
      BY <1>1, <2>1, <3>2
    <3> QED BY <1>2, <1>4, <3>1, <3>2
  <2>2. CASE k = l + 1
    <3>1. r[k] = LenPiece(m)
      BY <1>1, <1>3, <1>5, <2>2
    <3>2. 2 * g + h + k = 2 * (n + 1) - 1
      BY <1>1, <2>2
    <3> QED BY <1>1, <1>2, <3>1, <3>2
  <2>3. CASE k = l + 2
    <3>1. r[k] = BodyPiece(m)
      BY <1>1, <1>3, <1>5, <2>3
    <3>2. 2 * g + h + k = 2 * (n + 1)
      BY <1>1, <2>3
    <3> QED BY <1>1, <1>2, <3>1, <3>2
  <2> QED BY <1>1, <2>1, <2>2, <2>3
<1> QED BY <1>2, <1>5, <1>6, <1>7 DEF Wire, f, mm, r

\* Where the first piece on the wire is from.
LEMMA WireHead ==
  ASSUME NEW ms \in Seq(Messages), NEW q \in Seq(Pieces), NEW g \in Nat, NEW h \in 0..1,
         Wire(ms, q, g, h), q # <<>>
  PROVE  /\ g + 1 \in 1..Len(ms)
         /\ h = 0 => Head(q) = LenPiece(ms[g + 1]) /\ Len(q) >= 2 /\ q[2] = BodyPiece(ms[g + 1])
         /\ h = 1 => Head(q) = BodyPiece(ms[g + 1])
         /\ h = 0 <=> Head(q).part = "len"
         /\ Head(q).msg = ms[g + 1]
<1> DEFINE n  == Len(ms)
           l  == Len(q)
<1>1. n \in Nat /\ l \in Nat \ {0} /\ 2 * g + h + l = 2 * n /\ Head(q) = q[1]
  BY EmptySeq, LenProperties DEF Wire
<1>2. \A k \in 1..l, i \in 1..n : /\ 2 * g + h + k = 2 * i - 1 => q[k] = LenPiece(ms[i])
                                  /\ 2 * g + h + k = 2 * i     => q[k] = BodyPiece(ms[i])
  BY DEF Wire
<1> HIDE DEF n, l
<1>3. g + 1 \in 1..n /\ 1 \in 1..l /\ (h = 0 => l >= 2 /\ 2 \in 1..l)
  BY <1>1
<1>4. /\ h = 0 => q[1] = LenPiece(ms[g + 1]) /\ q[2] = BodyPiece(ms[g + 1])
      /\ h = 1 => q[1] = BodyPiece(ms[g + 1])
  <2>1. h = 0 => 2 * g + h + 1 = 2 * (g + 1) - 1 /\ 2 * g + h + 2 = 2 * (g + 1)
    OBVIOUS
  <2>2. h = 1 => 2 * g + h + 1 = 2 * (g + 1)
    OBVIOUS
  <2> QED BY <1>2, <1>3, <2>1, <2>2
<1>5. Head(q).part = (IF h = 0 THEN "len" ELSE "body") /\ Head(q).msg = ms[g + 1]
  BY <1>1, <1>4 DEF LenPiece, BodyPiece
<1> QED BY <1>1, <1>3, <1>4, <1>5 DEF n, l

\* A piece is taken off.
LEMMA WireTail ==
  ASSUME NEW ms \in Seq(Messages), NEW q \in Seq(Pieces), NEW g \in Nat, NEW h \in 0..1,
         Wire(ms, q, g, h), q # <<>>
  PROVE  Wire(ms, Tail(q), IF h = 0 THEN g ELSE g + 1, IF h = 0 THEN 1 ELSE 0)
<1> DEFINE n  == Len(ms)
           l  == Len(q)
           t  == Tail(q)
           gg == IF h = 0 THEN g ELSE g + 1
           hh == IF h = 0 THEN 1 ELSE 0
<1>1. n \in Nat /\ l \in Nat \ {0} /\ 2 * g + h + l = 2 * n
  BY EmptySeq, LenProperties DEF Wire
<1>2. \A k \in 1..l, i \in 1..n : /\ 2 * g + h + k = 2 * i - 1 => q[k] = LenPiece(ms[i])
                                  /\ 2 * g + h + k = 2 * i     => q[k] = BodyPiece(ms[i])
  BY DEF Wire
<1>3. Len(t) = l - 1 /\ \A k \in 1..(l - 1) : t[k] = q[k + 1]
  BY HeadTailProperties
<1>4. 2 * gg + hh = 2 * g + h + 1 /\ gg \in Nat /\ hh \in Nat
  OBVIOUS
<1> HIDE DEF n, l, t, gg, hh
<1>5. \A k \in 1..(l - 1) : k + 1 \in 1..l /\ 2 * gg + hh + k = 2 * g + h + (k + 1)
  BY <1>1, <1>4
<1>6. 2 * gg + hh + Len(t) = 2 * n
  BY <1>1, <1>3, <1>4
<1>7. ASSUME NEW k \in 1..(l - 1), NEW i \in 1..n
      PROVE  /\ 2 * gg + hh + k = 2 * i - 1 => t[k] = LenPiece(ms[i])
             /\ 2 * gg + hh + k = 2 * i     => t[k] = BodyPiece(ms[i])
  <2>1. k + 1 \in 1..l /\ 2 * gg + hh + k = 2 * g + h + (k + 1) /\ t[k] = q[k + 1]
    BY <1>3, <1>5
  <2>2. /\ 2 * g + h + (k + 1) = 2 * i - 1 => q[k + 1] = LenPiece(ms[i])
        /\ 2 * g + h + (k + 1) = 2 * i     => q[k + 1] = BodyPiece(ms[i])
    BY <1>2, <2>1
  <2> QED BY <2>1, <2>2
<1>8. Wire(ms, t, gg, hh)
  BY <1>3, <1>6, <1>7 DEF Wire, n
<1> QED BY <1>8 DEF t, gg, hh

-----------------------------------------------------------------------------
(* The socket: what is in it comes before what is still to be written. *)

\* Taking the head of the socket takes the head of all that is still to be
\* read.
LEMMA TailOfConcat ==
  ASSUME NEW s \in Seq(Pieces), NEW t \in Seq(Pieces), s # <<>>
  PROVE  s \o t # <<>> /\ Head(s \o t) = Head(s) /\ Tail(s \o t) = Tail(s) \o t
<1> DEFINE m == Len(s)
           n == Len(t)
           u == s \o t
           a == Tail(u)
           v == Tail(s)
           b == v \o t
<1>1. m \in Nat \ {0} /\ n \in Nat
  BY EmptySeq, LenProperties
<1>2. /\ u \in Seq(Pieces) /\ Len(u) = m + n
      /\ \A i \in 1..(m + n) : u[i] = IF i <= m THEN s[i] ELSE t[i - m]
  BY ConcatProperties
<1>3. v \in Seq(Pieces) /\ Len(v) = m - 1 /\ \A i \in 1..(m - 1) : v[i] = s[i + 1]
  BY HeadTailProperties
<1> HIDE DEF v
<1>4. /\ b \in Seq(Pieces) /\ Len(b) = m - 1 + n
      /\ \A i \in 1..(m - 1 + n) : b[i] = IF i <= m - 1 THEN v[i] ELSE t[i - (m - 1)]
  <2>1. /\ b \in Seq(Pieces) /\ Len(b) = Len(v) + Len(t)
        /\ \A i \in 1..(Len(v) + Len(t)) : b[i] = IF i <= Len(v) THEN v[i] ELSE t[i - Len(v)]
    BY <1>3, ConcatProperties
  <2> HIDE DEF b
  <2> QED BY <1>3, <2>1
<1> HIDE DEF u, b, m, n
<1>5. u # <<>> /\ Head(u) = u[1] /\ Head(s) = s[1] /\ u[1] = s[1]
  <2>1. Len(u) # 0 /\ 1 \in 1..(m + n) /\ 1 <= m
    BY <1>1, <1>2
  <2>2. Len(u) # 0 => u # <<>>
    BY EmptySeq
  <2> QED BY <1>2, <2>1, <2>2
<1>6. a \in Seq(Pieces) /\ Len(a) = m + n - 1 /\ \A i \in 1..(m + n - 1) : a[i] = u[i + 1]
  <2>1. a \in Seq(Pieces) /\ Len(a) = Len(u) - 1 /\ \A i \in 1..Len(a) : a[i] = u[i + 1]
    BY <1>2, <1>5, HeadTailProperties
  <2> HIDE DEF a
  <2>2. Len(u) - 1 = m + n - 1
    BY <1>1, <1>2
  <2>3. Len(a) = m + n - 1
    BY <2>1, <2>2
  <2> QED BY <2>1, <2>3
<1> HIDE DEF a
<1>7. ASSUME NEW i \in 1..(m + n - 1) PROVE a[i] = b[i]
  <2>1. i + 1 \in 1..(m + n) /\ i \in 1..(m - 1 + n)
    BY <1>1
  <2>2. CASE i <= m - 1
    <3>1. i + 1 <= m /\ i \in 1..(m - 1)
      BY <1>1, <2>2
    <3> QED BY <1>2, <1>3, <1>4, <1>6, <2>1, <2>2, <3>1
  <2>3. CASE ~(i <= m - 1)
    <3>1. ~(i + 1 <= m) /\ (i + 1) - m = i - (m - 1)
      BY <1>1, <2>3
    <3>2. a[i] = t[(i + 1) - m] /\ b[i] = t[i - (m - 1)]
      BY <1>2, <1>4, <1>6, <2>1, <2>3, <3>1
    <3> QED BY <3>1, <3>2
  <2> QED BY <2>2, <2>3
<1>8. a = b
  <2>1. Len(a) = Len(b) /\ \A i \in 1..Len(a) : a[i] = b[i]
    BY <1>1, <1>4, <1>6, <1>7
  <2> QED BY <1>4, <1>6, <2>1, SeqEqual
<1> QED BY <1>5, <1>8 DEF u, a, b, v

\* write_msg splits what it has to write, and nothing is lost or moved.
LEMMA NowAndLater ==
  ASSUME NEW w \in Seq(Pieces), w # <<>>, NEW s \in Seq(Pieces)
  PROVE  /\ Now(w) \in Seq(Pieces) /\ Later(w) \in Seq(Pieces)
         /\ (s \o Now(w)) \o Later(w) = s \o w
         /\ Len(s \o Now(w)) = Len(s) + Len(Now(w))
<1> DEFINE n == Len(w)
           a == Now(w)
           b == Later(w)
<1>1. n \in Nat \ {0}
  BY EmptySeq
<1>2. \A i \in 1..n : w[i] \in Pieces
  BY ElementOfSeq
<1>3. a \in Seq(Pieces) /\ b \in Seq(Pieces) /\ a \o b = w
  <2>1. CASE Split
    <3>1. a = SubSeq(w, 1, 1)
      BY <2>1 DEF Now
    <3>2. a \in Seq(Pieces) /\ Len(a) = 1
      <4>1. \A i \in 1..1 : w[i] \in Pieces
        BY <1>1, <1>2
      <4> HIDE DEF a
      <4> QED BY <3>1, <4>1, SubSeqProperties
    <3>3. b = SubSeq(w, 2, n)
      <4> HIDE DEF n
      <4>1. Len(a) + 1 = 2
        BY <3>2
      <4> QED BY <4>1 DEF Later, n
    <3>4. b \in Seq(Pieces)
      <4>1. \A i \in 2..n : w[i] \in Pieces
        BY <1>1, <1>2
      <4> HIDE DEF a, b, n
      <4> QED BY <1>1, <3>3, <4>1, SubSeqProperties
    <3>5. a \o b = w
      <4>1. SubSeq(w, 1, 1) \o SubSeq(w, 1 + 1, n) = SubSeq(w, 1, n)
        <5>1. 1 \in 1..(Len(w) + 1) /\ 1 \in (1-1)..Len(w) /\ n \in 1..Len(w)
          BY <1>1
        <5> HIDE DEF n
        <5> QED BY <5>1, ConcatAdjacentSubSeq
      <4>2. SubSeq(w, 1, n) = w
        BY SubSeqFull
      <4>3. 1 + 1 = 2
        OBVIOUS
      <4> HIDE DEF a, b, n
      <4>4. SubSeq(w, 1, 1) \o SubSeq(w, 2, n) = w
        BY <4>1, <4>2, <4>3
      <4> QED BY <3>1, <3>3, <4>4
    <3> QED BY <3>2, <3>4, <3>5
  <2>2. CASE ~Split
    <3>1. a = w
      BY <2>2 DEF Now
    <3>2. b = <<>>
      <4>1. b = SubSeq(w, n + 1, n)
        BY <3>1 DEF Later
      <4> HIDE DEF b, n
      <4> QED BY <1>1, <4>1, SubSeqEmpty
    <3> HIDE DEF a, b
    <3>3. w \o <<>> = w /\ <<>> \in Seq(Pieces)
      BY EmptySeq, ConcatEmptySeq
    <3> QED BY <3>1, <3>2, <3>3
  <2> QED BY <2>1, <2>2
<1> HIDE DEF a, b
<1>4. (s \o a) \o b = s \o (a \o b)
  <2>1. a \in Seq(Pieces) /\ b \in Seq(Pieces)
    BY <1>3
  <2>2. \A x, y, z \in Seq(Pieces) : (x \o y) \o z = x \o (y \o z)
    BY ConcatAssociative
  <2> QED BY <2>1, <2>2
<1>5. Len(s \o a) = Len(s) + Len(a)
  BY <1>3, ConcatProperties
<1> QED BY <1>3, <1>4, <1>5 DEF a, b

\* read_msg gets a whole frame: the message after the g that were passed,
\* whether or not an earlier poll of it had taken the length.
LEMMA ReadWhole ==
  ASSUME NEW ms \in Seq(Messages), NEW s \in Seq(Pieces), NEW w \in Seq(Pieces),
         NEW g \in Nat, NEW h \in 0..1, NEW got \in Got,
         Wire(ms, s \o w, g, h), got = "length" => h = 1, Whole(s, got)
  PROVE  /\ g + 1 \in 1..Len(ms) /\ Head(s).msg = ms[g + 1]
         /\ Rest(s, got) \in Seq(Pieces) /\ Len(Rest(s, got)) <= Len(s)
         /\ Wire(ms, Rest(s, got) \o w, g + 1, 0)
<1>0. got = "nothing" \/ got = "length"
  BY DEF Whole, Got
<1>1. s # <<>>
  BY <1>0, EmptySeq DEF Whole
<1>2. s \o w \in Seq(Pieces) /\ s \o w # <<>> /\ Head(s \o w) = Head(s) /\ Tail(s \o w) = Tail(s) \o w
  BY <1>1, TailOfConcat, ConcatProperties
<1>3. Tail(s) \in Seq(Pieces) /\ Len(Tail(s)) = Len(s) - 1 /\ Len(s) \in Nat \ {0}
  BY <1>1, EmptySeq, HeadTailProperties
<1> DEFINE q == s \o w
<1>4. /\ g + 1 \in 1..Len(ms) /\ Head(s).msg = ms[g + 1]
      /\ h = 0 <=> Head(s).part = "len"
  <2>1. q \in Seq(Pieces) /\ q # <<>> /\ Wire(ms, q, g, h) /\ Head(q) = Head(s)
    BY <1>2
  <2> HIDE DEF q
  <2> QED BY <2>1, WireHead
<1>5. Wire(ms, Tail(s) \o w, IF h = 0 THEN g ELSE g + 1, IF h = 0 THEN 1 ELSE 0)
  <2>1. q \in Seq(Pieces) /\ q # <<>> /\ Wire(ms, q, g, h) /\ Tail(q) = Tail(s) \o w
    BY <1>2
  <2> HIDE DEF q
  <2>2. Wire(ms, Tail(q), IF h = 0 THEN g ELSE g + 1, IF h = 0 THEN 1 ELSE 0)
    BY <2>1, WireTail
  <2> QED BY <2>1, <2>2
<1>6. CASE got = "length"
  <2>1. Rest(s, got) = Tail(s) /\ h = 1
    BY <1>6 DEF Rest
  <2>2. Wire(ms, Tail(s) \o w, g + 1, 0)
    BY <1>5, <2>1
  <2> QED BY <1>3, <1>4, <2>1, <2>2
<1>7. CASE got = "nothing"
  <2>1. Rest(s, got) = Tail(Tail(s)) /\ Len(s) >= 2 /\ Head(s).part = "len"
    BY <1>7 DEF Rest, Whole
  <2>2. h = 0 /\ Wire(ms, Tail(s) \o w, g, 1)
    BY <1>4, <1>5, <2>1
  <2> DEFINE t == Tail(s)
  <2>3. t \in Seq(Pieces) /\ t # <<>> /\ Len(t) = Len(s) - 1
    <3>1. t \in Seq(Pieces) /\ Len(t) = Len(s) - 1
      BY <1>3
    <3>2. Len(s) \in Nat /\ Len(<<>>) = 0
      BY LenProperties, EmptySeq
    <3> HIDE DEF t
    <3>3. Len(t) # 0
      BY <2>1, <3>1, <3>2
    <3>4. t = <<>> => Len(t) = Len(<<>>)
      OBVIOUS
    <3> QED BY <3>1, <3>2, <3>3, <3>4
  <2>4. Wire(ms, t \o w, g, 1)
    BY <2>2
  <2> HIDE DEF t
  <2>5. t \o w \in Seq(Pieces) /\ t \o w # <<>> /\ Tail(t \o w) = Tail(t) \o w
    BY <2>3, TailOfConcat, ConcatProperties
  <2> DEFINE u == t \o w
  <2>6. Wire(ms, Tail(u), g + 1, 0)
    <3>1. u \in Seq(Pieces) /\ u # <<>> /\ Wire(ms, u, g, 1)
      BY <2>4, <2>5
    <3> HIDE DEF u
    <3>2. Wire(ms, Tail(u), IF 1 = 0 THEN g ELSE g + 1, IF 1 = 0 THEN 1 ELSE 0)
      BY <3>1, WireTail
    <3> QED BY <3>2
  <2>7. Tail(t) \in Seq(Pieces) /\ Len(Tail(t)) = Len(t) - 1
    BY <2>3, HeadTailProperties
  <2>8. Rest(s, got) = Tail(t) /\ Wire(ms, Tail(t) \o w, g + 1, 0)
    BY <2>1, <2>5, <2>6 DEF t
  <2>9. Len(Tail(t)) <= Len(s)
    BY <1>3, <2>3, <2>7
  <2> QED BY <1>4, <2>7, <2>8, <2>9
<1> QED BY <1>0, <1>6, <1>7

\* read_msg takes the length of a frame, and waits.
LEMMA ReadHalf ==
  ASSUME NEW ms \in Seq(Messages), NEW s \in Seq(Pieces), NEW w \in Seq(Pieces),
         NEW g \in Nat, NEW h \in 0..1, NEW got \in Got,
         Wire(ms, s \o w, g, h), Begun(s, got)
  PROVE  Wire(ms, <<>> \o w, g, 1)
<1>1. Len(s) = 1 /\ Head(s).part = "len" /\ s # <<>>
  <2>1. Len(<<>>) = 0
    BY EmptySeq
  <2>2. Len(s) = 1 /\ Head(s).part = "len"
    BY Zenon DEF Begun
  <2>3. s = <<>> => Len(s) = Len(<<>>)
    OBVIOUS
  <2>4. s # <<>>
    BY <2>1, <2>2, <2>3
  <2> QED BY <2>2, <2>4
<1>2. s \o w \in Seq(Pieces) /\ s \o w # <<>> /\ Head(s \o w) = Head(s) /\ Tail(s \o w) = Tail(s) \o w
  BY <1>1, TailOfConcat, ConcatProperties
<1>3. Tail(s) = <<>>
  <2>1. Tail(s) \in Seq(Pieces) /\ Len(Tail(s)) = 0
    BY <1>1, HeadTailProperties
  <2> QED BY <2>1, EmptySeq
<1> DEFINE q == s \o w
<1>4. q \in Seq(Pieces) /\ q # <<>> /\ Wire(ms, q, g, h) /\ Tail(q) = <<>> \o w /\ Head(q).part = "len"
  BY <1>1, <1>2, <1>3
<1> HIDE DEF q
<1>5. h = 0
  BY <1>4, WireHead
<1>6. Wire(ms, Tail(q), IF h = 0 THEN g ELSE g + 1, IF h = 0 THEN 1 ELSE 0)
  BY <1>4, WireTail
<1> QED BY <1>4, <1>5, <1>6

\* read_msg takes all that is there and makes nothing of it: what is still to be
\* written begins at a piece that is further on.
LEMMA ReadAway ==
  ASSUME NEW ms \in Seq(Messages), NEW s \in Seq(Pieces), NEW w \in Seq(Pieces),
         NEW g \in Nat, NEW h \in 0..1, Wire(ms, s \o w, g, h)
  PROVE  \E gg \in Nat, hh \in 0..1 : g <= gg /\ Wire(ms, <<>> \o w, gg, hh)
<1> DEFINE n == Len(ms)
           l == Len(s)
           m == Len(w)
           q == s \o w
<1>1. n \in Nat /\ l \in Nat /\ m \in Nat
  BY LenProperties
<1>2. Len(q) = l + m /\ \A i \in 1..(l + m) : q[i] = IF i <= l THEN s[i] ELSE w[i - l]
  BY ConcatProperties
<1> DEFINE Fits(k, i) == /\ 2 * g + h + k = 2 * i - 1 => q[k] = LenPiece(ms[i])
                         /\ 2 * g + h + k = 2 * i     => q[k] = BodyPiece(ms[i])
<1>3. 2 * g + h + Len(q) = 2 * n /\ \A k \in 1..Len(q), i \in 1..n : Fits(k, i)
  BY DEF Wire
<1> HIDE DEF n, l, m, q, Fits
<1>a. 2 * g + h + Len(q) = 2 * n
  BY <1>3, Zenon
<1>4. PICK gg \in Nat, hh \in 0..1 : 2 * gg + hh = 2 * g + h + l
  <2>1. \E gg \in Nat, hh \in 0..1 : 2 * gg + hh = 2 * g + h + l
    <3> DEFINE t == 2 * g + h + l
    <3>1. t \in Nat
      BY <1>1
    <3> HIDE DEF t
    <3>2. t \div 2 \in Nat /\ t % 2 \in 0..1 /\ 2 * (t \div 2) + (t % 2) = t
      BY <3>1
    <3> QED BY <3>2 DEF t
  <2> QED BY <2>1
<1>5. g <= gg
  BY <1>1, <1>4
<1>6. <<>> \o w = w
  BY ConcatEmptySeq
<1>7. 2 * gg + hh + m = 2 * n
  <2>1. Len(q) = l + m
    BY <1>2, Zenon
  <2> QED BY <1>1, <1>4, <1>a, <2>1
<1>8. ASSUME NEW k \in 1..m, NEW i \in 1..n
      PROVE  /\ 2 * gg + hh + k = 2 * i - 1 => w[k] = LenPiece(ms[i])
             /\ 2 * gg + hh + k = 2 * i     => w[k] = BodyPiece(ms[i])
  <2>1. /\ l + k \in 1..(l + m) /\ ~(l + k <= l) /\ (l + k) - l = k
        /\ 2 * gg + hh + k = 2 * g + h + (l + k)
    BY <1>1, <1>4
  <2>2. q[l + k] = w[k] /\ l + k \in 1..Len(q)
    BY <1>2, <2>1
  <2>3. /\ 2 * g + h + (l + k) = 2 * i - 1 => q[l + k] = LenPiece(ms[i])
        /\ 2 * g + h + (l + k) = 2 * i     => q[l + k] = BodyPiece(ms[i])
    <3>1. Fits(l + k, i)
      BY <1>3, <2>2, Zenon
    <3> QED BY <3>1 DEF Fits
  <2> QED BY <2>1, <2>2, <2>3
<1>9. Wire(ms, w, gg, hh)
  BY <1>7, <1>8 DEF Wire, n, m
<1> QED BY <1>5, <1>6, <1>9

\* A sequence that holds k at its k-th place is the beginning of 1, 2, ...
LEMMA UptoPrefix ==
  ASSUME NEW n \in Nat, NEW s \in Seq(Nat), Len(s) <= n, \A k \in 1..Len(s) : s[k] = k
  PROVE  IsPrefix(s, Upto(n)) /\ (Len(s) = n => s = Upto(n))
<1> DEFINE u == Upto(n)
<1>1. u \in Seq(Nat) /\ Len(u) = n /\ \A k \in 1..n : u[k] = k
  BY DEF Upto
<1> HIDE DEF u
<1>2. Len(s) \in Nat
  BY LenProperties
<1> DEFINE a == SubSeq(s, 1, Len(s))
           b == SubSeq(u, 1, Len(s))
<1>3. a = s
  BY SubSeqFull
<1>4. b \in Seq(Nat) /\ Len(b) = Len(s) /\ \A i \in 1..Len(s) : b[i] = i
  <2> DEFINE l == Len(s)
  <2>1. l \in Int /\ 1 \in Int /\ \A i \in 1..l : u[i] \in Nat /\ u[i] = i
    BY <1>1, <1>2
  <2>2. (IF 1 <= l THEN l - 1 + 1 ELSE 0) = l /\ l - 1 + 1 = l
    BY <1>2
  <2> DEFINE c == SubSeq(u, 1, l)
  <2> HIDE DEF l
  <2>3. c \in Seq(Nat) /\ Len(c) = (IF 1 <= l THEN l - 1 + 1 ELSE 0) /\ \A i \in 1..(l - 1 + 1) : c[i] = u[1 + i - 1]
    BY <2>1, SubSeqProperties
  <2>4. \A i \in 1..l : 1 + i - 1 = i
    BY <2>1
  <2> HIDE DEF c
  <2>5. c \in Seq(Nat) /\ Len(c) = l /\ \A i \in 1..l : c[i] = i
    BY <2>1, <2>2, <2>3, <2>4
  <2> QED BY <2>5 DEF c, l
<1> HIDE DEF b, a
<1>5. s = b
  <2>1. Len(s) = Len(b) /\ \A i \in 1..Len(s) : s[i] = b[i]
    BY <1>4
  <2> QED BY <1>4, <2>1, SeqEqual
<1>6. IsPrefix(s, u)
  BY <1>1, <1>3, <1>5 DEF IsPrefix, a, b
<1>7. ASSUME Len(s) = n PROVE s = u
  <2>1. Len(s) = Len(u) /\ \A i \in 1..Len(s) : s[i] = u[i]
    BY <1>1, <1>7
  <2> QED BY <1>1, <2>1, SeqEqual
<1> QED BY <1>6, <1>7 DEF u

-----------------------------------------------------------------------------
(* The inductive invariant. *)

\* s is in order, and without a gap if no read was dropped.
Counted(s, n, cut) ==
  /\ InOrder(s, n)
  /\ cut = FALSE => Len(s) <= n /\ \A k \in 1..Len(s) : s[k] = k

\* A later number is put behind the others, the next one if no read was dropped.
LEMMA CountedAppend ==
  ASSUME NEW s \in Seq(Nat), NEW n \in Nat, NEW cut, NEW v \in 1..n, Counted(s, n, cut),
         \A k \in 1..Len(s) : s[k] < v, cut = FALSE => Len(s) = v - 1
  PROVE  /\ Counted(Append(s, v), n, cut) /\ Append(s, v) \in Seq(Nat)
         /\ Len(Append(s, v)) = Len(s) + 1
         /\ \A k \in 1..Len(Append(s, v)) : Append(s, v)[k] <= v
<1> DEFINE t == Append(s, v)
           l == Len(s)
<1>1. /\ t \in Seq(Nat) /\ Len(t) = l + 1 /\ l \in Nat /\ t[l + 1] = v
      /\ \A k \in 1..l : t[k] = s[k]
  BY AppendProperties, LenProperties
<1>2. /\ \A k \in 1..l : s[k] \in 1..n /\ s[k] < v
      /\ \A j, k \in 1..l : j < k => s[j] < s[k]
      /\ cut = FALSE => l = v - 1 /\ \A k \in 1..l : s[k] = k
  BY DEF Counted, InOrder
<1> HIDE DEF t, l
<1>3. \A k \in 1..(l + 1) : k \in 1..l \/ k = l + 1
  BY <1>1
<1>4. \A k \in 1..(l + 1) : t[k] \in 1..n /\ t[k] <= v
  <2>1. ASSUME NEW k \in 1..l PROVE t[k] \in 1..n /\ t[k] <= v
    <3>1. t[k] = s[k] /\ s[k] \in 1..n /\ s[k] < v
      BY <1>1, <1>2
    <3> QED BY <3>1
  <2>2. t[l + 1] \in 1..n /\ t[l + 1] <= v
    BY <1>1
  <2> QED BY <1>3, <2>1, <2>2
<1>5. ASSUME NEW j \in 1..(l + 1), NEW k \in 1..(l + 1), j < k PROVE t[j] < t[k]
  <2>1. j \in 1..l /\ t[j] = s[j]
    BY <1>1, <1>5
  <2>2. CASE k \in 1..l
    BY <1>1, <1>2, <1>5, <2>1, <2>2
  <2>3. CASE k = l + 1
    BY <1>1, <1>2, <2>1, <2>3
  <2> QED BY <1>3, <2>2, <2>3
<1>6. ASSUME cut = FALSE PROVE l + 1 <= n /\ \A k \in 1..(l + 1) : t[k] = k
  <2>1. l + 1 = v /\ l + 1 <= n
    BY <1>1, <1>2, <1>6
  <2>2. \A k \in 1..l : t[k] = k
    BY <1>1, <1>2, <1>6
  <2> QED BY <1>1, <1>3, <2>1, <2>2
<1>7. Counted(t, n, cut)
  BY <1>1, <1>4, <1>5, <1>6 DEF Counted, InOrder
<1> QED BY <1>1, <1>4, <1>7 DEF t, l

\* Reads may be dropped and numbers added: what is counted stays so.
LEMMA CountedStays ==
  ASSUME NEW s \in Seq(Nat), NEW n \in Nat, NEW m \in Nat, n <= m, NEW cut, NEW cutp,
         cutp = FALSE => cut = FALSE, Counted(s, n, cut)
  PROVE  Counted(s, m, cutp)
<1>1. \A k \in 1..Len(s) : s[k] \in 1..m
  BY DEF Counted, InOrder
<1>2. Len(s) \in Nat /\ (Len(s) <= n => Len(s) <= m)
  BY LenProperties
<1> QED BY <1>1, <1>2 DEF Counted, InOrder

Bit(b) == IF b = TRUE THEN 1 ELSE 0

Types ==
  /\ typed \in 0..MaxKeys /\ asked \in BOOLEAN
  /\ made \in 0..MaxOutput /\ ended \in BOOLEAN
  /\ outgoing \in Seq(Messages) /\ events \in Seq(Messages)
  /\ up \in Seq(Pieces) /\ down \in Seq(Pieces)
  /\ Len(up) <= Buffer /\ Len(down) <= Buffer
  /\ cexit \in {"no", "detached", "ended", "closed", "killed"}
  /\ cwrite \in Seq(Pieces) /\ dwrite \in Seq(Pieces)
  /\ cgot \in Got /\ dgot \in Got /\ ccut \in BOOLEAN /\ dcut \in BOOLEAN
  /\ dstate \in {"select", "terminal", "last", "over"}
  /\ key \in 0..MaxKeys
  /\ input \in Seq(Nat) /\ printed \in Seq(Nat)
  /\ taken \in 0..Len(input)

\* What the agent was given, and what the client has printed.
InputInv   == Counted(input, typed, dcut)
PrintedInv == Counted(printed, made, ccut)

\* The handler has read the detach key behind all that was typed before it.
OkSent == /\ asked = TRUE /\ dstate \in {"last", "over"}
          /\ ended = FALSE /\ dcut = FALSE => Len(input) = typed

ExitInv == /\ cexit = "ended" => ended = TRUE /\ (ccut = FALSE => Len(printed) = made)
           /\ cexit = "detached" => OkSent

\* The i-th message of the client.
UpMsg(i) == IF i <= typed THEN Msg("stdin", i) ELSE Msg("detach", 0)

\* Where a reader stands that has passed g messages and, if h is 1, the length of
\* another: without a dropped read it knows of that length.
Stands(got, cut, h) ==
  /\ got = "length" => h = 1
  /\ cut = FALSE => got # "astray" /\ (h = 1 => got = "length")

\* From the keyboard: ms is what stream_loop has begun to write, of which the
\* handler has passed g messages and, if h is 1, half of another.
UpRel(ms, g, h) ==
  /\ Wire(ms, up \o cwrite, g, h)
  /\ Stands(dgot, dcut, h)
  /\ \A i \in 1..Len(ms) : ms[i] = UpMsg(i)
  /\ Len(ms) + Len(outgoing) = typed + Bit(asked)
  /\ \A k \in 1..Len(outgoing) : outgoing[k] = UpMsg(Len(ms) + k)
  /\ \A k \in 1..Len(input) : input[k] <= g
  /\ dstate = "select" /\ ended = FALSE /\ dcut = FALSE => Len(input) = g
  /\ dstate = "terminal" => /\ key = g /\ 1 <= g /\ g <= typed
                            /\ \A k \in 1..Len(input) : input[k] < g
                            /\ ended = FALSE /\ dcut = FALSE => Len(input) = g - 1
UpInv == \E ms \in Seq(Messages), g \in Nat, h \in 0..1 : UpRel(ms, g, h)

\* To the screen: ms is what the handler has begun to write.
DownMsg(ms, i) ==
  \/ ms[i] = Msg("stdout", i) /\ i <= made
  \/ /\ i = Len(ms) /\ ms[i] = Msg("ended", 0)
     /\ ended = TRUE /\ i = made + 1 /\ dstate \in {"last", "over"}
  \/ i = Len(ms) /\ ms[i] = Msg("ok", 0) /\ OkSent
DownRel(ms, g, h) ==
  /\ Wire(ms, down \o dwrite, g, h)
  /\ Stands(cgot, ccut, h)
  /\ \A i \in 1..Len(ms) : DownMsg(ms, i)
  /\ dstate \in {"select", "terminal"} =>
       /\ Len(ms) + Len(events) = made + Bit(ended)
       /\ \A k \in 1..Len(events) :
            events[k] = IF Len(ms) + k <= made THEN Msg("stdout", Len(ms) + k) ELSE Msg("ended", 0)
  /\ \A k \in 1..Len(printed) : printed[k] <= g
  /\ cexit = "no" /\ ccut = FALSE => Len(printed) = g
DownInv == \E ms \in Seq(Messages), g \in Nat, h \in 0..1 : DownRel(ms, g, h)

Inv == Types /\ InputInv /\ PrintedInv /\ ExitInv /\ UpInv /\ DownInv

\* What the two programs send are messages.
LEMMA MessageTypes ==
  /\ \A n \in 1..MaxKeys : Msg("stdin", n) \in Messages
  /\ \A n \in 1..MaxOutput : Msg("stdout", n) \in Messages
  /\ Msg("detach", 0) \in Messages /\ Msg("ended", 0) \in Messages /\ Msg("ok", 0) \in Messages
BY StreamAssumption DEF Msg, Messages

\* At first nothing has been written.
LEMMA WireEmpty ==
  /\ Wire(<<>>, <<>>, 0, 0)
  /\ <<>> \in Seq(Messages) /\ <<>> \in Seq(Pieces) /\ <<>> \in Seq(Nat)
  /\ Len(<<>>) = 0 /\ <<>> \o <<>> = <<>>
<1>1. <<>> \in Seq(Messages) /\ <<>> \in Seq(Pieces) /\ <<>> \in Seq(Nat) /\ Len(<<>>) = 0
  BY EmptySeq
<1>2. <<>> \o <<>> = <<>>
  BY <1>1, ConcatEmptySeq
<1>3. Wire(<<>>, <<>>, 0, 0)
  BY <1>1 DEF Wire
<1> QED BY <1>1, <1>2, <1>3

\* The invariant holds when the attach has been accepted (attach.rs,
\* stream_loop; server.rs, handle_attach).
LEMMA InitInv == Init => Inv
<1> SUFFICES ASSUME Init PROVE Inv
  OBVIOUS
<1>1. Types
  <2>1. /\ outgoing \in Seq(Messages) /\ events \in Seq(Messages)
        /\ up \in Seq(Pieces) /\ down \in Seq(Pieces) /\ cwrite \in Seq(Pieces) /\ dwrite \in Seq(Pieces)
        /\ input \in Seq(Nat) /\ printed \in Seq(Nat)
    BY WireEmpty DEF Init
  <2>2. Len(up) = 0 /\ Len(down) = 0 /\ Len(input) = 0
    BY WireEmpty DEF Init
  <2>3. taken \in 0..Len(input) /\ Len(up) <= Buffer /\ Len(down) <= Buffer
    BY <2>2, StreamAssumption DEF Init
  <2>4. /\ asked \in BOOLEAN /\ ended \in BOOLEAN /\ cgot \in Got /\ dgot \in Got
        /\ ccut \in BOOLEAN /\ dcut \in BOOLEAN
        /\ cexit \in {"no", "detached", "ended", "closed", "killed"}
        /\ dstate \in {"select", "terminal", "last", "over"}
    BY DEF Init, Got
  <2>5. typed \in 0..MaxKeys /\ made \in 0..MaxOutput /\ key \in 0..MaxKeys
    BY StreamAssumption DEF Init
  <2> QED BY <2>1, <2>3, <2>4, <2>5 DEF Types
<1>2. InputInv /\ PrintedInv /\ ExitInv
  BY WireEmpty DEF InputInv, PrintedInv, ExitInv, Counted, InOrder, Init
<1>3. UpRel(<<>>, 0, 0)
  BY WireEmpty DEF UpRel, Stands, Bit, Init
<1>4. DownRel(<<>>, 0, 0)
  BY WireEmpty DEF DownRel, Stands, Bit, Init
<1>5. <<>> \in Seq(Messages) /\ 0 \in Nat /\ 0 \in 0..1
  BY WireEmpty
<1>6. UpInv /\ DownInv
  BY <1>3, <1>4, <1>5 DEF UpInv, DownInv
<1> QED BY <1>1, <1>2, <1>6 DEF Inv

\* A read is dropped, or nothing was taken by it.
Dropped(gotp, cutp, got, cut) ==
  gotp = "nothing" /\ (cutp = TRUE \/ (cutp = FALSE /\ cut = FALSE /\ got = "nothing"))

\* What select! drops.
LEMMA DropIs ==
  ASSUME NEW got \in Got, NEW cut \in BOOLEAN, NEW cutp, cutp = (cut \/ got # "nothing")
  PROVE  Dropped("nothing", cutp, got, cut)
BY DEF Dropped

\* What does not touch a direction leaves it as it is.
LEMMA UpFrame ==
  ASSUME UpInv, UNCHANGED <<typed, asked, outgoing, cwrite, up, input>>,
         (dgot' = dgot /\ dcut' = dcut) \/ Dropped(dgot', dcut', dgot, dcut),
         ended' = ended \/ ended' = TRUE,
         (dstate' = dstate /\ key' = key) \/ dstate' \in {"last", "over"}, ended \in BOOLEAN
  PROVE  UpInv'
<1>1. PICK ms \in Seq(Messages), g \in Nat, h \in 0..1 : UpRel(ms, g, h)
  BY DEF UpInv
<1>2. \A i : UpMsg(i)' = UpMsg(i)
  BY DEF UpMsg
<1>3. ended' = FALSE => ended = FALSE
  OBVIOUS
<1>4. UpRel(ms, g, h)'
  <2>1. Stands(dgot', dcut', h) /\ (dcut' = FALSE => dcut = FALSE)
    BY <1>1 DEF UpRel, Stands, Dropped
  <2> QED BY <1>1, <1>2, <1>3, <2>1 DEF UpRel, Bit
<1> QED BY <1>4 DEF UpInv

\* OkSent lasts while nothing more is typed.
LEMMA OkSentStable ==
  ASSUME Types, UNCHANGED <<typed, input>>, asked' = asked, ended' = ended \/ ended' = TRUE,
         dstate' = dstate \/ dstate' \in {"last", "over"}, dcut' = dcut \/ dcut' = TRUE
  PROVE  OkSent => OkSent'
BY DEF OkSent, Types

\* The same of the direction to the screen.
LEMMA DownFrame ==
  ASSUME DownInv, UNCHANGED <<made, ended, events, down, dwrite, printed>>,
         cexit' = cexit \/ cexit' # "no",
         (cgot' = cgot /\ ccut' = ccut) \/ Dropped(cgot', ccut', cgot, ccut),
         OkSent => OkSent',
         dstate' = dstate \/ dstate' \in {"last", "over"} \/ {dstate, dstate'} \subseteq {"select", "terminal"}
  PROVE  DownInv'
<1>1. PICK ms \in Seq(Messages), g \in Nat, h \in 0..1 : DownRel(ms, g, h)
  BY DEF DownInv
<1>2. \A i \in 1..Len(ms) : DownMsg(ms, i)'
  BY <1>1 DEF DownRel, DownMsg
<1>3. DownRel(ms, g, h)'
  <2>1. Stands(cgot', ccut', h) /\ (ccut' = FALSE => ccut = FALSE)
    BY <1>1 DEF DownRel, Stands, Dropped
  <2> QED BY <1>1, <1>2, <2>1 DEF DownRel, Bit
<1> QED BY <1>3 DEF DownInv

-----------------------------------------------------------------------------
(* The user and the agent. *)

\* A keystroke that stdin_loop puts behind the others (attach.rs).
LEMMA TypeStep ==
  ASSUME Inv, Type
  PROVE  Inv'
<1> DEFINE m == Msg("stdin", typed')
<1>1. /\ asked = FALSE /\ typed < MaxKeys /\ typed' = typed + 1 /\ outgoing' = Append(outgoing, m)
      /\ UNCHANGED <<asked, made, ended, taken, events, up, down, cexit, cwrite, cgot, ccut, printed>>
      /\ UNCHANGED <<dstate, dwrite, dgot, dcut, key, input>>
  BY DEF Type, agent, client, daemon, Inv, Types
<1>2. typed \in Nat /\ typed' \in 1..MaxKeys /\ MaxKeys \in Nat
  BY <1>1, StreamAssumption DEF Inv, Types
<1>3. m \in Messages
  BY <1>2, MessageTypes
<1> HIDE DEF m
<1>4. /\ outgoing' \in Seq(Messages) /\ Len(outgoing') = Len(outgoing) + 1 /\ Len(outgoing) \in Nat
      /\ outgoing'[Len(outgoing) + 1] = m
      /\ \A k \in 1..Len(outgoing) : outgoing'[k] = outgoing[k]
  BY <1>1, <1>3, AppendProperties, LenProperties DEF Inv, Types
<1>5. Types'
  BY <1>1, <1>2, <1>4 DEF Inv, Types
<1>6. InputInv' /\ PrintedInv' /\ ExitInv' /\ (OkSent => OkSent')
  <2>1. typed <= typed' /\ typed' \in Nat /\ input \in Seq(Nat)
    BY <1>1, <1>2 DEF Inv, Types
  <2>2. Counted(input, typed', dcut)
    BY <1>2, <2>1, CountedStays DEF Inv, InputInv
  <2> QED BY <1>1, <2>2 DEF Inv, InputInv, PrintedInv, ExitInv, OkSent
<1>7. DownInv'
  BY <1>1, <1>6, DownFrame DEF Inv
<1>8. UpInv'
  <2>1. PICK ms \in Seq(Messages), g \in Nat, h \in 0..1 : UpRel(ms, g, h)
    BY DEF Inv, UpInv
  <2>2. Len(ms) \in Nat /\ Len(ms) + Len(outgoing) = typed
    BY <1>1, <1>2, <1>4, <2>1, LenProperties DEF UpRel, Bit
  <2>3. \A i \in 1..typed : UpMsg(i)' = UpMsg(i)
    BY <1>2, <1>1 DEF UpMsg
  <2>4. \A i : i = typed + 1 => UpMsg(i)' = m
    BY <1>1, <1>2 DEF UpMsg, m
  <2>5. \A i \in 1..Len(ms) : ms[i] = UpMsg(i)'
    BY <1>2, <1>4, <2>1, <2>2, <2>3 DEF UpRel
  <2>6. ASSUME NEW k \in 1..Len(outgoing') PROVE outgoing'[k] = UpMsg(Len(ms) + k)'
    <3>1. CASE k \in 1..Len(outgoing)
      <4>1. Len(ms) + k \in 1..typed
        BY <2>2, <1>4, <3>1
      <4> QED BY <1>4, <2>1, <2>3, <3>1, <4>1 DEF UpRel
    <3>2. CASE k = Len(outgoing) + 1
      <4>1. Len(ms) + k = typed + 1
        BY <1>2, <1>4, <2>2, <3>2
      <4> QED BY <1>4, <2>4, <3>2, <4>1
    <3> QED BY <1>4, <3>1, <3>2
  <2>7. Len(ms) + Len(outgoing') = typed' + Bit(asked')
    BY <1>1, <1>2, <1>4, <2>2 DEF Bit
  <2>8. dstate = "terminal" => g <= typed'
    BY <1>1, <1>2, <2>1 DEF UpRel
  <2>9. UpRel(ms, g, h)'
    BY <1>1, <2>1, <2>5, <2>6, <2>7, <2>8 DEF UpRel
  <2> QED BY <2>9 DEF UpInv
<1> QED BY <1>5, <1>6, <1>7, <1>8 DEF Inv

\* The detach key goes behind all keystrokes, and none follows it.
LEMMA HitDetachKeyStep ==
  ASSUME Inv, HitDetachKey
  PROVE  Inv'
<1> DEFINE m == Msg("detach", 0)
<1>1. /\ asked = FALSE /\ asked' = TRUE /\ outgoing' = Append(outgoing, m)
      /\ UNCHANGED <<typed, made, ended, taken, events, up, down, cexit, cwrite, cgot, ccut, printed>>
      /\ UNCHANGED <<dstate, dwrite, dgot, dcut, key, input>>
  BY DEF HitDetachKey, agent, client, daemon, Inv, Types
<1>2. typed \in Nat
  BY DEF Inv, Types
<1>3. m \in Messages
  BY MessageTypes
<1> HIDE DEF m
<1>4. /\ outgoing' \in Seq(Messages) /\ Len(outgoing') = Len(outgoing) + 1 /\ Len(outgoing) \in Nat
      /\ outgoing'[Len(outgoing) + 1] = m
      /\ \A k \in 1..Len(outgoing) : outgoing'[k] = outgoing[k]
  BY <1>1, <1>3, AppendProperties, LenProperties DEF Inv, Types
<1>5. Types'
  BY <1>1, <1>2, <1>4 DEF Inv, Types
<1>6. InputInv' /\ PrintedInv' /\ ExitInv' /\ (OkSent => OkSent')
  BY <1>1 DEF Inv, InputInv, PrintedInv, ExitInv, OkSent
<1>7. DownInv'
  BY <1>1, <1>6, DownFrame DEF Inv
<1>8. UpInv'
  <2>1. PICK ms \in Seq(Messages), g \in Nat, h \in 0..1 : UpRel(ms, g, h)
    BY DEF Inv, UpInv
  <2>2. Len(ms) \in Nat /\ Len(ms) + Len(outgoing) = typed
    BY <1>1, <1>2, <1>4, <2>1, LenProperties DEF UpRel, Bit
  <2>3. (\A i : UpMsg(i)' = UpMsg(i)) /\ UpMsg(typed + 1) = m
    BY <1>1, <1>2 DEF UpMsg, m
  <2>4. ASSUME NEW k \in 1..Len(outgoing') PROVE outgoing'[k] = UpMsg(Len(ms) + k)
    <3>1. CASE k \in 1..Len(outgoing)
      BY <1>4, <2>1, <3>1 DEF UpRel
    <3>2. CASE k = Len(outgoing) + 1
      <4>1. Len(ms) + k = typed + 1
        BY <1>2, <1>4, <2>2, <3>2
      <4> QED BY <1>4, <2>3, <3>2, <4>1
    <3> QED BY <1>4, <3>1, <3>2
  <2>5. Len(ms) + Len(outgoing') = typed' + Bit(asked')
    BY <1>1, <1>2, <1>4, <2>2 DEF Bit
  <2>6. UpRel(ms, g, h)'
    BY <1>1, <2>1, <2>3, <2>4, <2>5 DEF UpRel
  <2> QED BY <2>6 DEF UpInv
<1> QED BY <1>5, <1>6, <1>7, <1>8 DEF Inv

\* What the agent writes, and the end of its session, go to a handler that
\* still serves, behind what went before.
LEMMA EventAdded ==
  ASSUME Inv, NEW m \in Messages, ended = FALSE,
         events' = IF Serving THEN Append(events, m) ELSE events,
         UNCHANGED <<asked, typed, input, down, dwrite, cgot, ccut, cexit, printed, dstate, dcut>>,
         \/ made' = made + 1 /\ ended' = FALSE /\ m = Msg("stdout", made + 1)
         \/ made' = made /\ ended' = TRUE /\ m = Msg("ended", 0)
  PROVE  DownInv' /\ events' \in Seq(Messages)
<1>1. PICK ms \in Seq(Messages), g \in Nat, h \in 0..1 : DownRel(ms, g, h)
  BY DEF Inv, DownInv
<1>2. made \in Nat /\ events \in Seq(Messages) /\ Len(events) \in Nat /\ Len(ms) \in Nat
  BY LenProperties DEF Inv, Types
<1>3. events' \in Seq(Messages)
  BY <1>2, AppendProperties
<1>4. OkSent => OkSent'
  BY DEF OkSent
<1>5. made <= made' /\ made' \in Nat
  BY <1>2
<1>6. \A i \in 1..Len(ms) : DownMsg(ms, i)'
  <2>1. ASSUME NEW i \in 1..Len(ms) PROVE DownMsg(ms, i)'
    <3>1. CASE ms[i] = Msg("stdout", i) /\ i <= made
      <4>1. i <= made'
        BY <1>2, <1>5, <3>1
      <4> QED BY <3>1, <4>1 DEF DownMsg
    <3>2. CASE i = Len(ms) /\ ms[i] = Msg("ok", 0) /\ OkSent
      BY <1>4, <3>2 DEF DownMsg
    <3>3. CASE i = Len(ms) /\ ms[i] = Msg("ended", 0) /\ ended = TRUE
      BY <3>3
    <3>4. DownMsg(ms, i)
      BY <1>1 DEF DownRel
    <3> QED BY <3>1, <3>2, <3>3, <3>4 DEF DownMsg
  <2> QED BY <2>1
<1>7. ASSUME dstate \in {"select", "terminal"}
      PROVE  /\ Len(ms) + Len(events') = made' + Bit(ended')
             /\ \A k \in 1..Len(events') :
                  events'[k] = IF Len(ms) + k <= made' THEN Msg("stdout", Len(ms) + k) ELSE Msg("ended", 0)
  <2>1. /\ Len(ms) + Len(events) = made
        /\ \A k \in 1..Len(events) :
             events[k] = IF Len(ms) + k <= made THEN Msg("stdout", Len(ms) + k) ELSE Msg("ended", 0)
    BY <1>1, <1>2, <1>7 DEF DownRel, Bit
  <2>2. events' = Append(events, m)
    BY <1>7 DEF Serving
  <2>3. /\ Len(events') = Len(events) + 1 /\ events'[Len(events) + 1] = m
        /\ \A k \in 1..Len(events) : events'[k] = events[k]
    BY <1>2, <2>2, AppendProperties
  <2>4. Len(ms) + Len(events') = made' + Bit(ended')
    <3>1. CASE made' = made + 1 /\ ended' = FALSE
      <4>1. Bit(ended') = 0
        BY <3>1 DEF Bit
      <4> QED BY <1>2, <2>1, <2>3, <3>1, <4>1
    <3>2. CASE made' = made /\ ended' = TRUE
      <4>1. Bit(ended') = 1
        BY <3>2 DEF Bit
      <4> QED BY <1>2, <2>1, <2>3, <3>2, <4>1
    <3> QED BY <3>1, <3>2
  <2>5. ASSUME NEW k \in 1..Len(events')
        PROVE  events'[k] = IF Len(ms) + k <= made' THEN Msg("stdout", Len(ms) + k) ELSE Msg("ended", 0)
    <3>1. CASE k \in 1..Len(events)
      <4>1. Len(ms) + k <= made /\ Len(ms) + k <= made'
        BY <1>2, <1>5, <2>1, <3>1
      <4> QED BY <2>1, <2>3, <3>1, <4>1
    <3>2. CASE k = Len(events) + 1
      <4>1. Len(ms) + k = made + 1
        BY <1>2, <2>1, <3>2
      <4> QED BY <1>2, <2>3, <3>2, <4>1
    <3> QED BY <1>2, <2>3, <3>1, <3>2
  <2> QED BY <2>4, <2>5
<1>8. DownRel(ms, g, h)'
  BY <1>1, <1>6, <1>7 DEF DownRel
<1> QED BY <1>3, <1>8 DEF DownInv

\* The agent reads, writes, and its session ends.
LEMMA AgentSteps ==
  ASSUME Inv, Produce \/ EndSession \/ ReadInput
  PROVE  Inv'
<1>1. CASE Produce
  <2>1. /\ ended = FALSE /\ made < MaxOutput /\ made' = made + 1
        /\ events' = IF Serving THEN Append(events, Msg("stdout", made + 1)) ELSE events
        /\ UNCHANGED <<typed, asked, outgoing, ended, taken, up, down, cexit, cwrite, cgot, ccut, printed>>
        /\ UNCHANGED <<dstate, dwrite, dgot, dcut, key, input>>
    BY <1>1 DEF Produce, user, client, daemon, Inv, Types
  <2>2. made \in Nat /\ made' \in 1..MaxOutput
    BY <2>1, StreamAssumption DEF Inv, Types
  <2>3. Msg("stdout", made + 1) \in Messages
    BY <2>1, <2>2, MessageTypes
  <2>4. DownInv' /\ events' \in Seq(Messages)
    BY <2>1, <2>3, EventAdded
  <2>5. Types' /\ InputInv' /\ PrintedInv' /\ ExitInv'
    <3>1. made <= made' /\ made' \in Nat /\ printed \in Seq(Nat)
      BY <2>1, <2>2 DEF Inv, Types
    <3>2. Counted(printed, made', ccut)
      BY <2>2, <3>1, CountedStays DEF Inv, PrintedInv
    <3>3. PrintedInv' /\ InputInv' /\ ExitInv'
      BY <2>1, <3>2 DEF Inv, InputInv, PrintedInv, ExitInv, OkSent
    <3>4. made' \in 0..MaxOutput
      BY <2>2
    <3> QED BY <2>1, <2>4, <3>3, <3>4 DEF Inv, Types
  <2>6. UpInv'
    BY <2>1, UpFrame DEF Inv, Types
  <2> QED BY <2>4, <2>5, <2>6 DEF Inv
<1>2. CASE EndSession
  <2>1. /\ ended = FALSE /\ ended' = TRUE
        /\ events' = IF Serving THEN Append(events, Msg("ended", 0)) ELSE events
        /\ UNCHANGED <<typed, asked, outgoing, made, taken, up, down, cexit, cwrite, cgot, ccut, printed>>
        /\ UNCHANGED <<dstate, dwrite, dgot, dcut, key, input>>
    BY <1>2 DEF EndSession, user, client, daemon, Inv, Types
  <2>2. DownInv' /\ events' \in Seq(Messages)
    BY <2>1, EventAdded, MessageTypes
  <2>3. Types' /\ InputInv' /\ PrintedInv' /\ ExitInv'
    BY <2>1, <2>2 DEF Inv, Types, InputInv, PrintedInv, ExitInv, OkSent
  <2>4. UpInv'
    BY <2>1, UpFrame DEF Inv, Types
  <2> QED BY <2>2, <2>3, <2>4 DEF Inv
<1>3. CASE ReadInput
  <2>1. /\ taken < Len(input) /\ taken' = taken + 1
        /\ UNCHANGED <<typed, asked, outgoing, made, ended, events, up, down, cexit, cwrite, cgot, ccut, printed>>
        /\ UNCHANGED <<dstate, dwrite, dgot, dcut, key, input>>
    BY <1>3 DEF ReadInput, user, client, daemon
  <2>2. taken' \in 0..Len(input')
    <3>1. Len(input) \in Nat /\ taken \in 0..Len(input)
      BY LenProperties DEF Inv, Types
    <3> QED BY <2>1, <3>1
  <2>3. Types' /\ InputInv' /\ PrintedInv' /\ ExitInv' /\ (OkSent => OkSent')
    BY <2>1, <2>2 DEF Inv, Types, InputInv, PrintedInv, ExitInv, OkSent
  <2>4. UpInv' /\ DownInv'
    BY <2>1, <2>3, UpFrame, DownFrame DEF Inv, Types
  <2> QED BY <2>3, <2>4 DEF Inv
<1> QED BY <1>1, <1>2, <1>3

-----------------------------------------------------------------------------
(* The client. *)

\* What both loops do with the branch they prefer: a message is taken to be
\* written, and a read that had begun is dropped.
LEMMA CTakeStep ==
  ASSUME Inv, CTake
  PROVE  Inv'
<1> DEFINE m == Head(outgoing)
<1>1. /\ cwrite = <<>> /\ outgoing # <<>> /\ cwrite' = Frame(m) /\ outgoing' = Tail(outgoing)
      /\ cgot' = "nothing" /\ ccut' = (ccut \/ cgot # "nothing") /\ cexit = "no"
      /\ UNCHANGED <<typed, asked, made, ended, taken, events, up, down, cexit, printed>>
      /\ UNCHANGED <<dstate, dwrite, dgot, dcut, key, input>>
  BY DEF CTake, CSelect, Attached, user, agent, daemon
<1>2. /\ m \in Messages /\ outgoing' \in Seq(Messages) /\ Len(outgoing') = Len(outgoing) - 1
      /\ Len(outgoing) \in Nat \ {0} /\ m = outgoing[1]
      /\ \A k \in 1..(Len(outgoing) - 1) : outgoing'[k] = outgoing[k + 1]
  BY <1>1, EmptySeq, HeadTailProperties DEF Inv, Types
<1>3. cwrite' \in Seq(Pieces)
  BY <1>1, <1>2, FrameProperties
<1>4. Types' /\ InputInv' /\ PrintedInv' /\ ExitInv' /\ (OkSent => OkSent')
  <2>1. cgot' \in Got /\ ccut' \in BOOLEAN
    BY <1>1 DEF Got
  <2>2. Types'
    BY <1>1, <1>2, <1>3, <2>1 DEF Inv, Types
  <2>3. Counted(printed, made, ccut')
    <3>1. ccut' = FALSE => ccut = FALSE
      BY <1>1 DEF Inv, Types
    <3>2. made \in Nat /\ made <= made /\ printed \in Seq(Nat)
      BY DEF Inv, Types
    <3> QED BY <3>1, <3>2, CountedStays DEF Inv, PrintedInv
  <2>4. PrintedInv'
    BY <1>1, <2>3 DEF PrintedInv
  <2> QED BY <1>1, <2>2, <2>4 DEF Inv, InputInv, ExitInv, OkSent
<1>5. DownInv'
  <2>1. Dropped(cgot', ccut', cgot, ccut)
    BY <1>1, DropIs DEF Inv, Types
  <2> QED BY <1>1, <1>4, <2>1, DownFrame DEF Inv
<1>6. UpInv'
  <2>1. PICK ms \in Seq(Messages), g \in Nat, h \in 0..1 : UpRel(ms, g, h)
    BY DEF Inv, UpInv
  <2> HIDE DEF m
  <2>0. PICK mm \in Seq(Messages) : mm = Append(ms, m)
    BY <1>2, AppendProperties
  <2>2. /\ mm \in Seq(Messages) /\ Len(mm) = Len(ms) + 1 /\ mm[Len(ms) + 1] = m
        /\ \A i \in 1..Len(ms) : mm[i] = ms[i]
        /\ Len(ms) \in Nat
    BY <1>2, <2>0, AppendProperties, LenProperties
  <2>3. Wire(mm, up' \o cwrite', g, h)
    <3>1. up \in Seq(Pieces) /\ up \o <<>> = up
      BY ConcatEmptySeq DEF Inv, Types
    <3>2. Wire(ms, up, g, h)
      BY <1>1, <2>1, <3>1 DEF UpRel
    <3> QED BY <1>1, <1>2, <2>0, <3>1, <3>2, WireTake
  <2>4. \A i : UpMsg(i)' = UpMsg(i)
    BY <1>1 DEF UpMsg
  <2>5. m = UpMsg(Len(ms) + 1)
    BY <1>2, <2>1 DEF UpRel
  <2>6. ASSUME NEW i \in 1..Len(mm) PROVE mm[i] = UpMsg(i)
    <3>1. CASE i \in 1..Len(ms)
      BY <2>1, <2>2, <3>1 DEF UpRel
    <3>2. CASE i = Len(ms) + 1
      BY <2>2, <2>5, <3>2
    <3> QED BY <2>2, <3>1, <3>2
  <2>7. ASSUME NEW k \in 1..Len(outgoing') PROVE outgoing'[k] = UpMsg(Len(mm) + k)
    <3>1. k + 1 \in 1..Len(outgoing) /\ Len(mm) + k = Len(ms) + (k + 1) /\ outgoing'[k] = outgoing[k + 1]
      BY <1>2, <2>2
    <3> QED BY <2>1, <3>1 DEF UpRel
  <2>8. Len(mm) + Len(outgoing') = Len(ms) + Len(outgoing)
    BY <1>2, <2>2
  <2>9. UpRel(mm, g, h)'
    BY <1>1, <2>1, <2>3, <2>4, <2>6, <2>7, <2>8 DEF UpRel
  <2> QED BY <2>2, <2>9 DEF UpInv
<1> QED BY <1>4, <1>5, <1>6 DEF Inv

\* The client writes what the socket has room for.
LEMMA CWriteStep ==
  ASSUME Inv, CWrite
  PROVE  Inv'
<1>1. /\ cwrite # <<>> /\ Room(up, cwrite) /\ up' = up \o Now(cwrite) /\ cwrite' = Later(cwrite)
      /\ UNCHANGED <<typed, asked, outgoing, made, ended, taken, events, down, cexit, cgot, ccut, printed>>
      /\ UNCHANGED <<dstate, dwrite, dgot, dcut, key, input>>
  BY DEF CWrite, user, agent, daemon
<1>2. up \in Seq(Pieces) /\ cwrite \in Seq(Pieces)
  BY DEF Inv, Types
<1>3. /\ Now(cwrite) \in Seq(Pieces) /\ cwrite' \in Seq(Pieces)
      /\ up' \o cwrite' = up \o cwrite /\ Len(up') = Len(up) + Len(Now(cwrite))
  BY <1>1, <1>2, NowAndLater
<1>4. up' \in Seq(Pieces) /\ Len(up') <= Buffer
  BY <1>1, <1>2, <1>3, ConcatProperties DEF Room
<1>5. Types' /\ InputInv' /\ PrintedInv' /\ ExitInv' /\ (OkSent => OkSent')
  BY <1>1, <1>3, <1>4 DEF Inv, Types, InputInv, PrintedInv, ExitInv, OkSent
<1>6. DownInv'
  BY <1>1, <1>5, DownFrame DEF Inv
<1>7. UpInv'
  <2>1. PICK ms \in Seq(Messages), g \in Nat, h \in 0..1 : UpRel(ms, g, h)
    BY DEF Inv, UpInv
  <2>2. \A i : UpMsg(i)' = UpMsg(i)
    BY <1>1 DEF UpMsg
  <2>3. UpRel(ms, g, h)'
    BY <1>1, <1>3, <2>1, <2>2 DEF UpRel
  <2> QED BY <2>3 DEF UpInv
<1> QED BY <1>5, <1>6, <1>7 DEF Inv

\* The connection is lost to the client, or the client killed.
LEMMA ClientGone ==
  ASSUME Inv, CWriteFails \/ CReadFails \/ CKilled
  PROVE  Inv'
<1>1. /\ cexit' \in {"closed", "killed"}
      /\ UNCHANGED <<typed, asked, outgoing, made, ended, taken, events, up, down, cwrite, cgot, ccut, printed>>
      /\ UNCHANGED <<dstate, dwrite, dgot, dcut, key, input>>
  BY DEF CWriteFails, CReadFails, CKilled, user, agent, daemon
<1>2. Types' /\ InputInv' /\ PrintedInv' /\ ExitInv' /\ (OkSent => OkSent')
  BY <1>1 DEF Inv, Types, InputInv, PrintedInv, ExitInv, OkSent
<1>3. UpInv' /\ DownInv'
  BY <1>1, <1>2, UpFrame, DownFrame DEF Inv, Types
<1> QED BY <1>2, <1>3 DEF Inv

\* A whole frame: a chunk to print, the end of the session or the Ok.
LEMMA CReadStep ==
  ASSUME Inv, CRead
  PROVE  Inv'
<1> DEFINE m == Head(down).msg
<1>1. /\ cexit = "no" /\ Whole(down, cgot) /\ down' = Rest(down, cgot) /\ cgot' = "nothing"
      /\ printed' = IF m.type = "stdout" THEN Append(printed, m.n) ELSE printed
      /\ cexit' = CASE m.type = "ended" -> "ended" [] m.type = "ok" -> "detached" [] OTHER -> cexit
      /\ UNCHANGED <<typed, asked, outgoing, made, ended, taken, events, up, cwrite, ccut>>
      /\ UNCHANGED <<dstate, dwrite, dgot, dcut, key, input>>
  BY DEF CRead, CSelect, Attached, user, agent, daemon
<1>2. PICK ms \in Seq(Messages), g \in Nat, h \in 0..1 : DownRel(ms, g, h)
  BY DEF Inv, DownInv
<1>3. /\ down \in Seq(Pieces) /\ dwrite \in Seq(Pieces) /\ cgot \in Got /\ Len(down) <= Buffer
      /\ printed \in Seq(Nat) /\ made \in 0..MaxOutput /\ Len(down) \in Nat
  BY LenProperties DEF Inv, Types
<1>4. /\ g + 1 \in 1..Len(ms) /\ m = ms[g + 1]
      /\ down' \in Seq(Pieces) /\ Len(down') <= Len(down)
      /\ Wire(ms, down' \o dwrite, g + 1, 0)
  <2>1. Wire(ms, down \o dwrite, g, h) /\ (cgot = "length" => h = 1)
    BY <1>2 DEF DownRel, Stands
  <2> HIDE DEF m
  <2>2. /\ g + 1 \in 1..Len(ms) /\ Head(down).msg = ms[g + 1]
        /\ Rest(down, cgot) \in Seq(Pieces) /\ Len(Rest(down, cgot)) <= Len(down)
        /\ Wire(ms, Rest(down, cgot) \o dwrite, g + 1, 0)
    <3>1. /\ Whole(down, cgot) /\ Wire(ms, down \o dwrite, g, h) /\ (cgot = "length" => h = 1)
          /\ down \in Seq(Pieces) /\ dwrite \in Seq(Pieces) /\ cgot \in Got
      BY <1>1, <1>3, <2>1
    <3> QED BY <3>1, ReadWhole
  <2> QED BY <1>1, <2>2 DEF m
<1> HIDE DEF m
<1>5. /\ DownMsg(ms, g + 1) /\ (ccut = FALSE => Len(printed) = g)
      /\ \A k \in 1..Len(printed) : printed[k] <= g
  BY <1>1, <1>2, <1>4 DEF DownRel
<1>6. /\ printed' \in Seq(Nat) /\ PrintedInv' /\ ExitInv'
      /\ cexit' \in {"no", "detached", "ended"}
      /\ cexit' = "no" /\ ccut = FALSE => Len(printed') = g + 1
      /\ \A k \in 1..Len(printed') : printed'[k] <= g + 1
  <2>1. OkSent' = OkSent
    BY <1>1 DEF OkSent
  <2>2. \A k \in 1..Len(printed) : printed[k] < g + 1 /\ printed[k] <= g + 1
    <3>1. ASSUME NEW k \in 1..Len(printed) PROVE printed[k] < g + 1 /\ printed[k] <= g + 1
      <4>1. printed[k] \in Nat /\ printed[k] <= g
        BY <1>3, <1>5, ElementOfSeq
      <4> QED BY <4>1
    <3> QED BY <3>1
  <2>3. CASE m = Msg("stdout", g + 1) /\ g + 1 <= made
    <3>1. m.type = "stdout" /\ m.n = g + 1
      BY <2>3 DEF Msg
    <3>2. printed' = Append(printed, g + 1) /\ cexit' = "no"
      BY <1>1, <3>1
    <3>3. g + 1 \in 1..made /\ made \in Nat /\ (ccut = FALSE => Len(printed) = (g + 1) - 1)
      BY <1>3, <1>5, <2>3
    <3>4. Counted(printed, made, ccut)
      BY DEF Inv, PrintedInv
    <3> DEFINE v == g + 1
    <3>5. /\ v \in 1..made /\ (ccut = FALSE => Len(printed) = v - 1)
          /\ \A k \in 1..Len(printed) : printed[k] < v
      BY <2>2, <3>3
    <3> HIDE DEF v
    <3>6. /\ Counted(Append(printed, v), made, ccut) /\ Append(printed, v) \in Seq(Nat)
          /\ Len(Append(printed, v)) = Len(printed) + 1
          /\ \A k \in 1..Len(Append(printed, v)) : Append(printed, v)[k] <= v
      BY <1>3, <3>3, <3>4, <3>5, CountedAppend
    <3>7. /\ printed' \in Seq(Nat) /\ PrintedInv' /\ Len(printed') = Len(printed) + 1
          /\ \A k \in 1..Len(printed') : printed'[k] <= g + 1
      BY <1>1, <3>2, <3>6 DEF PrintedInv, v
    <3>8. ExitInv'
      BY <3>2 DEF ExitInv
    <3> QED BY <1>5, <3>2, <3>7, <3>8
  <2>4. CASE m = Msg("ended", 0) /\ ended = TRUE /\ g + 1 = made + 1
    <3>1. m.type = "ended"
      BY <2>4 DEF Msg
    <3>2. printed' = printed /\ cexit' = "ended"
      BY <1>1, <3>1
    <3>3. ccut' = FALSE => Len(printed') = made'
      BY <1>1, <1>3, <1>5, <2>4, <3>2
    <3>4. ExitInv'
      BY <1>1, <2>4, <3>2, <3>3 DEF ExitInv
    <3>5. PrintedInv'
      BY <1>1, <3>2 DEF Inv, PrintedInv
    <3> QED BY <1>3, <2>2, <3>2, <3>4, <3>5
  <2>5. CASE m = Msg("ok", 0) /\ OkSent
    <3>1. m.type = "ok"
      BY <2>5 DEF Msg
    <3>2. printed' = printed /\ cexit' = "detached"
      BY <1>1, <3>1
    <3>3. ExitInv'
      BY <2>1, <2>5, <3>2 DEF ExitInv
    <3>4. PrintedInv'
      BY <1>1, <3>2 DEF Inv, PrintedInv
    <3> QED BY <1>3, <2>2, <3>2, <3>3, <3>4
  <2> QED BY <1>4, <1>5, <2>3, <2>4, <2>5 DEF DownMsg
<1>7. DownInv'
  <2>1. OkSent' = OkSent /\ \A i \in 1..Len(ms) : DownMsg(ms, i)' = DownMsg(ms, i)
    BY <1>1 DEF OkSent, DownMsg
  <2>2. DownRel(ms, g + 1, 0)'
    <3>1. Stands(cgot', ccut', 0)
      BY <1>1 DEF Stands
    <3> QED BY <1>1, <1>2, <1>4, <1>6, <2>1, <3>1 DEF DownRel
  <2>3. g + 1 \in Nat /\ 0 \in 0..1
    OBVIOUS
  <2> QED BY <2>2, <2>3 DEF DownInv
<1>8. InputInv' /\ Types'
  <2>1. Len(down') <= Buffer
    <3>1. Len(down') \in Nat /\ Buffer \in Nat
      BY <1>4, LenProperties, StreamAssumption
    <3> QED BY <1>3, <1>4, <3>1
  <2>2. cgot' \in Got
    BY <1>1 DEF Got
  <2> QED BY <1>1, <1>4, <1>6, <2>1, <2>2 DEF Inv, Types, InputInv
<1>9. UpInv'
  BY <1>1, UpFrame DEF Inv, Types
<1> QED BY <1>6, <1>7, <1>8, <1>9 DEF Inv

\* Bytes that are no length are read for one only after a read was dropped.
LEMMA GarbageIsCut ==
  ASSUME NEW ms \in Seq(Messages), NEW s \in Seq(Pieces), NEW w \in Seq(Pieces),
         NEW g \in Nat, NEW h \in 0..1, NEW got, NEW cut,
         Wire(ms, s \o w, g, h), Stands(got, cut, h), Garbage(s, got)
  PROVE  cut # FALSE
<1>1. s # <<>> /\ (got = "astray" \/ (got = "nothing" /\ Head(s).part = "body"))
  BY DEF Garbage
<1>2. CASE got = "astray"
  BY <1>2 DEF Stands
<1>3. CASE got = "nothing" /\ Head(s).part = "body"
  <2>1. s \o w \in Seq(Pieces) /\ s \o w # <<>> /\ Head(s \o w) = Head(s)
    BY <1>1, TailOfConcat, ConcatProperties
  <2> DEFINE q == s \o w
  <2>2. q \in Seq(Pieces) /\ q # <<>> /\ Wire(ms, q, g, h) /\ Head(q).part = "body"
    BY <1>3, <2>1
  <2> HIDE DEF q
  <2>3. h = 1
    BY <2>2, WireHead
  <2> QED BY <1>3, <2>3 DEF Stands
<1> QED BY <1>1, <1>2, <1>3

\* The client takes the length of a frame and waits for its body.
LEMMA CReadBeginsStep ==
  ASSUME Inv, CReadBegins
  PROVE  Inv'
<1>1. /\ Begun(down, cgot) /\ down' = <<>> /\ cgot' = "length"
      /\ UNCHANGED <<typed, asked, outgoing, made, ended, taken, events, up, cexit, cwrite, ccut, printed>>
      /\ UNCHANGED <<dstate, dwrite, dgot, dcut, key, input>>
  BY DEF CReadBegins, user, agent, daemon
<1>2. PICK ms \in Seq(Messages), g \in Nat, h \in 0..1 : DownRel(ms, g, h)
  BY DEF Inv, DownInv
<1>3. down \in Seq(Pieces) /\ dwrite \in Seq(Pieces) /\ cgot \in Got
  BY DEF Inv, Types
<1>4. Wire(ms, down' \o dwrite, g, 1)
  <2>1. Wire(ms, down \o dwrite, g, h)
    BY <1>2 DEF DownRel
  <2>2. Wire(ms, <<>> \o dwrite, g, 1)
    BY <1>1, <1>3, <2>1, ReadHalf
  <2> QED BY <1>1, <2>2
<1>5. DownInv'
  <2>1. OkSent' = OkSent /\ \A i \in 1..Len(ms) : DownMsg(ms, i)' = DownMsg(ms, i)
    BY <1>1 DEF OkSent, DownMsg
  <2>2. DownRel(ms, g, 1)'
    <3>1. Stands(cgot', ccut', 1)
      BY <1>1, <1>2 DEF DownRel, Stands
    <3> QED BY <1>1, <1>2, <1>4, <2>1, <3>1 DEF DownRel
  <2> QED BY <2>2 DEF DownInv
<1>6. Types' /\ InputInv' /\ PrintedInv' /\ ExitInv'
  <2>1. down' \in Seq(Pieces) /\ Len(down') <= Buffer
    BY <1>1, EmptySeq, StreamAssumption
  <2>2. cgot' \in Got
    BY <1>1 DEF Got
  <2> QED BY <1>1, <2>1, <2>2 DEF Inv, Types, InputInv, PrintedInv, ExitInv, OkSent
<1>7. UpInv'
  BY <1>1, UpFrame DEF Inv, Types
<1> QED BY <1>5, <1>6, <1>7 DEF Inv

\* The client takes what is there for a length, and goes astray.
LEMMA CReadStraysStep ==
  ASSUME Inv, CReadStrays
  PROVE  Inv'
<1>1. /\ Garbage(down, cgot) /\ down' = <<>> /\ cgot' = "astray"
      /\ UNCHANGED <<typed, asked, outgoing, made, ended, taken, events, up, cexit, cwrite, ccut, printed>>
      /\ UNCHANGED <<dstate, dwrite, dgot, dcut, key, input>>
  BY DEF CReadStrays, user, agent, daemon
<1>2. PICK ms \in Seq(Messages), g \in Nat, h \in 0..1 : DownRel(ms, g, h)
  BY DEF Inv, DownInv
<1>3. down \in Seq(Pieces) /\ dwrite \in Seq(Pieces) /\ printed \in Seq(Nat) /\ ccut \in BOOLEAN
  BY DEF Inv, Types
<1>4. PICK gg \in Nat, hh \in 0..1 : g <= gg /\ Wire(ms, <<>> \o dwrite, gg, hh)
  <2>1. Wire(ms, down \o dwrite, g, h)
    BY <1>2 DEF DownRel
  <2> QED BY <1>3, <2>1, ReadAway
<1>5. ccut # FALSE
  <2>1. Wire(ms, down \o dwrite, g, h) /\ Stands(cgot, ccut, h)
    BY <1>2 DEF DownRel
  <2> QED BY <1>1, <1>3, <2>1, GarbageIsCut
<1>6. DownInv'
  <2>1. OkSent' = OkSent /\ \A i \in 1..Len(ms) : DownMsg(ms, i)' = DownMsg(ms, i)
    BY <1>1 DEF OkSent, DownMsg
  <2>2. Stands(cgot', ccut', hh)
    BY <1>1, <1>5 DEF Stands
  <2>3. \A k \in 1..Len(printed) : printed[k] <= gg
    <3>1. ASSUME NEW k \in 1..Len(printed) PROVE printed[k] <= gg
      <4>1. printed[k] \in Nat /\ printed[k] <= g
        BY <1>2, <1>3, ElementOfSeq DEF DownRel
      <4> QED BY <1>4, <4>1
    <3> QED BY <3>1
  <2>4. DownRel(ms, gg, hh)'
    BY <1>1, <1>2, <1>4, <1>5, <2>1, <2>2, <2>3 DEF DownRel
  <2> QED BY <2>4 DEF DownInv
<1>7. Types' /\ InputInv' /\ PrintedInv' /\ ExitInv'
  <2>1. down' \in Seq(Pieces) /\ Len(down') <= Buffer
    BY <1>1, EmptySeq, StreamAssumption
  <2>2. cgot' \in Got
    BY <1>1 DEF Got
  <2> QED BY <1>1, <2>1, <2>2 DEF Inv, Types, InputInv, PrintedInv, ExitInv, OkSent
<1>8. UpInv'
  BY <1>1, UpFrame DEF Inv, Types
<1> QED BY <1>6, <1>7, <1>8 DEF Inv

-----------------------------------------------------------------------------
(* The handler. *)

\* The handler takes an event of its session, to be written to the client.
LEMMA DTakeStep ==
  ASSUME Inv, DTake
  PROVE  Inv'
<1> DEFINE m == Head(events)
<1>1. /\ dwrite = <<>> /\ events # <<>> /\ dwrite' = Frame(m) /\ events' = Tail(events)
      /\ dgot' = "nothing" /\ dcut' = (dcut \/ dgot # "nothing") /\ dstate = "select"
      /\ dstate' = IF m.type = "ended" THEN "last" ELSE dstate
      /\ UNCHANGED <<typed, asked, outgoing, made, ended, taken, up, down, cexit, cwrite, cgot, ccut, printed>>
      /\ UNCHANGED <<key, input>>
  BY DEF DTake, DSelect, user, agent, client
<1>2. /\ m \in Messages /\ events' \in Seq(Messages) /\ Len(events') = Len(events) - 1
      /\ Len(events) \in Nat \ {0} /\ m = events[1]
      /\ \A k \in 1..(Len(events) - 1) : events'[k] = events[k + 1]
  BY <1>1, EmptySeq, HeadTailProperties DEF Inv, Types
<1> HIDE DEF m
<1>3. dwrite' \in Seq(Pieces)
  BY <1>1, <1>2, FrameProperties
<1>4. ~OkSent /\ dstate' \in {"select", "last"}
  BY <1>1 DEF OkSent
<1>5. Types' /\ InputInv' /\ PrintedInv' /\ ExitInv'
  <2>1. dgot' \in Got /\ dcut' \in BOOLEAN
    BY <1>1 DEF Got
  <2>2. Types'
    BY <1>1, <1>2, <1>3, <1>4, <2>1 DEF Inv, Types
  <2>3. Counted(input, typed, dcut')
    <3>1. dcut' = FALSE => dcut = FALSE
      BY <1>1 DEF Inv, Types
    <3>2. typed \in Nat /\ typed <= typed /\ input \in Seq(Nat)
      BY DEF Inv, Types
    <3> QED BY <3>1, <3>2, CountedStays DEF Inv, InputInv
  <2>4. InputInv'
    BY <1>1, <2>3 DEF InputInv
  <2> QED BY <1>1, <1>4, <2>2, <2>4 DEF Inv, PrintedInv, ExitInv
<1>6. UpInv'
  <2>1. Dropped(dgot', dcut', dgot, dcut)
    BY <1>1, DropIs DEF Inv, Types
  <2> QED BY <1>1, <1>4, <2>1, UpFrame DEF Inv, Types
<1>7. DownInv'
  <2>1. PICK ms \in Seq(Messages), g \in Nat, h \in 0..1 : DownRel(ms, g, h)
    BY DEF Inv, DownInv
  <2>2. PICK mm \in Seq(Messages) : mm = Append(ms, m)
    BY <1>2, AppendProperties
  <2>3. /\ Len(mm) = Len(ms) + 1 /\ mm[Len(ms) + 1] = m
        /\ \A i \in 1..Len(ms) : mm[i] = ms[i]
        /\ Len(ms) \in Nat /\ made \in Nat
    BY <1>2, <2>2, AppendProperties, LenProperties DEF Inv, Types
  <2>4. Wire(mm, down' \o dwrite', g, h)
    <3>1. down \in Seq(Pieces) /\ down \o <<>> = down
      BY ConcatEmptySeq DEF Inv, Types
    <3>2. Wire(ms, down, g, h)
      BY <1>1, <2>1, <3>1 DEF DownRel
    <3> QED BY <1>1, <1>2, <2>2, <3>1, <3>2, WireTake
  <2>5. /\ Len(ms) + Len(events) = made + Bit(ended)
        /\ \A k \in 1..Len(events) :
             events[k] = IF Len(ms) + k <= made THEN Msg("stdout", Len(ms) + k) ELSE Msg("ended", 0)
        /\ \A i \in 1..Len(ms) : ms[i] = Msg("stdout", i) /\ i <= made
    BY <1>1, <1>4, <2>1 DEF DownRel, DownMsg
  <2>6. \/ m = Msg("stdout", Len(ms) + 1) /\ Len(ms) + 1 <= made
        \/ m = Msg("ended", 0) /\ Len(ms) = made /\ ended = TRUE
    <3>1. 1 \in 1..Len(events)
      BY <1>2
    <3>2. CASE Len(ms) + 1 <= made
      BY <1>2, <2>5, <3>1, <3>2
    <3>3. CASE ~(Len(ms) + 1 <= made)
      <4>1. m = Msg("ended", 0)
        BY <1>2, <2>5, <3>1, <3>3
      <4>2. Bit(ended) # 0
        <5>1. Len(ms) + Len(events) = made + Bit(ended) /\ (Bit(ended) = 0 \/ Bit(ended) = 1)
          BY <2>5 DEF Bit
        <5> QED BY <1>2, <2>3, <3>3, <5>1
      <4>3. Bit(ended) = 1 /\ ended = TRUE
        BY <4>2 DEF Bit
      <4>4. Len(ms) = made
        BY <1>2, <2>3, <2>5, <3>3, <4>3
      <4> QED BY <4>1, <4>3, <4>4
    <3> QED BY <3>2, <3>3
  <2>7. ASSUME NEW i \in 1..Len(mm) PROVE DownMsg(mm, i)'
    <3>1. i \in 1..Len(ms) \/ i = Len(ms) + 1
      BY <2>3
    <3>2. CASE i \in 1..Len(ms)
      <4>1. mm[i] = Msg("stdout", i) /\ i <= made'
        BY <1>1, <2>3, <2>5, <3>2
      <4> QED BY <4>1 DEF DownMsg
    <3>3. CASE i = Len(ms) + 1 /\ m = Msg("stdout", Len(ms) + 1) /\ Len(ms) + 1 <= made
      <4>1. mm[i] = Msg("stdout", i) /\ i <= made'
        BY <1>1, <2>3, <3>3
      <4> QED BY <4>1 DEF DownMsg
    <3>4. CASE i = Len(ms) + 1 /\ m = Msg("ended", 0) /\ Len(ms) = made /\ ended = TRUE
      <4>1. dstate' = "last"
        BY <1>1, <3>4 DEF Msg
      <4>2. mm[i] = Msg("ended", 0) /\ i = made' + 1 /\ i = Len(mm) /\ ended' = TRUE
        BY <1>1, <2>3, <3>4
      <4> QED BY <4>1, <4>2 DEF DownMsg
    <3> QED BY <2>6, <3>1, <3>2, <3>3, <3>4
  <2>8. ASSUME NEW k \in 1..Len(events')
        PROVE  events'[k] = IF Len(mm) + k <= made' THEN Msg("stdout", Len(mm) + k) ELSE Msg("ended", 0)
    <3>1. k + 1 \in 1..Len(events) /\ Len(mm) + k = Len(ms) + (k + 1) /\ events'[k] = events[k + 1]
      BY <1>2, <2>3
    <3> QED BY <1>1, <2>5, <3>1
  <2>9. Len(mm) + Len(events') = made' + Bit(ended')
    <3>1. Len(mm) + Len(events') = Len(ms) + Len(events)
      BY <1>2, <2>3
    <3> QED BY <1>1, <2>5, <3>1
  <2>10. DownRel(mm, g, h)'
    BY <1>1, <2>1, <2>4, <2>7, <2>8, <2>9 DEF DownRel
  <2> QED BY <2>10 DEF DownInv
<1> QED BY <1>5, <1>6, <1>7 DEF Inv

\* The handler writes what the socket has room for.
LEMMA DWriteStep ==
  ASSUME Inv, DWrite
  PROVE  Inv'
<1>1. /\ dwrite # <<>> /\ Room(down, dwrite) /\ down' = down \o Now(dwrite) /\ dwrite' = Later(dwrite)
      /\ dstate' = dstate \/ dstate' = "over"
      /\ UNCHANGED <<typed, asked, outgoing, made, ended, taken, events, up, cexit, cwrite, cgot, ccut, printed>>
      /\ UNCHANGED <<dgot, dcut, key, input>>
  BY DEF DWrite, user, agent, client
<1>2. down \in Seq(Pieces) /\ dwrite \in Seq(Pieces)
  BY DEF Inv, Types
<1>3. /\ Now(dwrite) \in Seq(Pieces) /\ dwrite' \in Seq(Pieces)
      /\ down' \o dwrite' = down \o dwrite /\ Len(down') = Len(down) + Len(Now(dwrite))
  BY <1>1, <1>2, NowAndLater
<1>4. down' \in Seq(Pieces) /\ Len(down') <= Buffer
  BY <1>1, <1>2, <1>3, ConcatProperties DEF Room
<1>5. OkSent => OkSent'
  BY <1>1, OkSentStable DEF Inv
<1>6. Types' /\ InputInv' /\ PrintedInv' /\ ExitInv'
  BY <1>1, <1>3, <1>4, <1>5 DEF Inv, Types, InputInv, PrintedInv, ExitInv
<1>7. UpInv'
  BY <1>1, UpFrame DEF Inv, Types
<1>8. DownInv'
  <2>1. PICK ms \in Seq(Messages), g \in Nat, h \in 0..1 : DownRel(ms, g, h)
    BY DEF Inv, DownInv
  <2>2. \A i \in 1..Len(ms) : DownMsg(ms, i)'
    BY <1>1, <1>5, <2>1 DEF DownRel, DownMsg
  <2>3. DownRel(ms, g, h)'
    BY <1>1, <1>3, <2>1, <2>2 DEF DownRel
  <2> QED BY <2>3 DEF DownInv
<1> QED BY <1>6, <1>7, <1>8 DEF Inv

\* The connection is lost to the handler.
LEMMA HandlerGone ==
  ASSUME Inv, DWriteFails \/ DReadFails
  PROVE  Inv'
<1>1. /\ dstate' = "over"
      /\ UNCHANGED <<typed, asked, outgoing, made, ended, taken, events, up, down, cexit, cwrite, cgot, ccut, printed>>
      /\ UNCHANGED <<dwrite, dgot, dcut, key, input>>
  BY DEF DWriteFails, DReadFails, user, agent, client
<1>2. OkSent => OkSent'
  BY <1>1, OkSentStable DEF Inv
<1>3. Types' /\ InputInv' /\ PrintedInv' /\ ExitInv'
  BY <1>1, <1>2 DEF Inv, Types, InputInv, PrintedInv, ExitInv
<1>4. UpInv' /\ DownInv'
  BY <1>1, <1>2, UpFrame, DownFrame DEF Inv, Types
<1> QED BY <1>3, <1>4 DEF Inv

\* A whole frame: a keystroke for the terminal, or the detach key.
LEMMA DReadStep ==
  ASSUME Inv, DRead
  PROVE  Inv'
<1> DEFINE m == Head(up).msg
<1>1. /\ dstate = "select" /\ dwrite = <<>> /\ Whole(up, dgot) /\ up' = Rest(up, dgot) /\ dgot' = "nothing"
      /\ events = <<>>
      /\ IF m.type = "stdin"
           THEN dstate' = "terminal" /\ key' = m.n /\ UNCHANGED dwrite
           ELSE dstate' = "last" /\ dwrite' = Frame(Msg("ok", 0)) /\ UNCHANGED key
      /\ UNCHANGED <<typed, asked, outgoing, made, ended, taken, events, down, cexit, cwrite, cgot, ccut, printed>>
      /\ UNCHANGED <<dcut, input>>
  BY DEF DRead, DSelect, user, agent, client
<1>2. PICK ms \in Seq(Messages), g \in Nat, h \in 0..1 : UpRel(ms, g, h)
  BY DEF Inv, UpInv
<1>3. /\ up \in Seq(Pieces) /\ cwrite \in Seq(Pieces) /\ dgot \in Got /\ Len(up) <= Buffer
      /\ typed \in Nat /\ typed <= MaxKeys /\ Len(up) \in Nat /\ Len(ms) \in Nat
      /\ input \in Seq(Nat) /\ Len(input) \in Nat
  BY LenProperties, StreamAssumption DEF Inv, Types
<1>4. /\ g + 1 \in 1..Len(ms) /\ m = ms[g + 1]
      /\ up' \in Seq(Pieces) /\ Len(up') <= Len(up)
      /\ Wire(ms, up' \o cwrite, g + 1, 0)
  <2>1. Wire(ms, up \o cwrite, g, h) /\ (dgot = "length" => h = 1)
    BY <1>2 DEF UpRel, Stands
  <2> HIDE DEF m
  <2>2. /\ g + 1 \in 1..Len(ms) /\ Head(up).msg = ms[g + 1]
        /\ Rest(up, dgot) \in Seq(Pieces) /\ Len(Rest(up, dgot)) <= Len(up)
        /\ Wire(ms, Rest(up, dgot) \o cwrite, g + 1, 0)
    <3>1. /\ Whole(up, dgot) /\ Wire(ms, up \o cwrite, g, h) /\ (dgot = "length" => h = 1)
          /\ up \in Seq(Pieces) /\ cwrite \in Seq(Pieces) /\ dgot \in Got
      BY <1>1, <1>3, <2>1
    <3> QED BY <3>1, ReadWhole
  <2> QED BY <1>1, <2>2 DEF m
<1>5. Len(up') <= Buffer
  <2>1. Len(up') \in Nat /\ Buffer \in Nat
    BY <1>4, LenProperties, StreamAssumption
  <2> QED BY <1>3, <1>4, <2>1
<1> HIDE DEF m
<1>6. /\ m = UpMsg(g + 1) /\ ~OkSent /\ (ended = FALSE /\ dcut = FALSE => Len(input) = g)
      /\ \A k \in 1..Len(input) : input[k] <= g
  BY <1>1, <1>2, <1>4 DEF UpRel, OkSent
<1>7. g + 1 \in Nat /\ 0 \in 0..1
  OBVIOUS
<1>8. \A i : UpMsg(i)' = UpMsg(i)
  BY <1>1 DEF UpMsg
<1>a. /\ Stands(dgot', dcut', 0) /\ dgot' \in Got
      /\ \A k \in 1..Len(input) : input[k] < g + 1 /\ input[k] <= g + 1
  <2>1. ASSUME NEW k \in 1..Len(input) PROVE input[k] < g + 1 /\ input[k] <= g + 1
    <3>1. input[k] \in Nat /\ input[k] <= g
      BY <1>3, <1>6, ElementOfSeq
    <3> QED BY <3>1
  <2> QED BY <1>1, <2>1 DEF Stands, Got
<1>9. CASE m.type = "stdin"
  <2>1. g + 1 <= typed /\ m.n = g + 1
    BY <1>6, <1>9 DEF UpMsg, Msg
  <2>2. dstate' = "terminal" /\ key' = g + 1 /\ dwrite' = dwrite
    BY <1>1, <1>9, <2>1
  <2>3. UpInv'
    <3>1. ended' = FALSE /\ dcut' = FALSE => Len(input') = (g + 1) - 1
      BY <1>1, <1>6
    <3>2. UpRel(ms, g + 1, 0)'
      BY <1>1, <1>2, <1>4, <1>8, <1>a, <2>1, <2>2, <3>1 DEF UpRel
    <3> QED BY <1>7, <3>2 DEF UpInv
  <2>4. DownInv'
    BY <1>1, <1>6, <2>2, DownFrame DEF Inv
  <2>5. Types' /\ InputInv' /\ PrintedInv' /\ ExitInv'
    <3>1. key' \in 0..MaxKeys
      BY <1>3, <2>1, <2>2, StreamAssumption
    <3> QED BY <1>1, <1>4, <1>5, <1>6, <1>a, <2>2, <3>1 DEF Inv, Types, InputInv, PrintedInv, ExitInv
  <2> QED BY <2>3, <2>4, <2>5 DEF Inv
<1>10. CASE m.type # "stdin"
  <2>1. ~(g + 1 <= typed)
    BY <1>6, <1>10 DEF UpMsg, Msg
  <2>2. dstate' = "last" /\ key' = key /\ dwrite' = Frame(Msg("ok", 0))
    BY <1>1, <1>10
  <2>3. asked = TRUE /\ g = typed
    <3>1. Len(ms) + Len(outgoing) = typed + Bit(asked) /\ Len(outgoing) \in Nat
      BY <1>2, LenProperties DEF UpRel, Inv, Types
    <3>2. Bit(asked) = 0 \/ (Bit(asked) = 1 /\ asked = TRUE)
      BY DEF Bit
    <3>3. Bit(asked) = 1 /\ asked = TRUE
      BY <1>3, <1>4, <2>1, <3>1, <3>2
    <3> QED BY <1>3, <1>4, <2>1, <3>1, <3>3
  <2>4. OkSent'
    BY <1>1, <1>6, <2>2, <2>3 DEF OkSent
  <2>5. UpInv'
    <3>1. UpRel(ms, g + 1, 0)'
      BY <1>1, <1>2, <1>4, <1>8, <1>a, <2>2 DEF UpRel
    <3> QED BY <1>7, <3>1 DEF UpInv
  <2>6. Msg("ok", 0) \in Messages
    BY MessageTypes
  <2>7. DownInv'
    <3>1. PICK ns \in Seq(Messages), d \in Nat, e \in 0..1 : DownRel(ns, d, e)
      BY DEF Inv, DownInv
    <3>2. PICK nn \in Seq(Messages) : nn = Append(ns, Msg("ok", 0))
      BY <2>6, AppendProperties
    <3>3. /\ Len(nn) = Len(ns) + 1 /\ nn[Len(ns) + 1] = Msg("ok", 0)
          /\ \A i \in 1..Len(ns) : nn[i] = ns[i]
          /\ Len(ns) \in Nat
      BY <2>6, <3>2, AppendProperties, LenProperties
    <3>4. Wire(nn, down' \o dwrite', d, e)
      <4>1. down \in Seq(Pieces) /\ down \o <<>> = down
        BY ConcatEmptySeq DEF Inv, Types
      <4>2. Wire(ns, down, d, e)
        BY <1>1, <3>1, <4>1 DEF DownRel
      <4> QED BY <1>1, <2>2, <2>6, <3>2, <4>1, <4>2, WireTake
    <3>5. \A i \in 1..Len(ns) : ns[i] = Msg("stdout", i) /\ i <= made
      BY <1>1, <1>6, <3>1 DEF DownRel, DownMsg
    <3>6. ASSUME NEW i \in 1..Len(nn) PROVE DownMsg(nn, i)'
      <4>1. CASE i \in 1..Len(ns)
        BY <1>1, <3>3, <3>5, <4>1 DEF DownMsg
      <4>2. CASE i = Len(ns) + 1
        BY <2>4, <3>3, <4>2 DEF DownMsg
      <4> QED BY <3>3, <4>1, <4>2
    <3>7. DownRel(nn, d, e)'
      BY <1>1, <2>2, <3>1, <3>4, <3>6 DEF DownRel
    <3> QED BY <3>7 DEF DownInv
  <2>8. dwrite' \in Seq(Pieces)
    BY <2>2, <2>6, FrameProperties
  <2>9. Types' /\ InputInv' /\ PrintedInv' /\ ExitInv'
    BY <1>1, <1>4, <1>5, <1>6, <1>a, <2>2, <2>8 DEF Inv, Types, InputInv, PrintedInv, ExitInv
  <2> QED BY <2>5, <2>7, <2>9 DEF Inv
<1> QED BY <1>9, <1>10

\* The handler takes the length of a frame and waits for its body.
LEMMA DReadBeginsStep ==
  ASSUME Inv, DReadBegins
  PROVE  Inv'
<1>1. /\ Begun(up, dgot) /\ up' = <<>> /\ dgot' = "length"
      /\ UNCHANGED <<typed, asked, outgoing, made, ended, taken, events, down, cexit, cwrite, cgot, ccut, printed>>
      /\ UNCHANGED <<dstate, dwrite, dcut, key, input>>
  BY DEF DReadBegins, user, agent, client
<1>2. PICK ms \in Seq(Messages), g \in Nat, h \in 0..1 : UpRel(ms, g, h)
  BY DEF Inv, UpInv
<1>3. up \in Seq(Pieces) /\ cwrite \in Seq(Pieces) /\ dgot \in Got
  BY DEF Inv, Types
<1>4. Wire(ms, up' \o cwrite, g, 1)
  <2>1. Wire(ms, up \o cwrite, g, h)
    BY <1>2 DEF UpRel
  <2>2. Wire(ms, <<>> \o cwrite, g, 1)
    BY <1>1, <1>3, <2>1, ReadHalf
  <2> QED BY <1>1, <2>2
<1>5. UpInv'
  <2>1. \A i : UpMsg(i)' = UpMsg(i)
    BY <1>1 DEF UpMsg
  <2>2. UpRel(ms, g, 1)'
    <3>1. Stands(dgot', dcut', 1)
      BY <1>1, <1>2 DEF UpRel, Stands
    <3> QED BY <1>1, <1>2, <1>4, <2>1, <3>1 DEF UpRel
  <2> QED BY <2>2 DEF UpInv
<1>6. Types' /\ InputInv' /\ PrintedInv' /\ ExitInv' /\ (OkSent => OkSent')
  <2>1. up' \in Seq(Pieces) /\ Len(up') <= Buffer
    BY <1>1, EmptySeq, StreamAssumption
  <2>2. dgot' \in Got
    BY <1>1 DEF Got
  <2> QED BY <1>1, <2>1, <2>2 DEF Inv, Types, InputInv, PrintedInv, ExitInv, OkSent
<1>7. DownInv'
  BY <1>1, <1>6, DownFrame DEF Inv
<1> QED BY <1>5, <1>6, <1>7 DEF Inv

\* The handler takes what is there for a length, and goes astray.
LEMMA DReadStraysStep ==
  ASSUME Inv, DReadStrays
  PROVE  Inv'
<1>1. /\ Garbage(up, dgot) /\ up' = <<>> /\ dgot' = "astray" /\ dstate = "select"
      /\ UNCHANGED <<typed, asked, outgoing, made, ended, taken, events, down, cexit, cwrite, cgot, ccut, printed>>
      /\ UNCHANGED <<dstate, dwrite, dcut, key, input>>
  BY DEF DReadStrays, DSelect, user, agent, client
<1>2. PICK ms \in Seq(Messages), g \in Nat, h \in 0..1 : UpRel(ms, g, h)
  BY DEF Inv, UpInv
<1>3. up \in Seq(Pieces) /\ cwrite \in Seq(Pieces) /\ input \in Seq(Nat) /\ dcut \in BOOLEAN
  BY DEF Inv, Types
<1>4. PICK gg \in Nat, hh \in 0..1 : g <= gg /\ Wire(ms, <<>> \o cwrite, gg, hh)
  <2>1. Wire(ms, up \o cwrite, g, h)
    BY <1>2 DEF UpRel
  <2> QED BY <1>3, <2>1, ReadAway
<1>5. dcut # FALSE
  <2>1. Wire(ms, up \o cwrite, g, h) /\ Stands(dgot, dcut, h)
    BY <1>2 DEF UpRel
  <2> QED BY <1>1, <1>3, <2>1, GarbageIsCut
<1>6. UpInv'
  <2>1. \A i : UpMsg(i)' = UpMsg(i)
    BY <1>1 DEF UpMsg
  <2>2. Stands(dgot', dcut', hh)
    BY <1>1, <1>5 DEF Stands
  <2>3. \A k \in 1..Len(input) : input[k] <= gg
    <3>1. ASSUME NEW k \in 1..Len(input) PROVE input[k] <= gg
      <4>1. input[k] \in Nat /\ input[k] <= g
        BY <1>2, <1>3, ElementOfSeq DEF UpRel
      <4> QED BY <1>4, <4>1
    <3> QED BY <3>1
  <2>4. UpRel(ms, gg, hh)'
    BY <1>1, <1>2, <1>4, <1>5, <2>1, <2>2, <2>3 DEF UpRel
  <2> QED BY <2>4 DEF UpInv
<1>7. Types' /\ InputInv' /\ PrintedInv' /\ ExitInv' /\ (OkSent => OkSent')
  <2>1. up' \in Seq(Pieces) /\ Len(up') <= Buffer
    BY <1>1, EmptySeq, StreamAssumption
  <2>2. dgot' \in Got
    BY <1>1 DEF Got
  <2> QED BY <1>1, <2>1, <2>2 DEF Inv, Types, InputInv, PrintedInv, ExitInv, OkSent
<1>8. DownInv'
  BY <1>1, <1>7, DownFrame DEF Inv
<1> QED BY <1>6, <1>7, <1>8 DEF Inv

\* The keystroke reaches the agent, if there still is one.
LEMMA WriteTerminalStep ==
  ASSUME Inv, WriteTerminal
  PROVE  Inv'
<1>1. /\ dstate = "terminal" /\ dstate' = "select"
      /\ input' = IF ended THEN input ELSE Append(input, key)
      /\ UNCHANGED <<typed, asked, outgoing, made, ended, taken, events, up, down, cexit, cwrite, cgot, ccut, printed>>
      /\ UNCHANGED <<dwrite, dgot, dcut, key>>
  BY DEF WriteTerminal, user, agent, client
<1>2. PICK ms \in Seq(Messages), g \in Nat, h \in 0..1 : UpRel(ms, g, h)
  BY DEF Inv, UpInv
<1>3. input \in Seq(Nat) /\ Len(input) \in Nat /\ typed \in Nat /\ ended \in BOOLEAN /\ ~OkSent
  BY <1>1, LenProperties DEF Inv, Types, OkSent
<1>4. /\ key = g /\ g \in 1..typed /\ (ended = FALSE /\ dcut = FALSE => Len(input) = g - 1)
      /\ \A k \in 1..Len(input) : input[k] < g /\ input[k] <= g
  BY <1>1, <1>2, <1>3 DEF UpRel
<1>5. /\ input' \in Seq(Nat) /\ InputInv' /\ Len(input) <= Len(input')
      /\ Len(input') \in Nat /\ (ended = FALSE /\ dcut = FALSE => Len(input') = g)
      /\ \A k \in 1..Len(input') : input'[k] <= g
  <2>1. CASE ended = TRUE
    <3>1. input' = input
      BY <1>1, <2>1
    <3> QED BY <1>1, <1>3, <1>4, <2>1, <3>1 DEF Inv, InputInv
  <2>2. CASE ended = FALSE
    <3>1. input' = Append(input, g)
      BY <1>1, <1>4, <2>2
    <3>2. Counted(input, typed, dcut) /\ (dcut = FALSE => Len(input) = g - 1)
      BY <1>4, <2>2 DEF Inv, InputInv
    <3>3. /\ Counted(Append(input, g), typed, dcut) /\ Append(input, g) \in Seq(Nat)
          /\ Len(Append(input, g)) = Len(input) + 1
          /\ \A k \in 1..Len(Append(input, g)) : Append(input, g)[k] <= g
      BY <1>3, <1>4, <3>2, CountedAppend
    <3>4. InputInv' /\ input' \in Seq(Nat) /\ Len(input') = Len(input) + 1
      BY <1>1, <3>1, <3>3 DEF InputInv
    <3>5. \A k \in 1..Len(input') : input'[k] <= g
      BY <3>1, <3>3
    <3>6. Len(input) <= Len(input') /\ Len(input') \in Nat /\ (dcut = FALSE => Len(input') = g)
      BY <1>3, <3>2, <3>4
    <3> QED BY <3>4, <3>5, <3>6
  <2> QED BY <1>3, <2>1, <2>2
<1>6. UpInv'
  <2>1. \A i : UpMsg(i)' = UpMsg(i)
    BY <1>1 DEF UpMsg
  <2>2. UpRel(ms, g, h)'
    BY <1>1, <1>2, <1>5, <2>1 DEF UpRel
  <2> QED BY <2>2 DEF UpInv
<1>7. DownInv'
  BY <1>1, <1>3, DownFrame DEF Inv
<1>8. Types' /\ PrintedInv' /\ ExitInv'
  <2>1. taken' \in 0..Len(input')
    <3>1. taken \in 0..Len(input)
      BY DEF Inv, Types
    <3> QED BY <1>1, <1>3, <1>5, <3>1
  <2> QED BY <1>1, <1>3, <1>5, <2>1 DEF Inv, Types, PrintedInv, ExitInv
<1> QED BY <1>5, <1>6, <1>7, <1>8 DEF Inv

\* Every step keeps the invariant.
LEMMA NextInv == Inv /\ [Next]_vars => Inv'
<1> SUFFICES ASSUME Inv, [Next]_vars PROVE Inv'
  OBVIOUS
<1>1. CASE Type \/ HitDetachKey \/ Produce \/ EndSession \/ ReadInput
  BY <1>1, TypeStep, HitDetachKeyStep, AgentSteps
<1>2. CASE ClientStep \/ CKilled
  BY <1>2, CTakeStep, CWriteStep, ClientGone, CReadStep, CReadBeginsStep, CReadStraysStep
     DEF ClientStep
<1>3. CASE HandlerStep
  BY <1>3, DTakeStep, DWriteStep, HandlerGone, DReadStep, DReadBeginsStep, DReadStraysStep,
         WriteTerminalStep
     DEF HandlerStep
<1>4. CASE UNCHANGED vars
  <2>1. /\ UNCHANGED <<typed, asked, outgoing, made, ended, taken, events, up, down, cexit, cwrite, cgot, ccut, printed>>
        /\ UNCHANGED <<dstate, dwrite, dgot, dcut, key, input>>
    BY <1>4 DEF vars, user, agent, client, daemon
  <2>2. Types' /\ InputInv' /\ PrintedInv' /\ ExitInv' /\ (OkSent => OkSent')
    BY <2>1 DEF Inv, Types, InputInv, PrintedInv, ExitInv, OkSent
  <2>3. UpInv' /\ DownInv'
    BY <2>1, <2>2, UpFrame, DownFrame DEF Inv, Types
  <2> QED BY <2>2, <2>3 DEF Inv
<1> QED BY <1>1, <1>2, <1>3, <1>4 DEF Next

-----------------------------------------------------------------------------
(* What the invariant implies. *)

\* The invariant gives the type invariant: the numbers are those of what was typed
\* and written so far.
LEMMA InvTypeOK == Inv => TypeOK
<1> SUFFICES ASSUME Inv PROVE TypeOK
  OBVIOUS
<1>1. input \in Seq(1..MaxKeys)
  <2>1. input \in Seq(Nat) /\ typed \in 0..MaxKeys /\ \A k \in 1..Len(input) : input[k] \in 1..typed
    BY DEF Inv, Types, InputInv, Counted, InOrder
  <2>2. Len(input) \in Nat /\ input \in [1..Len(input) -> Nat]
    BY <2>1, LenProperties
  <2>3. \A k \in 1..Len(input) : input[k] \in 1..MaxKeys
    BY <2>1, <2>2, StreamAssumption
  <2>4. input \in [1..Len(input) -> 1..MaxKeys]
    BY <2>2, <2>3
  <2> QED BY <2>2, <2>4, SeqDef
<1>2. printed \in Seq(1..MaxOutput)
  <2>1. printed \in Seq(Nat) /\ made \in 0..MaxOutput /\ \A k \in 1..Len(printed) : printed[k] \in 1..made
    BY DEF Inv, Types, PrintedInv, Counted, InOrder
  <2>2. Len(printed) \in Nat /\ printed \in [1..Len(printed) -> Nat]
    BY <2>1, LenProperties
  <2>3. \A k \in 1..Len(printed) : printed[k] \in 1..MaxOutput
    BY <2>1, <2>2, StreamAssumption
  <2>4. printed \in [1..Len(printed) -> 1..MaxOutput]
    BY <2>2, <2>3
  <2> QED BY <2>2, <2>4, SeqDef
<1> QED BY <1>1, <1>2 DEF Inv, Types, TypeOK

\* The invariant gives what the two directions promise.
LEMMA InvDelivered == Inv => KeysDelivered /\ OutputDelivered
<1> SUFFICES ASSUME Inv PROVE KeysDelivered /\ OutputDelivered
  OBVIOUS
<1>1. /\ input \in Seq(Nat) /\ printed \in Seq(Nat) /\ typed \in Nat /\ made \in Nat
      /\ ended \in BOOLEAN /\ ccut \in BOOLEAN /\ dcut \in BOOLEAN
  BY DEF Inv, Types
<1>2. InOrder(input, typed) /\ InOrder(printed, made)
  BY DEF Inv, InputInv, PrintedInv, Counted
<1>3. ASSUME dcut = FALSE
      PROVE  IsPrefix(input, Upto(typed)) /\ (Len(input) = typed => input = Upto(typed))
  <2>1. Len(input) <= typed /\ \A k \in 1..Len(input) : input[k] = k
    BY <1>3 DEF Inv, InputInv, Counted
  <2> QED BY <1>1, <2>1, UptoPrefix
<1>4. ASSUME ccut = FALSE
      PROVE  IsPrefix(printed, Upto(made)) /\ (Len(printed) = made => printed = Upto(made))
  <2>1. Len(printed) <= made /\ \A k \in 1..Len(printed) : printed[k] = k
    BY <1>4 DEF Inv, PrintedInv, Counted
  <2> QED BY <1>1, <2>1, UptoPrefix
<1>5. cexit = "ended" /\ ccut = FALSE => Len(printed) = made
  BY DEF Inv, ExitInv
<1>6. cexit = "detached" /\ ended = FALSE /\ dcut = FALSE => Len(input) = typed
  BY DEF Inv, ExitInv, OkSent
<1>7. KeysInOrder /\ OutputInOrder
  BY <1>1, <1>2, <1>3, <1>4 DEF KeysInOrder, OutputInOrder
<1>8. EndedPrintsAll /\ DetachedDelivers
  BY <1>1, <1>3, <1>4, <1>5, <1>6 DEF EndedPrintsAll, DetachedDelivers
<1> QED BY <1>7, <1>8 DEF KeysDelivered, OutputDelivered

\* The invariant always holds.
LEMMA Invariant == Spec => []Inv
BY InitInv, NextInv, PTL DEF Spec

\* The variables of the two loops keep their types: the sockets stay within
\* their size, whatever the writers of attach.rs and server.rs have to write.
THEOREM TypeCorrect == Spec => []TypeOK
BY Invariant, InvTypeOK, PTL

\* The agent is given keystrokes in the order they were typed and none twice; and
\* as long as its handler has not dropped a half-read frame, none is left out and a
\* client that left with the detach key while the session went on has had every
\* keystroke delivered (attach.rs, stdin_loop and stream_loop; server.rs,
\* handle_attach; protocol.rs, read_msg and write_msg).
THEOREM KeysAreDelivered == Spec => []KeysDelivered
BY Invariant, InvDelivered, PTL

\* The client prints output in the order it was written and none twice; and as
\* long as it has not dropped a half-read frame itself, without a gap, and all of it
\* before it reports that the session is over (server.rs, handle_attach; attach.rs,
\* stream_loop).
THEOREM OutputIsDelivered == Spec => []OutputDelivered
BY Invariant, InvDelivered, PTL

=============================================================================

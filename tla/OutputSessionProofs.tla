------------------------- MODULE OutputSessionProofs -------------------------
(***************************************************************************)
(* Proofs about OutputSession, for any number of clients, any sizes of the *)
(* ring and of the terminal's buffer, and any amount of output.            *)
(*                                                                         *)
(* The argument: at every place output passes through, what lies there is  *)
(* a run of consecutive bytes, and each place's run begins where the next  *)
(* one's ends.  The ring is Bytes(Oldest(pushed), pushed).  The channel of *)
(* chunks is a Chain from pushed to read: chunks that follow one another   *)
(* without a gap.  The channel of events of a listener is a Chain from the *)
(* end of what it was given to pushed, and what it was given is a run that *)
(* starts at From(c), where its backlog started.  When the task is gone,   *)
(* the last event is the end of the session, and pushed = written.  Inv    *)
(* says all that; one lemma per action shows that it is kept.  StreamSound *)
(* follows by flattening the chain, and the refinement of OutputFeed by    *)
(* reading each step off the same runs.                                    *)
(*                                                                         *)
(* Induction (over the bytes of a chunk, over the events of a chain) is    *)
(* done with sets: a set of naturals that holds 0 and is closed under the  *)
(* successor holds them all, which the library's well-foundedness of the   *)
(* strict subset ordering gives.                                           *)
(***************************************************************************)
EXTENDS OutputSession, Integers, TLAPS, FiniteSetTheorems, SequenceTheorems, WellFoundedInduction

-----------------------------------------------------------------------------
(* Induction over the naturals, as facts about sets: the library states it *)
(* of an operator.                                                         *)

\* A non-empty set of naturals has a least element.
LEMMA LeastElement ==
  ASSUME NEW S \in SUBSET Nat, S # {}
  PROVE  \E m \in S : \A k \in S : m <= k
<1> DEFINE T == {0..n : n \in S}
           R == StrictSubsetOrdering(Nat)
<1>1. IsWellFoundedOn(R, FiniteSubsetsOf(Nat))
  BY FS_StrictSubsetOrderingWellFounded
<1>2. T # {}
  OBVIOUS
<1>3. T \subseteq FiniteSubsetsOf(Nat)
  <2>1. SUFFICES ASSUME NEW n \in S PROVE 0..n \in FiniteSubsetsOf(Nat)
    OBVIOUS
  <2>2. IsFiniteSet(0..n)
    BY FS_Interval
  <2> QED BY <2>2 DEF FiniteSubsetsOf
<1>4. PICK x \in T : \A y \in T : <<y, x>> \notin R
  <2> HIDE DEF T, R
  <2> QED BY <1>1, <1>2, <1>3, WFMin
<1>5. PICK m \in S : x = 0..m
  OBVIOUS
<1>6. ASSUME NEW k \in S, k < m PROVE FALSE
  <2>1. 0..k \in T /\ 0..k \in SUBSET Nat /\ 0..m \in SUBSET Nat
    OBVIOUS
  <2>2. 0..k \subseteq 0..m /\ m \in 0..m /\ m \notin 0..k
    BY <1>6
  <2>3. <<0..k, 0..m>> \in R
    BY <2>1, <2>2 DEF StrictSubsetOrdering
  <2> QED BY <2>1, <2>3, <1>4, <1>5
<1> QED BY <1>6

\* What holds of 0 and is passed on from each number to the next holds of all.
LEMMA SetInduction ==
  ASSUME NEW S, 0 \in S, \A n \in Nat : n \in S => n + 1 \in S
  PROVE  Nat \subseteq S
<1>1. SUFFICES ASSUME NEW m \in Nat, m \notin S PROVE FALSE
  OBVIOUS
<1> DEFINE T == {n \in Nat : n \notin S}
<1>2. T # {} /\ T \in SUBSET Nat
  BY <1>1
<1>3. PICK n \in T : \A k \in T : n <= k
  <2> HIDE DEF T
  <2> QED BY <1>2, LeastElement
<1>4. n # 0
  OBVIOUS
<1>5. n - 1 \in Nat /\ n - 1 \in S
  BY <1>3, <1>4
<1> QED BY <1>5

-----------------------------------------------------------------------------
(* Runs of bytes. *)

\* The length, the elements and the emptiness of a run.
LEMMA BytesProperties ==
  ASSUME NEW lo \in Nat, NEW hi \in Nat, lo <= hi
  PROVE  /\ Bytes(lo, hi) \in Seq(Nat)
         /\ Len(Bytes(lo, hi)) = hi - lo
         /\ DOMAIN Bytes(lo, hi) = 1..(hi - lo)
         /\ \A k \in 1..(hi - lo) : Bytes(lo, hi)[k] = lo + k
         /\ Bytes(lo, hi) = <<>> <=> lo = hi
<1>1. Bytes(lo, hi) \in Seq(Nat) /\ Len(Bytes(lo, hi)) = hi - lo
  BY DEF Bytes
<1>2. DOMAIN Bytes(lo, hi) = 1..(hi - lo) /\ \A k \in 1..(hi - lo) : Bytes(lo, hi)[k] = lo + k
  BY DEF Bytes
<1>3. Bytes(lo, hi) = <<>> <=> lo = hi
  BY <1>1, EmptySeq
<1> QED BY <1>1, <1>2, <1>3

\* A sequence with the length and the elements of a run is the run.
LEMMA BytesEqual ==
  ASSUME NEW lo \in Nat, NEW hi \in Nat, lo <= hi,
         NEW s \in Seq(Nat), Len(s) = hi - lo, \A k \in 1..(hi - lo) : s[k] = lo + k
  PROVE  s = Bytes(lo, hi)
<1> DEFINE t == Bytes(lo, hi)
<1>1. t \in Seq(Nat) /\ Len(t) = hi - lo /\ \A k \in 1..(hi - lo) : t[k] = lo + k
  BY BytesProperties
<1> HIDE DEF t
<1>2. Len(s) = Len(t) /\ \A k \in 1..Len(s) : s[k] = t[k]
  BY <1>1
<1>3. s = t
  BY <1>1, <1>2, SeqEqual
<1> QED BY <1>3 DEF t

\* Two runs that meet are one (what a client sees of two output events).
LEMMA BytesConcat ==
  ASSUME NEW lo \in Nat, NEW mid \in Nat, NEW hi \in Nat, lo <= mid, mid <= hi
  PROVE  Bytes(lo, mid) \o Bytes(mid, hi) = Bytes(lo, hi)
<1> DEFINE s == Bytes(lo, mid)
           t == Bytes(mid, hi)
<1>1. /\ s \in Seq(Nat) /\ Len(s) = mid - lo /\ \A k \in 1..(mid - lo) : s[k] = lo + k
      /\ t \in Seq(Nat) /\ Len(t) = hi - mid /\ \A k \in 1..(hi - mid) : t[k] = mid + k
  BY BytesProperties
<1> HIDE DEF s, t
<1>2. /\ s \o t \in Seq(Nat) /\ Len(s \o t) = Len(s) + Len(t)
      /\ \A i \in 1..(Len(s) + Len(t)) : (s \o t)[i] = IF i <= Len(s) THEN s[i] ELSE t[i - Len(s)]
  BY <1>1, ConcatProperties
<1>3. Len(s \o t) = hi - lo
  BY <1>1, <1>2
<1>4. ASSUME NEW k \in 1..(hi - lo) PROVE (s \o t)[k] = lo + k
  <2>1. k \in 1..(Len(s) + Len(t))
    BY <1>1
  <2>2. CASE k <= Len(s)
    BY <1>1, <1>2, <2>1, <2>2
  <2>3. CASE ~(k <= Len(s))
    <3>1. k - Len(s) \in 1..(hi - mid) /\ mid + (k - Len(s)) = lo + k
      BY <1>1, <2>1, <2>3
    <3> QED BY <1>1, <1>2, <2>1, <2>3, <3>1
  <2> QED BY <2>2, <2>3
<1>5. s \o t = Bytes(lo, hi)
  <2> DEFINE u == s \o t
  <2>1. u \in Seq(Nat) /\ Len(u) = hi - lo /\ lo <= hi /\ \A k \in 1..(hi - lo) : u[k] = lo + k
    BY <1>2, <1>3, <1>4
  <2> HIDE DEF u
  <2>2. u = Bytes(lo, hi)
    BY <2>1, BytesEqual
  <2> QED BY <2>2 DEF u
<1> QED BY <1>5 DEF s, t

\* A run with the next byte is a run.
LEMMA BytesAppend ==
  ASSUME NEW lo \in Nat, NEW hi \in Nat, lo <= hi
  PROVE  Append(Bytes(lo, hi), hi + 1) = Bytes(lo, hi + 1)
<1> DEFINE s == Bytes(lo, hi)
           t == Append(s, hi + 1)
<1>1. s \in Seq(Nat) /\ Len(s) = hi - lo /\ \A k \in 1..(hi - lo) : s[k] = lo + k
  BY BytesProperties
<1> HIDE DEF s
<1>2. /\ t \in Seq(Nat) /\ Len(t) = Len(s) + 1 /\ t[Len(s) + 1] = hi + 1
      /\ \A k \in 1..Len(s) : t[k] = s[k]
  BY <1>1, AppendProperties
<1>3. \A k \in 1..(hi + 1 - lo) : t[k] = lo + k
  BY <1>1, <1>2
<1>4. hi + 1 \in Nat /\ lo <= hi + 1 /\ Len(t) = hi + 1 - lo
  BY <1>1, <1>2
<1> HIDE DEF t
<1>5. t = Bytes(lo, hi + 1)
  BY <1>2, <1>3, <1>4, BytesEqual
<1> QED BY <1>5 DEF s, t

\* A run without its first byte is a run.
LEMMA BytesTail ==
  ASSUME NEW lo \in Nat, NEW hi \in Nat, lo < hi
  PROVE  Tail(Bytes(lo, hi)) = Bytes(lo + 1, hi)
<1> DEFINE s == Bytes(lo, hi)
           t == Tail(s)
<1>1. s \in Seq(Nat) /\ Len(s) = hi - lo /\ (\A k \in 1..(hi - lo) : s[k] = lo + k) /\ s # <<>>
  BY BytesProperties
<1> HIDE DEF s
<1>2. t \in Seq(Nat) /\ Len(t) = Len(s) - 1 /\ \A k \in 1..Len(t) : t[k] = s[k+1]
  BY <1>1, HeadTailProperties
<1>3. lo + 1 \in Nat /\ lo + 1 <= hi /\ Len(t) = hi - (lo + 1)
  BY <1>1, <1>2
<1>4. \A k \in 1..(hi - (lo + 1)) : t[k] = lo + 1 + k
  BY <1>1, <1>2, <1>3
<1> HIDE DEF t
<1>5. t = Bytes(lo + 1, hi)
  BY <1>2, <1>3, <1>4, BytesEqual
<1> QED BY <1>5 DEF s, t

-----------------------------------------------------------------------------
(* The ring. *)

\* Where the ring begins when n bytes have been pushed.
Oldest(n) == IF n > RingBytes THEN n - RingBytes ELSE 0

\* The ring begins within the output and holds at most RING_BUFFER_BYTES.
LEMMA OldestBounds ==
  ASSUME NEW n \in Nat
  PROVE  Oldest(n) \in 0..n /\ n - Oldest(n) <= RingBytes /\ (n # 0 => Oldest(n) < n)
BY SizesAssumption DEF Oldest

\* push_into_ring, one byte: the oldest goes when the ring is full.
LEMMA PushByteKeepsRecent ==
  ASSUME NEW n \in Nat
  PROVE  PushByte(Bytes(Oldest(n), n), n + 1) = Bytes(Oldest(n + 1), n + 1)
<1> DEFINE r == Bytes(Oldest(n), n)
<1>1. Oldest(n) \in Nat /\ Oldest(n) <= n /\ Len(r) = n - Oldest(n)
  <2>1. Oldest(n) \in Nat /\ Oldest(n) <= n
    BY OldestBounds
  <2> QED BY <2>1, BytesProperties
<1>2. CASE Len(r) = RingBytes
  <2>1. Oldest(n) < n /\ Oldest(n + 1) = Oldest(n) + 1
    BY <1>1, <1>2, SizesAssumption DEF Oldest
  <2>2. Tail(r) = Bytes(Oldest(n) + 1, n)
    BY <1>1, <2>1, BytesTail
  <2>3. Append(Tail(r), n + 1) = Bytes(Oldest(n) + 1, n + 1)
    <3>1. Oldest(n) + 1 \in Nat /\ Oldest(n) + 1 <= n
      BY <1>1, <2>1
    <3> QED BY <2>2, <3>1, BytesAppend
  <2> QED BY <1>2, <2>1, <2>3 DEF PushByte
<1>3. CASE Len(r) # RingBytes
  <2>1. Oldest(n) = 0 /\ Oldest(n + 1) = 0
    BY <1>1, <1>3, SizesAssumption DEF Oldest
  <2>2. Append(r, n + 1) = Bytes(0, n + 1)
    BY <1>1, <2>1, BytesAppend
  <2> QED BY <1>3, <2>1, <2>2 DEF PushByte
<1> QED BY <1>2, <1>3

\* push_into_ring, all of a chunk, by induction on its bytes.
LEMMA PushKeepsRecent ==
  ASSUME NEW n \in Nat, NEW m \in Nat, n <= m
  PROVE  PushIntoRing(Bytes(Oldest(n), n), Bytes(n, m)) = Bytes(Oldest(m), m)
<1> DEFINE r == Bytes(Oldest(n), n)
           b == Bytes(n, m)
           recent == [k \in 0..(m - n) |-> Bytes(Oldest(n + k), n + k)]
           after[k \in 0..Len(b)] == IF k = 0 THEN r ELSE PushByte(after[k-1], b[k])
<1>1. m - n \in Nat /\ Len(b) = m - n /\ \A k \in 1..(m - n) : b[k] = n + k
  BY BytesProperties
<1>2. PushIntoRing(r, b) = after[m - n]
  BY <1>1 DEF PushIntoRing
<1>3. recent = [k \in 0..Len(b) |-> IF k = 0 THEN r ELSE PushByte(recent[k-1], b[k])]
  <2>1. ASSUME NEW k \in 0..(m - n)
        PROVE  recent[k] = IF k = 0 THEN r ELSE PushByte(recent[k-1], b[k])
    <3>1. CASE k = 0
      BY <3>1
    <3>2. CASE k # 0
      <4>1. k - 1 \in 0..(m - n) /\ n + (k - 1) \in Nat /\ (n + (k - 1)) + 1 = n + k
        BY <1>1, <3>2
      <4>2. PushByte(Bytes(Oldest(n + (k-1)), n + (k-1)), n + k) = Bytes(Oldest(n + k), n + k)
        BY <4>1, PushByteKeepsRecent
      <4>3. recent[k-1] = Bytes(Oldest(n + (k-1)), n + (k-1)) /\ b[k] = n + k
        BY <1>1, <3>2, <4>1
      <4> QED BY <3>2, <4>2, <4>3
    <3> QED BY <3>1, <3>2
  <2> HIDE DEF r, b
  <2> QED BY <1>1, <2>1
<1>4. after = [k \in 0..Len(b) |-> IF k = 0 THEN r ELSE PushByte(after[k-1], b[k])]
  <2> HIDE DEF r, b, recent
  <2> QED BY <1>3 DEF after
<1> HIDE DEF after, recent, r, b
<1> DEFINE S == {k \in Nat : k <= m - n => after[k] = recent[k]}
<1>5. 0 \in S
  BY <1>1, <1>3, <1>4
<1>6. ASSUME NEW k \in Nat, k \in S PROVE k + 1 \in S
  <2>1. CASE k + 1 <= m - n
    <3>1. k + 1 \in 0..Len(b) /\ k \in 0..Len(b) /\ k + 1 # 0 /\ (k + 1) - 1 = k
      BY <1>1, <2>1
    <3>2. after[k + 1] = PushByte(after[k], b[k + 1]) /\ recent[k + 1] = PushByte(recent[k], b[k + 1])
      BY <1>3, <1>4, <3>1
    <3>3. after[k] = recent[k]
      BY <1>1, <1>6, <3>1
    <3> QED BY <3>2, <3>3
  <2>2. CASE ~(k + 1 <= m - n)
    BY <2>2
  <2> QED BY <2>1, <2>2
<1>7. Nat \subseteq S
  <2> HIDE DEF S
  <2> QED BY <1>5, <1>6, SetInduction
<1>8. after[m - n] = recent[m - n]
  BY <1>1, <1>7
<1>9. recent[m - n] = Bytes(Oldest(m), m)
  BY <1>1 DEF recent
<1> QED BY <1>2, <1>8, <1>9 DEF r, b

-----------------------------------------------------------------------------
(* Chains: chunks or events that follow one another without a gap. *)

\* The sequences of ss are, one after the other, the bytes from lo to hi.
Chain(ss, lo, hi) ==
  \E cut \in [0..Len(ss) -> lo..hi] :
    /\ cut[0] = lo /\ cut[Len(ss)] = hi
    /\ \A k \in 1..Len(ss) : cut[k-1] <= cut[k] /\ ss[k] = Bytes(cut[k-1], cut[k])

\* A chain goes up, and an empty one goes nowhere.
LEMMA ChainOrder ==
  ASSUME NEW ss \in Seq(Seq(Nat)), NEW lo \in Nat, NEW hi \in Nat, Chain(ss, lo, hi)
  PROVE  lo <= hi /\ (ss = <<>> => lo = hi)
<1>1. PICK cut \in [0..Len(ss) -> lo..hi] : cut[0] = lo /\ cut[Len(ss)] = hi
  BY DEF Chain
<1>2. Len(ss) \in Nat /\ (ss = <<>> => Len(ss) = 0)
  BY LenProperties, EmptySeq
<1>3. cut[0] \in lo..hi
  BY <1>1, <1>2
<1> QED BY <1>1, <1>2, <1>3

\* Nothing is a chain from anywhere to the same place.
LEMMA ChainEmpty ==
  ASSUME NEW n \in Nat
  PROVE  Chain(<<>>, n, n)
<1> DEFINE cut == [k \in 0..0 |-> n]
<1>1. Len(<<>>) = 0
  BY EmptySeq
<1>2. cut \in [0..0 -> n..n] /\ cut[0] = n
  OBVIOUS
<1>3. cut \in [0..Len(<<>>) -> n..n] /\ cut[0] = n /\ cut[Len(<<>>)] = n
  BY <1>1, <1>2
<1>4. \A k \in 1..Len(<<>>) : cut[k-1] <= cut[k] /\ <<>>[k] = Bytes(cut[k-1], cut[k])
  BY <1>1
<1> HIDE DEF cut
<1> QED BY <1>3, <1>4 DEF Chain

\* What comes next is appended.
LEMMA ChainAppend ==
  ASSUME NEW ss \in Seq(Seq(Nat)), NEW lo \in Nat, NEW hi \in Nat, NEW new \in Nat,
         Chain(ss, lo, hi), hi <= new
  PROVE  Chain(Append(ss, Bytes(hi, new)), lo, new)
<1> DEFINE n == Len(ss)
           tt == Append(ss, Bytes(hi, new))
<1>1. PICK cut \in [0..n -> lo..hi] :
        /\ cut[0] = lo /\ cut[n] = hi
        /\ \A k \in 1..n : cut[k-1] <= cut[k] /\ ss[k] = Bytes(cut[k-1], cut[k])
  BY DEF Chain
<1>2. /\ n \in Nat /\ Len(tt) = n + 1 /\ tt[n + 1] = Bytes(hi, new)
      /\ \A k \in 1..n : tt[k] = ss[k]
  BY BytesProperties, LenProperties, AppendProperties
<1> HIDE DEF n, tt
<1> DEFINE cut2 == [k \in 0..(n + 1) |-> IF k = n + 1 THEN new ELSE cut[k]]
<1>3. cut2 \in [0..(n + 1) -> lo..new] /\ cut2[0] = lo /\ cut2[n + 1] = new
  BY <1>1, <1>2
<1>4. ASSUME NEW k \in 1..(n + 1)
      PROVE  cut2[k-1] <= cut2[k] /\ tt[k] = Bytes(cut2[k-1], cut2[k])
  <2>1. CASE k = n + 1
    <3>1. cut2[k] = new /\ cut2[k-1] = hi
      BY <1>1, <1>2, <2>1
    <3> QED BY <1>2, <2>1, <3>1
  <2>2. CASE k # n + 1
    <3>1. k \in 1..n /\ cut2[k] = cut[k] /\ cut2[k-1] = cut[k-1]
      BY <1>2, <2>2
    <3> QED BY <1>1, <1>2, <3>1
  <2> QED BY <2>1, <2>2
<1> HIDE DEF cut2
<1>5. Chain(tt, lo, new)
  BY <1>2, <1>3, <1>4 DEF Chain
<1> QED BY <1>5 DEF tt

\* What is at the head comes first, and the rest follows it.
LEMMA ChainHead ==
  ASSUME NEW ss \in Seq(Seq(Nat)), NEW lo \in Nat, NEW hi \in Nat, Chain(ss, lo, hi), ss # <<>>
  PROVE  \E mid \in lo..hi : /\ Head(ss) = Bytes(lo, mid) /\ Len(Head(ss)) = mid - lo
                             /\ Chain(Tail(ss), mid, hi)
<1> DEFINE n == Len(ss)
           tt == Tail(ss)
<1>1. PICK cut \in [0..n -> lo..hi] :
        /\ cut[0] = lo /\ cut[n] = hi
        /\ \A k \in 1..n : cut[k-1] <= cut[k] /\ ss[k] = Bytes(cut[k-1], cut[k])
  BY DEF Chain
<1>2. /\ n \in Nat \ {0} /\ Len(tt) = n - 1 /\ Head(ss) = ss[1]
      /\ \A k \in 1..Len(tt) : tt[k] = ss[k+1]
  BY EmptySeq, LenProperties, HeadTailProperties
<1> HIDE DEF n, tt
<1> DEFINE mid == cut[1]
           cut2 == [k \in 0..(n - 1) |-> cut[k+1]]
<1>3. mid \in lo..hi /\ lo <= mid /\ Head(ss) = Bytes(lo, mid)
  BY <1>1, <1>2
<1>4. ASSUME NEW k \in 0..(n-1) PROVE cut2[k] \in mid..hi
  <2> DEFINE S == {j \in Nat : j <= n - 1 => mid <= cut[j+1]}
  <2>1. 0 \in S
    BY <1>2, <1>3
  <2>2. ASSUME NEW j \in Nat, j \in S PROVE j + 1 \in S
    <3>1. CASE j + 1 <= n - 1
      <4>1. j + 2 \in 1..n /\ (j + 2) - 1 = j + 1 /\ mid <= cut[j + 1] /\ (j + 1) + 1 = j + 2
        BY <1>2, <2>2, <3>1
      <4>2. cut[j + 1] <= cut[j + 2]
        BY <1>1, <4>1
      <4>3. cut[j + 1] \in lo..hi /\ cut[j + 2] \in lo..hi
        BY <1>1, <1>2, <4>1
      <4>4. mid <= cut[(j + 1) + 1]
        BY <1>3, <4>1, <4>2, <4>3
      <4> QED BY <4>4
    <3>2. CASE ~(j + 1 <= n - 1)
      BY <3>2
    <3> QED BY <3>1, <3>2
  <2>3. Nat \subseteq S
    <3> HIDE DEF S
    <3> QED BY <2>1, <2>2, SetInduction
  <2>4. mid <= cut[k+1] /\ cut[k+1] \in lo..hi
    BY <1>1, <1>2, <2>3
  <2> QED BY <1>3, <2>4
<1>5. cut2 \in [0..(n - 1) -> mid..hi] /\ cut2[0] = mid /\ cut2[n - 1] = hi
  BY <1>1, <1>2, <1>4
<1>6. ASSUME NEW k \in 1..(n - 1)
      PROVE  cut2[k-1] <= cut2[k] /\ tt[k] = Bytes(cut2[k-1], cut2[k])
  <2>1. k + 1 \in 1..n /\ cut2[k] = cut[k+1] /\ cut2[k-1] = cut[k] /\ (k + 1) - 1 = k
    BY <1>2
  <2> QED BY <1>1, <1>2, <2>1
<1> HIDE DEF cut2
<1>7. Chain(tt, mid, hi)
  BY <1>2, <1>5, <1>6 DEF Chain
<1>8. Len(Head(ss)) = mid - lo
  <2>1. mid \in Nat
    BY <1>3
  <2> HIDE DEF mid
  <2> QED BY <1>3, <2>1, BytesProperties
<1> QED BY <1>3, <1>7, <1>8 DEF tt

\* A chain flattened is a run, by induction on its length.
LEMMA ChainFlattens ==
  ASSUME NEW ss \in Seq(Seq(Nat)), NEW lo \in Nat, NEW hi \in Nat, Chain(ss, lo, hi)
  PROVE  FlattenSeq(ss) = Bytes(lo, hi)
<1> DEFINE n == Len(ss)
           flatten[i \in 1..n] == IF i = 1 THEN ss[i] ELSE flatten[i-1] \o ss[i]
<1>1. PICK cut \in [0..n -> lo..hi] :
        /\ cut[0] = lo /\ cut[n] = hi
        /\ \A k \in 1..n : cut[k-1] <= cut[k] /\ ss[k] = Bytes(cut[k-1], cut[k])
  BY DEF Chain
<1>2. n \in Nat
  BY LenProperties
<1>21. \A j \in 0..n : cut[j] \in lo..hi
  <2> HIDE DEF n, flatten
  <2> QED BY <1>1
<1>3. CASE n = 0
  <2>1. ss = <<>> /\ lo = hi
    BY <1>1, <1>3, EmptySeq
  <2>2. FlattenSeq(ss) = ss
    BY <1>3 DEF FlattenSeq
  <2>3. Bytes(lo, hi) = <<>>
    BY <2>1, BytesProperties
  <2> QED BY <2>1, <2>2, <2>3
<1>4. CASE n # 0
  <2> DEFINE run == [i \in 1..n |-> Bytes(lo, cut[i])]
  <2>1. FlattenSeq(ss) = flatten[n]
    BY <1>4 DEF FlattenSeq
  <2>2. ASSUME NEW j \in Nat, j <= n PROVE cut[j] \in Nat /\ lo <= cut[j]
    <3>1. j \in 0..n
      BY <1>2, <2>2
    <3>2. cut[j] \in lo..hi
      BY <1>21, <3>1
    <3> QED BY <3>2
  <2>3. run = [i \in 1..n |-> IF i = 1 THEN ss[i] ELSE run[i-1] \o ss[i]]
    <3>1. ASSUME NEW i \in 1..n
          PROVE  run[i] = IF i = 1 THEN ss[i] ELSE run[i-1] \o ss[i]
      <4>1. CASE i = 1
        BY <1>1, <1>2, <4>1
      <4>2. CASE i # 1
        <5>1. i - 1 \in 1..n /\ i \in Nat /\ i - 1 \in Nat /\ i <= n /\ i - 1 <= n
          BY <1>2, <4>2
        <5>2. /\ cut[i-1] \in Nat /\ cut[i] \in Nat /\ lo <= cut[i-1] /\ cut[i-1] <= cut[i]
              /\ ss[i] = Bytes(cut[i-1], cut[i])
          BY <1>1, <2>2, <5>1
        <5>3. Bytes(lo, cut[i-1]) \o Bytes(cut[i-1], cut[i]) = Bytes(lo, cut[i])
          BY <5>2, BytesConcat
        <5>4. run[i] = Bytes(lo, cut[i]) /\ run[i-1] = Bytes(lo, cut[i-1])
          BY <5>1
        <5> QED BY <4>2, <5>2, <5>3, <5>4
      <4> QED BY <4>1, <4>2
    <3> QED BY <3>1
  <2>4. flatten = [i \in 1..n |-> IF i = 1 THEN ss[i] ELSE flatten[i-1] \o ss[i]]
    <3> HIDE DEF run, n
    <3> QED BY <2>3 DEF flatten
  <2> HIDE DEF flatten, run, n
  <2> DEFINE S == {k \in Nat : k + 1 <= n => flatten[k+1] = run[k+1]}
  <2>5. 0 \in S
    <3>1. 1 \in 1..n
      BY <1>2, <1>4
    <3>2. flatten[1] = ss[1] /\ run[1] = ss[1]
      BY <2>3, <2>4, <3>1
    <3>3. 0 + 1 = 1
      OBVIOUS
    <3> QED BY <3>2, <3>3
  <2>6. ASSUME NEW k \in Nat, k \in S PROVE k + 1 \in S
    <3>1. CASE k + 2 <= n
      <4>1. k + 2 \in 1..n /\ k + 1 \in 1..n /\ k + 2 # 1 /\ (k + 2) - 1 = k + 1 /\ (k + 1) + 1 = k + 2
        BY <1>2, <3>1
      <4>2. flatten[k + 2] = flatten[k + 1] \o ss[k + 2] /\ run[k + 2] = run[k + 1] \o ss[k + 2]
        BY <2>3, <2>4, <4>1
      <4>3. flatten[k + 1] = run[k + 1]
        BY <1>2, <2>6, <3>1
      <4>4. flatten[(k + 1) + 1] = run[(k + 1) + 1]
        BY <4>1, <4>2, <4>3
      <4> QED BY <4>4
    <3>2. CASE ~(k + 2 <= n)
      BY <1>2, <3>2
    <3> QED BY <3>1, <3>2
  <2>7. Nat \subseteq S
    <3> HIDE DEF S
    <3> QED BY <2>5, <2>6, SetInduction
  <2>8. n - 1 \in Nat /\ (n - 1) + 1 = n
    BY <1>2, <1>4
  <2>9. flatten[n] = run[n]
    <3>1. n - 1 \in S
      BY <2>7, <2>8
    <3> QED BY <2>8, <3>1, <1>2
  <2>10. run[n] = Bytes(lo, hi)
    BY <1>1, <1>2, <1>4 DEF run
  <2> QED BY <2>1, <2>9, <2>10
<1> QED BY <1>3, <1>4

-----------------------------------------------------------------------------
(* The inductive invariant. *)

Event == [type : {"output", "endedZero", "endedNonzero"}, bytes : Seq(Nat)]
Payloads(es) == [k \in DOMAIN es |-> es[k].bytes]

\* Where a listener's window begins, and what it has in hand.
From(c)  == IF backlog[c] = <<>> THEN 0 ELSE Head(backlog[c]) - 1
Given(c) == IF pc[c] = "subscribed" THEN backlog[c] ELSE sent[c]

TerminalInv ==
  /\ fate \in {"running", "zero", "nonzero", "signal"}
  /\ tty \in BOOLEAN /\ listed \in BOOLEAN
  /\ written \in Nat /\ read \in Nat
  /\ read <= written /\ written <= read + PtyBytes /\ written <= MaxOutput

\* The reader stops before the task does only at the end of file.
ReaderInv ==
  /\ reader \in {"reading", "done"}
  /\ reader = "done" /\ task # "gone" => tty = FALSE /\ read = written

\* What the thread has read and the task has not yet taken is in the channel.
ChannelInv ==
  /\ chunks \in Seq(Seq(Nat))
  /\ task = "running" => Chain(chunks, pushed, read)

TaskInv ==
  /\ task \in {"running", "draining", "gone"}
  /\ pushed \in Nat /\ pushed <= read
  /\ ring = Bytes(Oldest(pushed), pushed)
  /\ subscribers \subseteq Clients
  /\ task = "draining" => Unwanted

\* A handler waits for the one request it has made.
RequestsInv ==
  /\ requests \in Seq(Clients)
  /\ \A k \in 1..Len(requests) : pc[requests[k]] \in Waiting
  /\ \A i, j \in 1..Len(requests) : requests[i] = requests[j] => i = j
  /\ task # "running" => requests = <<>>

HandlersInv ==
  /\ pc \in [Clients -> {"idle"} \cup Holders \cup Ends]
  /\ backlog \in [Clients -> Seq(Nat)]
  /\ sent \in [Clients -> Seq(Nat)]
  /\ events \in [Clients -> Seq(Event)]

Core == TerminalInv /\ ReaderInv /\ ChannelInv /\ TaskInv /\ RequestsInv /\ HandlersInv

\* What a client was given is a run from the beginning of its window on.
GivenInv(c) ==
  /\ \E n \in 0..pushed : backlog[c] = Bytes(Oldest(n), n)
  /\ pc[c] \in {"idle", "attach", "view", "refused"} \cup Waiting => backlog[c] = <<>> /\ sent[c] = <<>>
  /\ pc[c] = "subscribed" => sent[c] = <<>>
  /\ pc[c] = "viewed" =>
       backlog[c] = <<>> /\ \E n \in 0..pushed : sent[c] = Bytes(Oldest(n), n)
  /\ pc[c] # "viewed" => /\ sent[c] = Bytes(From(c), From(c) + Len(sent[c]))
                         /\ From(c) + Len(sent[c]) <= pushed

\* What is on its way to a listener follows what it was given, up to the task's
\* last chunk; the end of the session is behind it, and is the last.
ListenerInv(c) ==
  Listening(c) =>
    /\ Chain(Payloads(events[c]), From(c) + Len(Given(c)), pushed)
    /\ task = "running" => c \in subscribers
    /\ \A k \in 1..Len(events[c]) :
         IsOutput(events[c][k]) \/ (k = Len(events[c]) /\ events[c][k].bytes = <<>> /\ task = "gone")
    /\ task = "gone" => /\ events[c] # <<>> /\ ~IsOutput(events[c][Len(events[c])])
                        /\ pushed = written /\ tty = FALSE

EndInv(c) ==
  /\ ~Listening(c) => events[c] = <<>>
  /\ pc[c] \in {"endedZero", "endedNonzero"} =>
       /\ task = "gone" /\ pushed = written /\ tty = FALSE
       /\ From(c) + Len(sent[c]) = pushed

Handler(c) == GivenInv(c) /\ ListenerInv(c) /\ EndInv(c)

Inv == Core /\ \A c \in Clients : Handler(c)

\* The payloads of a channel of events are as many as the events.
LEMMA PayloadsProperties ==
  ASSUME NEW es \in Seq(Event)
  PROVE  /\ Payloads(es) \in Seq(Seq(Nat)) /\ Len(Payloads(es)) = Len(es)
         /\ \A k \in 1..Len(es) : Payloads(es)[k] = es[k].bytes
         /\ Payloads(es) = <<>> <=> es = <<>>
<1>1. Len(es) \in Nat /\ DOMAIN es = 1..Len(es) /\ \A k \in 1..Len(es) : es[k] \in Event
  BY LenProperties, ElementOfSeq
<1>2. \A k \in 1..Len(es) : es[k].bytes \in Seq(Nat)
  BY <1>1 DEF Event
<1>3. Payloads(es) \in [1..Len(es) -> Seq(Nat)] /\ \A k \in 1..Len(es) : Payloads(es)[k] = es[k].bytes
  BY <1>1, <1>2 DEF Payloads
<1>4. Payloads(es) \in Seq(Seq(Nat)) /\ Len(Payloads(es)) = Len(es)
  BY <1>1, <1>3
<1> QED BY <1>3, <1>4, EmptySeq

\* The payloads of a channel to which an event is sent.
LEMMA PayloadsAppend ==
  ASSUME NEW es \in Seq(Event), NEW e \in Event
  PROVE  Payloads(Append(es, e)) = Append(Payloads(es), e.bytes)
<1> DEFINE s == Payloads(Append(es, e))
           t == Append(Payloads(es), e.bytes)
           n == Len(es)
<1>1. n \in Nat /\ e.bytes \in Seq(Nat)
  BY LenProperties DEF Event
<1>2. /\ Append(es, e) \in Seq(Event) /\ Len(Append(es, e)) = n + 1 /\ Append(es, e)[n + 1] = e
      /\ \A k \in 1..n : Append(es, e)[k] = es[k]
  BY AppendProperties
<1>3. /\ s \in Seq(Seq(Nat)) /\ Len(s) = n + 1
      /\ \A k \in 1..(n + 1) : s[k] = Append(es, e)[k].bytes
  BY <1>2, PayloadsProperties
<1>4. /\ Payloads(es) \in Seq(Seq(Nat)) /\ Len(Payloads(es)) = n
      /\ \A k \in 1..n : Payloads(es)[k] = es[k].bytes
  BY PayloadsProperties
<1>5. /\ t \in Seq(Seq(Nat)) /\ Len(t) = n + 1 /\ t[n + 1] = e.bytes
      /\ \A k \in 1..n : t[k] = es[k].bytes
  BY <1>1, <1>4, AppendProperties
<1> HIDE DEF s, t, n
<1>6. ASSUME NEW k \in 1..Len(s) PROVE s[k] = t[k]
  <2>1. CASE k = n + 1
    BY <1>2, <1>3, <1>5, <2>1
  <2>2. CASE k # n + 1
    <3>1. k \in 1..n /\ k \in 1..(n + 1)
      BY <1>1, <1>3, <2>2
    <3> QED BY <1>2, <1>3, <1>5, <3>1
  <2> QED BY <2>1, <2>2
<1>7. s = t
  BY <1>3, <1>5, <1>6, SeqEqual
<1> QED BY <1>7 DEF s, t

\* The payloads of a channel whose first event is received.
LEMMA PayloadsTail ==
  ASSUME NEW es \in Seq(Event), es # <<>>
  PROVE  Payloads(Tail(es)) = Tail(Payloads(es)) /\ Head(Payloads(es)) = Head(es).bytes
<1> DEFINE s == Payloads(Tail(es))
           t == Tail(Payloads(es))
           n == Len(es)
<1>1. n \in Nat \ {0} /\ Head(es) = es[1]
  BY EmptySeq, LenProperties
<1>2. Tail(es) \in Seq(Event) /\ Len(Tail(es)) = n - 1 /\ \A k \in 1..(n - 1) : Tail(es)[k] = es[k+1]
  BY <1>1, HeadTailProperties
<1>3. s \in Seq(Seq(Nat)) /\ Len(s) = n - 1 /\ \A k \in 1..(n - 1) : s[k] = es[k+1].bytes
  <2> DEFINE rest == Tail(es)
  <2>1. /\ rest \in Seq(Event)  /\ Len(rest) = n - 1
        /\ \A k \in 1..(n - 1) : rest[k] = es[k+1]
    BY <1>2
  <2> HIDE DEF rest
  <2>2. /\ Payloads(rest) \in Seq(Seq(Nat)) /\ Len(Payloads(rest)) = n - 1
        /\ \A k \in 1..(n - 1) : Payloads(rest)[k] = es[k+1].bytes
    BY <2>1, PayloadsProperties
  <2> QED BY <2>2 DEF rest
<1>4. /\ Payloads(es) \in Seq(Seq(Nat)) /\ Len(Payloads(es)) = n /\ Payloads(es) # <<>>
      /\ \A k \in 1..n : Payloads(es)[k] = es[k].bytes
  BY PayloadsProperties
<1>5. t \in Seq(Seq(Nat)) /\ Len(t) = n - 1 /\ \A k \in 1..(n - 1) : t[k] = Payloads(es)[k+1]
  BY <1>4, HeadTailProperties
<1>6. Head(Payloads(es)) = Head(es).bytes
  BY <1>1, <1>4
<1> HIDE DEF s, t, n
<1>7. ASSUME NEW k \in 1..Len(s) PROVE s[k] = t[k]
  <2>1. k \in 1..(n - 1) /\ k + 1 \in 1..n
    BY <1>1, <1>3
  <2> QED BY <1>3, <1>4, <1>5, <2>1
<1>8. s = t
  BY <1>3, <1>5, <1>7, SeqEqual
<1> QED BY <1>6, <1>8 DEF s, t

\* The window of a listener is the ring at the time of its subscription.
LEMMA WindowProperties ==
  ASSUME NEW c \in Clients, HandlersInv, TaskInv, GivenInv(c)
  PROVE  /\ From(c) \in 0..pushed /\ (pushed # 0 => From(c) < pushed)
         /\ Len(backlog[c]) <= RingBytes
         /\ From(c) + Len(backlog[c]) <= pushed
         /\ backlog[c] = Bytes(From(c), From(c) + Len(backlog[c]))
<1>1. PICK n \in 0..pushed : backlog[c] = Bytes(Oldest(n), n)
  BY DEF GivenInv
<1>2. n \in Nat /\ n <= pushed /\ pushed \in Nat
  BY DEF TaskInv
<1>3. Oldest(n) \in 0..n /\ n - Oldest(n) <= RingBytes /\ (n # 0 => Oldest(n) < n)
  BY <1>2, OldestBounds
<1>4. /\ Len(backlog[c]) = n - Oldest(n)
      /\ backlog[c] = <<>> <=> Oldest(n) = n
      /\ \A k \in 1..(n - Oldest(n)) : backlog[c][k] = Oldest(n) + k
      /\ backlog[c] \in Seq(Nat)
  <2> DEFINE o == Oldest(n)
             b == Bytes(o, n)
  <2>1. o \in Nat /\ o <= n
    BY <1>3
  <2> HIDE DEF o
  <2>2. /\ b \in Seq(Nat) /\ Len(b) = n - o /\ (b = <<>> <=> o = n)
        /\ \A k \in 1..(n - o) : b[k] = o + k
    BY <1>2, <2>1, BytesProperties
  <2> HIDE DEF b
  <2>3. backlog[c] = b
    BY <1>1 DEF o, b
  <2> QED BY <2>2, <2>3 DEF o
<1>5. From(c) = Oldest(n)
  <2>1. CASE n = 0
    BY <1>3, <1>4, <2>1 DEF From
  <2>2. CASE n # 0
    <3>1. backlog[c] # <<>> /\ 1 \in 1..(n - Oldest(n))
      BY <1>2, <1>3, <1>4, <2>2
    <3>2. Head(backlog[c]) = Oldest(n) + 1
      BY <1>3, <1>4, <3>1
    <3> QED BY <1>2, <1>3, <3>1, <3>2 DEF From
  <2> QED BY <2>1, <2>2
<1>6. From(c) + Len(backlog[c]) = n
  BY <1>2, <1>3, <1>4, <1>5
<1>7. backlog[c] = Bytes(From(c), From(c) + Len(backlog[c]))
  BY <1>1, <1>5, <1>6
<1> QED BY <1>2, <1>3, <1>4, <1>5, <1>6, <1>7

\* The daemon has just created the session (session.rs, spawn_session).
LEMMA InitInv == Init => Inv
<1> SUFFICES ASSUME Init PROVE Inv
  OBVIOUS
<1> USE DEF Init
<1>1. TerminalInv
  BY SizesAssumption DEF TerminalInv
<1>2. ReaderInv
  BY DEF ReaderInv
<1>3. ChannelInv
  BY ChainEmpty, EmptySeq DEF ChannelInv
<1>4. Oldest(0) = 0 /\ Bytes(0, 0) = <<>>
  BY OldestBounds, BytesProperties
<1>5. TaskInv
  BY <1>4 DEF TaskInv
<1>6. RequestsInv
  BY EmptySeq DEF RequestsInv
<1>7. HandlersInv
  BY EmptySeq DEF HandlersInv
<1>8. ASSUME NEW c \in Clients PROVE Handler(c)
  <2>1. From(c) = 0 /\ Len(sent[c]) = 0 /\ ~Listening(c)
    BY EmptySeq DEF From, Listening
  <2>2. GivenInv(c)
    BY <1>4, <2>1 DEF GivenInv
  <2>3. ListenerInv(c) /\ EndInv(c)
    BY <2>1 DEF ListenerInv, EndInv
  <2> QED BY <2>2, <2>3 DEF Handler
<1> QED BY <1>1, <1>2, <1>3, <1>5, <1>6, <1>7, <1>8 DEF Inv, Core

\* What concerns one handler is kept by steps that leave it and the task alone.
LEMMA HandlerFrame ==
  ASSUME NEW c \in Clients, Handler(c),
         pc'[c] = pc[c], backlog'[c] = backlog[c], sent'[c] = sent[c], events'[c] = events[c],
         pushed' = pushed, task' = task, c \in subscribers => c \in subscribers',
         tty = FALSE => tty' = FALSE /\ written' = written
  PROVE  Handler(c)'
<1>1. From(c)' = From(c) /\ Given(c)' = Given(c) /\ Listening(c)' = Listening(c)
  BY DEF From, Given, Listening
<1>2. GivenInv(c)'
  BY <1>1 DEF Handler, GivenInv
<1>3. ListenerInv(c)'
  BY <1>1 DEF Handler, ListenerInv
<1>4. EndInv(c)'
  BY <1>1 DEF Handler, EndInv
<1> QED BY <1>2, <1>3, <1>4 DEF Handler

\* The parts of the invariant that a step leaves alone with what they speak of.
LEMMA CoreFrame ==
  /\ TerminalInv /\ UNCHANGED <<fate, tty, listed, written, read>> => TerminalInv'
  /\ ReaderInv /\ UNCHANGED <<reader, task, tty, read, written>> => ReaderInv'
  /\ ChannelInv /\ UNCHANGED <<chunks, task, pushed, read>> => ChannelInv'
  /\ TaskInv /\ UNCHANGED <<session, read, listed, pc>> => TaskInv'
  /\ RequestsInv /\ UNCHANGED <<requests, pc, task>> => RequestsInv'
  /\ HandlersInv /\ UNCHANGED <<handlers, events>> => HandlersInv'
<1>1. TerminalInv /\ UNCHANGED <<fate, tty, listed, written, read>> => TerminalInv'
  BY DEF TerminalInv
<1>2. ReaderInv /\ UNCHANGED <<reader, task, tty, read, written>> => ReaderInv'
  BY DEF ReaderInv
<1>3. ChannelInv /\ UNCHANGED <<chunks, task, pushed, read>> => ChannelInv'
  BY DEF ChannelInv
<1>4. TaskInv /\ UNCHANGED <<session, read, listed, pc>> => TaskInv'
  BY DEF TaskInv, session, Unwanted
<1>5. RequestsInv /\ UNCHANGED <<requests, pc, task>> => RequestsInv'
  BY DEF RequestsInv
<1>6. HandlersInv /\ UNCHANGED <<handlers, events>> => HandlersInv'
  BY DEF HandlersInv, handlers
<1> QED BY <1>1, <1>2, <1>3, <1>4, <1>5, <1>6

\* Steps of the agent and of the terminal.
LEMMA TerminalSteps ==
  ASSUME Inv, AgentWrite \/ TtyClose \/ \E how \in {"zero", "nonzero", "signal"} : AgentExit(how)
  PROVE  Inv'
<1>1. /\ UNCHANGED <<producer, chunks, session, requests, listed, handlers, events>>
      /\ tty = FALSE => tty' = FALSE /\ written' = written
  BY DEF AgentWrite, TtyClose, AgentExit
<1>2. TerminalInv'
  <2>1. CASE AgentWrite
    BY <2>1, SizesAssumption DEF AgentWrite, Inv, Core, TerminalInv, producer
  <2>2. CASE TtyClose
    BY <2>2 DEF TtyClose, Inv, Core, TerminalInv, producer
  <2>3. CASE \E how \in {"zero", "nonzero", "signal"} : AgentExit(how)
    BY <2>3 DEF AgentExit, Inv, Core, TerminalInv, producer
  <2> QED BY <2>1, <2>2, <2>3
<1>3. ReaderInv'
  BY <1>1 DEF Inv, Core, ReaderInv, producer, session
<1>4. ChannelInv' /\ TaskInv' /\ RequestsInv' /\ HandlersInv'
  BY <1>1, CoreFrame DEF Inv, Core, producer, session, handlers
<1>5. ASSUME NEW c \in Clients PROVE Handler(c)'
  BY <1>1, HandlerFrame DEF Inv, session, handlers
<1> QED BY <1>2, <1>3, <1>4, <1>5 DEF Inv, Core

\* The reader thread.
LEMMA ReaderSteps ==
  ASSUME Inv, ReaderStep
  PROVE  Inv'
<1>1. /\ UNCHANGED <<terminal, session, requests, listed, handlers, events>>
      /\ UNCHANGED <<fate, tty, written, task, pushed, ring, subscribers, pc, backlog, sent>>
  BY DEF ReaderStep, Read, ReadEof, terminal, session, handlers
<1> DEFINE Advanced ==
      /\ read' \in Nat /\ read <= read' /\ read' <= written
      /\ written <= read' + PtyBytes /\ chunks' \in Seq(Seq(Nat))
      /\ reader' \in {"reading", "done"}
      /\ reader' = "done" /\ task # "gone" => tty = FALSE /\ read' = written
      /\ task = "running" => Chain(chunks', pushed, read')
<1>2. Advanced
  <2>1. CASE ReadEof
    BY <2>1 DEF ReadEof, Inv, Core, TerminalInv, ReaderInv, ChannelInv
  <2>2. ASSUME NEW n \in 1..PtyBytes, Read(n) PROVE Advanced
    <3>1. /\ n \in 1..(written - read) /\ read' = read + n /\ reader = "reading"
          /\ read \in Nat /\ written \in Nat /\ PtyBytes \in Nat /\ written <= read + PtyBytes
          /\ chunks \in Seq(Seq(Nat))
      BY <2>2, SizesAssumption DEF Read, Inv, Core, TerminalInv, ReaderInv, ChannelInv
    <3>2. CASE task = "gone"
      BY <2>2, <3>1, <3>2 DEF Read
    <3>3. CASE task # "gone"
      <4>1. chunks' = Append(chunks, Bytes(read, read + n)) /\ reader' = reader
        BY <2>2, <3>3 DEF Read
      <4>2. Bytes(read, read + n) \in Seq(Nat)
        BY <3>1, BytesProperties
      <4>3. chunks' \in Seq(Seq(Nat))
        BY <3>1, <4>1, <4>2, AppendProperties
      <4>4. task = "running" => Chain(chunks', pushed, read')
        BY <3>1, <4>1, ChainAppend DEF Inv, Core, TaskInv, ChannelInv
      <4> QED BY <3>1, <3>3, <4>1, <4>3, <4>4
    <3> QED BY <3>2, <3>3
  <2> QED BY <2>1, <2>2 DEF ReaderStep
<1>3. TerminalInv' /\ ReaderInv'
  BY <1>1, <1>2 DEF Inv, Core, TerminalInv, ReaderInv
<1>4. ChannelInv'
  BY <1>1, <1>2 DEF ChannelInv
<1>5. TaskInv'
  BY <1>1, <1>2 DEF Inv, Core, TaskInv, TerminalInv, Unwanted
<1>6. RequestsInv' /\ HandlersInv'
  BY <1>1, CoreFrame DEF Inv, Core
<1>7. ASSUME NEW c \in Clients PROVE Handler(c)'
  BY <1>1, HandlerFrame DEF Inv
<1> QED BY <1>3, <1>4, <1>5, <1>6, <1>7 DEF Inv, Core

\* The entry leaves the registry.
LEMMA UnlistStep ==
  ASSUME Inv, Unlist
  PROVE  Inv'
<1>1. /\ UNCHANGED <<terminal, producer, chunks, session, requests, handlers, events>>
      /\ UNCHANGED <<fate, tty, written, read, reader, task, pushed, ring, subscribers, pc, backlog, sent>>
      /\ listed' = FALSE
  BY DEF Unlist, terminal, producer, session, handlers
<1>2. TerminalInv'
  BY <1>1 DEF Inv, Core, TerminalInv
<1>3. TaskInv'
  BY <1>1 DEF Inv, Core, TaskInv, Unwanted
<1>4. ReaderInv' /\ ChannelInv' /\ RequestsInv' /\ HandlersInv'
  BY <1>1, CoreFrame DEF Inv, Core
<1>5. ASSUME NEW c \in Clients PROVE Handler(c)'
  BY <1>1, HandlerFrame DEF Inv
<1> QED BY <1>2, <1>3, <1>4, <1>5 DEF Inv, Core

\* The drain-only loop begins when nobody listens or asks.
LEMMA DrainSteps ==
  ASSUME Inv, StartDraining \/ Drain
  PROVE  Inv'
<1>1. /\ UNCHANGED <<terminal, producer, pushed, ring, subscribers, requests, listed, handlers, events>>
      /\ UNCHANGED <<fate, tty, written, read, reader, pc, backlog, sent>>
      /\ task' \in {"draining", "gone"} /\ chunks' \in Seq(Seq(Nat))
  <2>1. chunks' \in Seq(Seq(Nat))
    BY HeadTailProperties DEF StartDraining, Drain, Inv, Core, ChannelInv
  <2> QED BY <2>1 DEF StartDraining, Drain, terminal, producer, handlers, Inv, Core, TaskInv
<1>2. Unwanted /\ requests = <<>> /\ task # "gone"
  BY DEF StartDraining, Drain, Inv, Core, TaskInv, RequestsInv
<1>3. TerminalInv' /\ HandlersInv'
  BY <1>1, CoreFrame DEF Inv, Core
<1>4. ReaderInv'
  BY <1>1, <1>2 DEF Inv, Core, ReaderInv
<1>5. ChannelInv'
  BY <1>1 DEF ChannelInv
<1>6. TaskInv'
  BY <1>1, <1>2 DEF Inv, Core, TaskInv, Unwanted
<1>7. RequestsInv'
  BY <1>1, <1>2 DEF Inv, Core, RequestsInv
<1>8. ASSUME NEW c \in Clients PROVE Handler(c)'
  <2>1. pc[c] \notin Holders
    BY <1>2 DEF Unwanted
  <2>2. ~Listening(c) /\ ~Listening(c)' /\ From(c)' = From(c)
    BY <1>1, <2>1 DEF Listening, Holders, From
  <2>3. pc[c] \notin {"endedZero", "endedNonzero"}
    BY <1>2 DEF Inv, Handler, EndInv
  <2>4. GivenInv(c)'
    BY <1>1, <2>2 DEF Inv, Handler, GivenInv
  <2>5. ListenerInv(c)' /\ EndInv(c)'
    BY <1>1, <2>2, <2>3 DEF Inv, Handler, ListenerInv, EndInv
  <2> QED BY <2>4, <2>5 DEF Handler
<1> QED BY <1>3, <1>4, <1>5, <1>6, <1>7, <1>8 DEF Inv, Core

\* What a step does to one listener's channel when the task sends e to the
\* subscribers.
LEMMA SendEffect ==
  ASSUME Inv, NEW e \in Event, task = "running", Send(subscribers, e)
  PROVE  /\ events' \in [Clients -> Seq(Event)]
         /\ \A c \in Clients : Listening(c) => events'[c] = Append(events[c], e)
         /\ \A c \in Clients : ~Listening(c) => events'[c] = events[c]
<1>1. events' = [c \in Clients |->
                   IF c \in subscribers /\ Listening(c) THEN Append(events[c], e) ELSE events[c]]
  BY DEF Send
<1>2. \A c \in Clients : Listening(c) => c \in subscribers
  BY DEF Inv, Handler, ListenerInv
<1>3. \A c \in Clients : events[c] \in Seq(Event)
  BY DEF Inv, Core, HandlersInv
<1>4. \A c \in Clients : Append(events[c], e) \in Seq(Event)
  BY <1>3, AppendProperties
<1> QED BY <1>1, <1>2, <1>3, <1>4

\* A chunk goes into the ring and to every subscriber.
LEMMA TakeChunkStep ==
  ASSUME Inv, TakeChunk
  PROVE  Inv'
<1> DEFINE chunk == Head(chunks)
           more  == pushed + Len(chunk)
           e     == Output(chunk)
<1>1. /\ UNCHANGED <<terminal, producer, task, requests, listed, handlers>>
      /\ UNCHANGED <<fate, tty, written, read, reader, pc, backlog, sent>>
      /\ task = "running" /\ chunks # <<>> /\ chunks' = Tail(chunks)
      /\ ring' = PushIntoRing(ring, chunk) /\ pushed' = more
      /\ Send(subscribers, e) /\ subscribers' = {c \in subscribers : Listening(c)}
  BY DEF TakeChunk, terminal, producer, handlers
<1>2. pushed \in Nat /\ read \in Nat /\ pushed <= read /\ chunks \in Seq(Seq(Nat))
  BY DEF Inv, Core, TerminalInv, TaskInv, ChannelInv
<1>3. PICK mid \in pushed..read : /\ chunk = Bytes(pushed, mid) /\ Len(chunk) = mid - pushed
                                  /\ Chain(Tail(chunks), mid, read)
  BY <1>1, <1>2, ChainHead DEF Inv, Core, ChannelInv
<1>4. more = mid /\ mid \in Nat /\ pushed <= mid /\ mid <= read
  BY <1>2, <1>3
<1>5. chunk \in Seq(Nat) /\ Tail(chunks) \in Seq(Seq(Nat))
  BY <1>1, <1>2, HeadTailProperties
<1>6. e \in Event /\ e.bytes = Bytes(pushed, mid) /\ IsOutput(e)
  BY <1>3, <1>5 DEF Output, Event, IsOutput
<1> HIDE DEF chunk, more, e
<1>7. TerminalInv' /\ ReaderInv' /\ RequestsInv'
  BY <1>1, CoreFrame DEF Inv, Core
<1>8. ChannelInv'
  BY <1>1, <1>3, <1>4, <1>5 DEF ChannelInv
<1>9. TaskInv'
  <2>1. ring = Bytes(Oldest(pushed), pushed)
    BY DEF Inv, Core, TaskInv
  <2>2. ring' = Bytes(Oldest(mid), mid)
    BY <1>1, <1>2, <1>3, <1>4, <2>1, PushKeepsRecent
  <2> QED BY <1>1, <1>4, <2>2 DEF Inv, Core, TaskInv
<1>10. /\ events' \in [Clients -> Seq(Event)]
       /\ \A c \in Clients : Listening(c) => events'[c] = Append(events[c], e)
       /\ \A c \in Clients : ~Listening(c) => events'[c] = events[c]
  BY <1>1, <1>6, SendEffect
<1>11. HandlersInv'
  BY <1>1, <1>10 DEF Inv, Core, HandlersInv
<1>12. ASSUME NEW c \in Clients PROVE Handler(c)'
  <2>1. /\ From(c)' = From(c) /\ Given(c)' = Given(c) /\ Listening(c)' = Listening(c)
        /\ Handler(c) /\ HandlersInv /\ TaskInv
    BY <1>1 DEF From, Given, Listening, Inv, Core
  <2>2. GivenInv(c)'
    <3>1. 0..pushed \subseteq 0..pushed' /\ pushed <= pushed' /\ pushed' \in Nat
      BY <1>1, <1>2, <1>4
    <3>2. From(c) \in Nat /\ Len(sent[c]) \in Nat
      <4>1. From(c) \in Nat
        BY <1>2, <2>1, WindowProperties DEF Handler
      <4>2. sent[c] \in Seq(Nat)
        BY <2>1 DEF HandlersInv
      <4> QED BY <4>1, <4>2, LenProperties
    <3>3. pc[c] # "viewed" => From(c) + Len(sent[c]) <= pushed'
      BY <1>2, <2>1, <3>1, <3>2 DEF Handler, GivenInv
    <3> QED BY <1>1, <2>1, <3>1, <3>3 DEF Handler, GivenInv
  <2>3. ListenerInv(c)'
    <3>1. SUFFICES ASSUME Listening(c) PROVE ListenerInv(c)'
      BY <2>1 DEF ListenerInv
    <3> DEFINE lo == From(c) + Len(Given(c))
    <3>2. /\ Chain(Payloads(events[c]), lo, pushed)
          /\ c \in subscribers
          /\ \A k \in 1..Len(events[c]) : IsOutput(events[c][k])
      BY <1>1, <2>1, <3>1 DEF Handler, ListenerInv
    <3>3. events[c] \in Seq(Event) /\ events'[c] = Append(events[c], e)
      BY <1>10, <3>1 DEF Inv, Core, HandlersInv
    <3>4. lo \in Nat
      <4>1. From(c) \in Nat
        BY <1>2, <2>1, WindowProperties DEF Handler
      <4>2. Given(c) \in Seq(Nat)
        BY <2>1 DEF Given, HandlersInv
      <4> QED BY <4>1, <4>2, LenProperties
    <3>5. Payloads(events'[c]) = Append(Payloads(events[c]), Bytes(pushed, mid))
      BY <1>6, <3>3, PayloadsAppend
    <3> HIDE DEF lo
    <3>6. Chain(Payloads(events'[c]), lo, mid)
      BY <1>2, <1>4, <3>2, <3>3, <3>4, <3>5, PayloadsProperties, ChainAppend
    <3>7. Chain(Payloads(events[c])', lo', pushed')
      BY <1>1, <1>4, <2>1, <3>6 DEF lo, Payloads
    <3>8. \A k \in 1..Len(events'[c]) : IsOutput(events'[c][k])
      BY <1>6, <3>2, <3>3, AppendProperties, LenProperties DEF IsOutput
    <3>9. c \in subscribers' /\ task' = "running"
      BY <1>1, <3>1, <3>2
    <3> QED BY <3>1, <3>7, <3>8, <3>9 DEF ListenerInv, lo, IsOutput
  <2>4. EndInv(c)'
    BY <1>1, <1>10, <2>1 DEF Handler, EndInv
  <2> QED BY <2>2, <2>3, <2>4 DEF Handler
<1> QED BY <1>7, <1>8, <1>9, <1>11, <1>12 DEF Inv, Core

\* The end of the session, once every chunk has been taken.
LEMMA TakeEofStep ==
  ASSUME Inv, TakeEof
  PROVE  Inv'
<1> DEFINE e == Ended(ExitCode)
<1>1. /\ UNCHANGED <<terminal, producer, chunks, pushed, ring, listed, handlers>>
      /\ UNCHANGED <<fate, tty, written, read, reader, pc, backlog, sent>>
      /\ task = "running" /\ chunks = <<>> /\ reader = "done" /\ task' = "gone"
      /\ Send(subscribers, e) /\ requests' = <<>> /\ subscribers' = {}
  BY DEF TakeEof, terminal, producer, handlers
<1>2. /\ pushed \in Nat /\ read \in Nat /\ tty = FALSE /\ read = written
      /\ Chain(chunks, pushed, read) /\ chunks \in Seq(Seq(Nat))
  BY <1>1 DEF Inv, Core, TerminalInv, ReaderInv, TaskInv, ChannelInv
<1>3. pushed = written
  BY <1>1, <1>2, ChainOrder
<1>4. e \in Event /\ e.bytes = <<>> /\ ~IsOutput(e)
  BY EmptySeq DEF Ended, ExitCode, Event, IsOutput
<1> HIDE DEF e
<1>5. TerminalInv' /\ ReaderInv' /\ ChannelInv'
  BY <1>1, <1>2 DEF Inv, Core, TerminalInv, ReaderInv, ChannelInv
<1>6. TaskInv'
  BY <1>1 DEF Inv, Core, TaskInv
<1>7. RequestsInv'
  BY <1>1, EmptySeq DEF RequestsInv
<1>8. /\ events' \in [Clients -> Seq(Event)]
      /\ \A c \in Clients : Listening(c) => events'[c] = Append(events[c], e)
      /\ \A c \in Clients : ~Listening(c) => events'[c] = events[c]
  BY <1>1, <1>4, SendEffect
<1>9. HandlersInv'
  BY <1>1, <1>8 DEF Inv, Core, HandlersInv
<1>10. ASSUME NEW c \in Clients PROVE Handler(c)'
  <2>1. /\ From(c)' = From(c) /\ Given(c)' = Given(c) /\ Listening(c)' = Listening(c)
        /\ Handler(c) /\ HandlersInv /\ TaskInv
    BY <1>1 DEF From, Given, Listening, Inv, Core
  <2>2. GivenInv(c)'
    BY <1>1, <2>1 DEF Handler, GivenInv
  <2>3. ListenerInv(c)'
    <3>1. SUFFICES ASSUME Listening(c) PROVE ListenerInv(c)'
      BY <2>1 DEF ListenerInv
    <3> DEFINE lo == From(c) + Len(Given(c))
    <3>2. /\ Chain(Payloads(events[c]), lo, pushed)
          /\ \A k \in 1..Len(events[c]) : IsOutput(events[c][k])
      BY <1>1, <2>1, <3>1 DEF Handler, ListenerInv
    <3>3. events[c] \in Seq(Event) /\ events'[c] = Append(events[c], e)
      BY <1>8, <3>1 DEF Inv, Core, HandlersInv
    <3>4. lo \in Nat
      <4>1. From(c) \in Nat
        BY <1>2, <2>1, WindowProperties DEF Handler
      <4>2. Given(c) \in Seq(Nat)
        BY <2>1 DEF Given, HandlersInv
      <4> QED BY <4>1, <4>2, LenProperties
    <3>5. Payloads(events'[c]) = Append(Payloads(events[c]), Bytes(pushed, pushed))
      <4>1. Bytes(pushed, pushed) = <<>>
        BY <1>2, BytesProperties
      <4> QED BY <1>4, <3>3, <4>1, PayloadsAppend
    <3> HIDE DEF lo
    <3>6. Chain(Payloads(events'[c]), lo, pushed)
      <4>1. Payloads(events[c]) \in Seq(Seq(Nat)) /\ pushed \in Nat /\ pushed <= pushed
        BY <1>2, <3>3, PayloadsProperties
      <4>2. Chain(Append(Payloads(events[c]), Bytes(pushed, pushed)), lo, pushed)
        BY <3>2, <3>4, <4>1, ChainAppend
      <4> QED BY <3>5, <4>2
    <3>7. Chain(Payloads(events[c])', lo', pushed')
      BY <1>1, <2>1, <3>6 DEF lo, Payloads
    <3> DEFINE n == Len(events[c])
    <3>8. /\ n \in Nat /\ Len(events'[c]) = n + 1 /\ events'[c][n + 1] = e /\ events'[c] # <<>>
          /\ \A k \in 1..n : events'[c][k] = events[c][k]
      BY <1>4, <3>3, AppendProperties, LenProperties
    <3> HIDE DEF n
    <3>9. \A k \in 1..Len(events'[c]) :
            IsOutput(events'[c][k]) \/ (k = Len(events'[c]) /\ events'[c][k].bytes = <<>>)
      <4>1. ASSUME NEW k \in 1..(n + 1) PROVE IsOutput(events'[c][k]) \/ (k = n + 1 /\ events'[c][k].bytes = <<>>)
        <5>1. CASE k = n + 1
          BY <1>4, <3>8, <5>1
        <5>2. CASE k # n + 1
          <6>1. k \in 1..n
            BY <3>8, <5>2
          <6> QED BY <3>2, <3>8, <6>1 DEF IsOutput, n
        <5> QED BY <5>1, <5>2
      <4> QED BY <3>8, <4>1
    <3>10. events'[c] # <<>> /\ ~IsOutput(events'[c][Len(events'[c])])
      BY <1>4, <3>8
    <3>11. pushed' = written' /\ tty' = FALSE /\ task' = "gone"
      BY <1>1, <1>2, <1>3
    <3> QED BY <3>1, <3>7, <3>9, <3>10, <3>11 DEF ListenerInv, lo, IsOutput
  <2>4. EndInv(c)'
    BY <1>1, <1>2, <1>3, <1>8, <2>1 DEF Handler, EndInv
  <2> QED BY <2>2, <2>3, <2>4 DEF Handler
<1> QED BY <1>5, <1>6, <1>7, <1>9, <1>10 DEF Inv, Core

\* A request leaves the channel: the others are of other handlers.
LEMMA RequestTaken ==
  ASSUME Inv, requests # <<>>
  PROVE  /\ Head(requests) \in Clients /\ pc[Head(requests)] \in Waiting
         /\ Tail(requests) \in Seq(Clients)
         /\ \A k \in 1..Len(Tail(requests)) :
              /\ Tail(requests)[k] # Head(requests)
              /\ pc[Tail(requests)[k]] \in Waiting
         /\ \A i, j \in 1..Len(Tail(requests)) :
              Tail(requests)[i] = Tail(requests)[j] => i = j
<1> DEFINE n == Len(requests)
           rest == Tail(requests)
<1>1. /\ requests \in Seq(Clients)
      /\ \A k \in 1..n : pc[requests[k]] \in Waiting
      /\ \A i, j \in 1..n : requests[i] = requests[j] => i = j
  BY DEF Inv, Core, RequestsInv
<1>2. n \in Nat \ {0} /\ Head(requests) = requests[1] /\ Head(requests) \in Clients
  BY <1>1, EmptySeq, LenProperties, HeadTailProperties
<1>3. rest \in Seq(Clients) /\ Len(rest) = n - 1 /\ \A k \in 1..(n - 1) : rest[k] = requests[k+1]
  BY <1>1, <1>2, HeadTailProperties
<1> HIDE DEF n, rest
<1>4. \A k \in 1..(n - 1) : k + 1 \in 1..n /\ k + 1 # 1
  BY <1>2
<1>5. \A k \in 1..(n - 1) : rest[k] # Head(requests) /\ pc[rest[k]] \in Waiting
  BY <1>1, <1>2, <1>3, <1>4
<1>6. \A i, j \in 1..(n - 1) : rest[i] = rest[j] => i = j
  <2>1. ASSUME NEW i \in 1..(n - 1), NEW j \in 1..(n - 1), rest[i] = rest[j] PROVE i = j
    <3>1. requests[i + 1] = requests[j + 1] /\ i + 1 \in 1..n /\ j + 1 \in 1..n
      BY <1>3, <1>4, <2>1
    <3>2. i + 1 = j + 1
      BY <1>1, <3>1
    <3> QED BY <1>2, <3>2
  <2> QED BY <2>1
<1>7. pc[Head(requests)] \in Waiting
  BY <1>1, <1>2
<1> QED BY <1>2, <1>3, <1>5, <1>6, <1>7 DEF n, rest

\* A subscription: the reply is the ring, and the handler is among the
\* subscribers before the next chunk.
LEMMA TakeSubscribeStep ==
  ASSUME Inv, TakeSubscribe
  PROVE  Inv'
<1>0. PICK c0 \in Clients : c0 = Head(requests)
  BY RequestTaken DEF TakeSubscribe
<1>1. /\ UNCHANGED <<terminal, producer, chunks, task, pushed, ring, listed, sent, events>>
      /\ UNCHANGED <<fate, tty, written, read, reader>>
      /\ task = "running" /\ requests # <<>> /\ pc[c0] = "subscribing" /\ requests' = Tail(requests)
      /\ backlog' = [backlog EXCEPT ![c0] = ring] /\ subscribers' = subscribers \cup {c0}
      /\ pc' = [pc EXCEPT ![c0] = "subscribed"]
  BY <1>0 DEF TakeSubscribe, terminal, producer
<1>2. /\ c0 \in Clients
      /\ Tail(requests) \in Seq(Clients)
      /\ \A k \in 1..Len(Tail(requests)) :
           Tail(requests)[k] # c0 /\ pc[Tail(requests)[k]] \in Waiting
      /\ \A i, j \in 1..Len(Tail(requests)) :
           Tail(requests)[i] = Tail(requests)[j] => i = j
  BY <1>0, <1>1, RequestTaken
<1>3. pushed \in Nat /\ read \in Nat /\ ring = Bytes(Oldest(pushed), pushed) /\ ring \in Seq(Nat)
  <2>1. pushed \in Nat /\ read \in Nat /\ ring = Bytes(Oldest(pushed), pushed)
    BY DEF Inv, Core, TerminalInv, TaskInv
  <2>2. Oldest(pushed) \in Nat /\ Oldest(pushed) <= pushed
    BY <2>1, OldestBounds
  <2> QED BY <2>1, <2>2, BytesProperties
<1>4. HandlersInv'
  BY <1>1, <1>2, <1>3 DEF Inv, Core, HandlersInv, Holders
<1>5. pc'[c0] = "subscribed" /\ backlog'[c0] = ring
  BY <1>1, <1>2 DEF Inv, Core, HandlersInv
<1>6. \A c \in Clients : c # c0 => pc'[c] = pc[c] /\ backlog'[c] = backlog[c]
  BY <1>1, <1>2 DEF Inv, Core, HandlersInv
<1>7. TerminalInv' /\ ReaderInv' /\ ChannelInv'
  BY <1>1, CoreFrame DEF Inv, Core
<1>8. TaskInv'
  BY <1>1, <1>2 DEF Inv, Core, TaskInv
<1>9. RequestsInv'
  <2>1. \A k \in 1..Len(requests') : pc'[requests'[k]] \in Waiting
    BY <1>1, <1>2, <1>6, ElementOfSeq
  <2> QED BY <1>1, <1>2, <2>1 DEF RequestsInv
<1>10. Handler(c0)'
  <2>1. sent[c0] = <<>> /\ sent'[c0] = <<>> /\ events[c0] = <<>> /\ events'[c0] = <<>> /\ Listening(c0)'
    BY <1>1, <1>2, <1>5 DEF Inv, Handler, GivenInv, EndInv, Listening, Waiting
  <2>2. \E n \in 0..pushed' : backlog'[c0] = Bytes(Oldest(n), n)
    BY <1>1, <1>3, <1>5
  <2>3. GivenInv(c0)' /\ From(c0)' + Len(backlog'[c0]) = pushed
    <3> DEFINE o == Oldest(pushed)
    <3>1. o \in Nat /\ o <= pushed /\ (pushed # 0 => o < pushed) /\ (pushed = 0 => o = 0)
      BY <1>3, OldestBounds
    <3> HIDE DEF o
    <3>2. ring = Bytes(o, pushed)
      BY <1>3 DEF o
    <3>3. Len(ring) = pushed - o /\ (ring = <<>> <=> o = pushed) /\ \A k \in 1..(pushed - o) : ring[k] = o + k
      <4> DEFINE b == Bytes(o, pushed)
      <4>1. Len(b) = pushed - o /\ (b = <<>> <=> o = pushed) /\ \A k \in 1..(pushed - o) : b[k] = o + k
        BY <1>3, <3>1, BytesProperties
      <4>2. ring = b
        BY <3>2
      <4> HIDE DEF b
      <4> QED BY <4>1, <4>2
    <3>4. From(c0)' = o
      <4>1. CASE pushed = 0
        BY <1>5, <3>1, <3>3, <4>1 DEF From
      <4>2. CASE pushed # 0
        <5>1. ring # <<>> /\ Head(ring) = o + 1
          BY <1>3, <3>1, <3>3, <4>2
        <5> QED BY <1>3, <1>5, <3>1, <5>1 DEF From
      <4> QED BY <4>1, <4>2
    <3>5. From(c0)' + Len(backlog'[c0]) = pushed
      BY <1>3, <1>5, <3>1, <3>3, <3>4
    <3>6. sent'[c0] = Bytes(From(c0)', From(c0)' + Len(sent'[c0])) /\ From(c0)' + Len(sent'[c0]) <= pushed'
      <4>1. Len(sent'[c0]) = 0 /\ o + 0 = o
        BY <2>1, <3>1, EmptySeq
      <4>2. Bytes(o, o) = <<>>
        BY <3>1, BytesProperties
      <4> QED BY <1>1, <1>3, <2>1, <3>1, <3>4, <4>1, <4>2
    <3>7. GivenInv(c0)'
      BY <1>5, <2>1, <2>2, <3>6 DEF GivenInv, Waiting
    <3> QED BY <3>5, <3>7
  <2>4. Payloads(events[c0]) = <<>>
    <3>1. <<>> \in Seq(Event)
      BY EmptySeq
    <3> QED BY <2>1, <3>1, PayloadsProperties
  <2>5. Chain(Payloads(events[c0])', From(c0)' + Len(Given(c0)'), pushed')
    <3>1. Given(c0)' = backlog'[c0]
      BY <1>5 DEF Given
    <3>2. Payloads(events[c0])' = <<>>
      BY <2>1, <2>4 DEF Payloads
    <3> QED BY <1>1, <1>3, <2>3, <3>1, <3>2, ChainEmpty
  <2>6. ListenerInv(c0)'
    <3>1. Len(events'[c0]) = 0 /\ c0 \in subscribers' /\ task' = "running"
      BY <1>1, <2>1, EmptySeq
    <3> QED BY <2>1, <2>5, <3>1 DEF ListenerInv
  <2>7. EndInv(c0)'
    BY <1>5, <2>1 DEF EndInv
  <2> QED BY <2>3, <2>6, <2>7 DEF Handler
<1>11. ASSUME NEW c \in Clients, c # c0 PROVE Handler(c)'
  BY <1>1, <1>6, <1>11, HandlerFrame DEF Inv
<1> QED BY <1>4, <1>7, <1>8, <1>9, <1>10, <1>11 DEF Inv, Core

\* A snapshot is the ring.
LEMMA TakeSnapshotStep ==
  ASSUME Inv, TakeSnapshot
  PROVE  Inv'
<1>0. PICK c0 \in Clients : c0 = Head(requests)
  BY RequestTaken DEF TakeSnapshot
<1>1. /\ UNCHANGED <<terminal, producer, chunks, session, listed, backlog, events>>
      /\ UNCHANGED <<fate, tty, written, read, reader, task, pushed, ring, subscribers>>
      /\ task = "running" /\ requests # <<>> /\ pc[c0] = "snapshotting" /\ requests' = Tail(requests)
      /\ sent' = [sent EXCEPT ![c0] = ring]
      /\ pc' = [pc EXCEPT ![c0] = "viewed"]
  BY <1>0 DEF TakeSnapshot, terminal, producer, session
<1>2. /\ c0 \in Clients
      /\ Tail(requests) \in Seq(Clients)
      /\ \A k \in 1..Len(Tail(requests)) :
           Tail(requests)[k] # c0 /\ pc[Tail(requests)[k]] \in Waiting
      /\ \A i, j \in 1..Len(Tail(requests)) :
           Tail(requests)[i] = Tail(requests)[j] => i = j
  BY <1>0, <1>1, RequestTaken
<1>3. pushed \in Nat /\ ring = Bytes(Oldest(pushed), pushed) /\ ring \in Seq(Nat)
  <2>1. pushed \in Nat /\ ring = Bytes(Oldest(pushed), pushed)
    BY DEF Inv, Core, TaskInv
  <2>2. Oldest(pushed) \in Nat /\ Oldest(pushed) <= pushed
    BY <2>1, OldestBounds
  <2> QED BY <2>1, <2>2, BytesProperties
<1>4. HandlersInv'
  BY <1>1, <1>2, <1>3 DEF Inv, Core, HandlersInv, Ends
<1>5. pc'[c0] = "viewed" /\ sent'[c0] = ring
  BY <1>1, <1>2 DEF Inv, Core, HandlersInv
<1>6. \A c \in Clients : c # c0 => pc'[c] = pc[c] /\ sent'[c] = sent[c]
  BY <1>1, <1>2 DEF Inv, Core, HandlersInv
<1>7. TerminalInv' /\ ReaderInv' /\ ChannelInv'
  BY <1>1, CoreFrame DEF Inv, Core
<1>8. TaskInv'
  BY <1>1 DEF Inv, Core, TaskInv
<1>9. RequestsInv'
  <2>1. \A k \in 1..Len(requests') : pc'[requests'[k]] \in Waiting
    BY <1>1, <1>2, <1>6, ElementOfSeq
  <2> QED BY <1>1, <1>2, <2>1 DEF RequestsInv
<1>10. Handler(c0)'
  <2>1. backlog'[c0] = <<>> /\ events'[c0] = <<>> /\ ~Listening(c0)'
    BY <1>1, <1>2, <1>5 DEF Inv, Handler, GivenInv, EndInv, Listening, Waiting
  <2>2. GivenInv(c0)'
    BY <1>1, <1>2, <1>3, <1>5, <2>1 DEF Inv, Handler, GivenInv, Waiting
  <2>3. ListenerInv(c0)' /\ EndInv(c0)'
    BY <1>5, <2>1 DEF ListenerInv, EndInv
  <2> QED BY <2>2, <2>3 DEF Handler
<1>11. ASSUME NEW c \in Clients, c # c0 PROVE Handler(c)'
  BY <1>1, <1>6, <1>11, HandlerFrame DEF Inv
<1> QED BY <1>4, <1>7, <1>8, <1>9, <1>10, <1>11 DEF Inv, Core

\* Steps that move one handler from place to place.
LEMMA GotoEffect ==
  ASSUME HandlersInv, NEW c \in Clients, NEW s \in {"idle"} \cup Holders \cup Ends, Goto(c, s)
  PROVE  /\ pc' \in [Clients -> {"idle"} \cup Holders \cup Ends] /\ pc'[c] = s
         /\ \A d \in Clients : d # c => pc'[d] = pc[d]
BY DEF HandlersInv, Goto

\* A handler finds the entry, and clones it (server.rs, handle_attach and View).
LEMMA LookupStep ==
  ASSUME Inv, NEW c \in Clients, NEW what \in {"attach", "view"}, Lookup(c, what)
  PROVE  Inv'
<1>1. /\ UNCHANGED <<terminal, producer, chunks, session, requests, listed, backlog, sent, events>>
      /\ UNCHANGED <<fate, tty, written, read, reader, task, pushed, ring, subscribers>>
      /\ pc[c] = "idle" /\ listed
  BY DEF Lookup, terminal, producer, session
<1>2. /\ pc' \in [Clients -> {"idle"} \cup Holders \cup Ends] /\ pc'[c] = what
      /\ \A d \in Clients : d # c => pc'[d] = pc[d]
  BY GotoEffect DEF Lookup, Inv, Core, Holders
<1>3. TerminalInv' /\ ReaderInv' /\ ChannelInv'
  BY <1>1, CoreFrame DEF Inv, Core
<1>4. TaskInv'
  <2>1. task # "draining"
    BY <1>1 DEF Inv, Core, TaskInv, Unwanted
  <2> QED BY <1>1, <2>1 DEF Inv, Core, TaskInv
<1>5. RequestsInv'
  <2>1. \A k \in 1..Len(requests) : requests[k] # c /\ requests[k] \in Clients
    BY <1>1, ElementOfSeq DEF Inv, Core, RequestsInv, Waiting
  <2> QED BY <1>1, <1>2, <2>1 DEF Inv, Core, RequestsInv
<1>6. HandlersInv'
  BY <1>1, <1>2 DEF Inv, Core, HandlersInv
<1>7. Handler(c)'
  <2>1. backlog[c] = <<>> /\ sent[c] = <<>> /\ events[c] = <<>> /\ ~Listening(c)'
    BY <1>1, <1>2 DEF Inv, Handler, GivenInv, EndInv, Listening
  <2>2. GivenInv(c)'
    BY <1>1, <1>2, <2>1 DEF Inv, Handler, GivenInv, From
  <2>3. ListenerInv(c)' /\ EndInv(c)'
    BY <1>1, <1>2, <2>1 DEF ListenerInv, EndInv
  <2> QED BY <2>2, <2>3 DEF Handler
<1>8. ASSUME NEW d \in Clients, d # c PROVE Handler(d)'
  BY <1>1, <1>2, <1>8, HandlerFrame DEF Inv
<1> QED BY <1>3, <1>4, <1>5, <1>6, <1>7, <1>8 DEF Inv, Core

\* A request enters the channel; its handler has none there yet.
LEMMA RequestStep ==
  ASSUME Inv, NEW c \in Clients, Request(c)
  PROVE  Inv'
<1> DEFINE s == IF pc[c] = "attach" THEN "subscribing" ELSE "snapshotting"
<1>1. /\ UNCHANGED <<terminal, producer, chunks, session, listed, backlog, sent, events>>
      /\ UNCHANGED <<fate, tty, written, read, reader, task, pushed, ring, subscribers>>
      /\ pc[c] \in {"attach", "view"} /\ task # "gone"
      /\ requests' = Append(requests, c) /\ Goto(c, s)
  BY DEF Request, terminal, producer, session
<1>2. s \in Waiting
  BY DEF Waiting
<1> HIDE DEF s
<1>3. /\ pc' \in [Clients -> {"idle"} \cup Holders \cup Ends] /\ pc'[c] \in Waiting
      /\ \A d \in Clients : d # c => pc'[d] = pc[d]
  BY <1>1, <1>2, GotoEffect DEF Inv, Core, Holders
<1>4. task = "running"
  BY <1>1 DEF Inv, Core, TaskInv, Unwanted, Holders
<1>5. TerminalInv' /\ ReaderInv' /\ ChannelInv'
  BY <1>1, CoreFrame DEF Inv, Core
<1>6. TaskInv'
  BY <1>1, <1>4 DEF Inv, Core, TaskInv
<1>7. RequestsInv'
  <2> DEFINE n == Len(requests)
  <2>1. requests \in Seq(Clients) /\ n \in Nat
    BY LenProperties DEF Inv, Core, RequestsInv
  <2>2. \A k \in 1..n : requests[k] # c /\ requests[k] \in Clients /\ pc[requests[k]] \in Waiting
    BY <1>1, <2>1, ElementOfSeq DEF Inv, Core, RequestsInv, Waiting
  <2>3. /\ requests' \in Seq(Clients) /\ Len(requests') = n + 1 /\ requests'[n + 1] = c
        /\ \A k \in 1..n : requests'[k] = requests[k]
    BY <1>1, <2>1, AppendProperties
  <2>4. \A i, j \in 1..n : requests[i] = requests[j] => i = j
    BY DEF Inv, Core, RequestsInv
  <2> HIDE DEF n
  <2>5. ASSUME NEW k \in 1..(n + 1) PROVE pc'[requests'[k]] \in Waiting
    <3>1. CASE k = n + 1
      BY <1>3, <2>3, <3>1
    <3>2. CASE k # n + 1
      <4>1. k \in 1..n
        BY <2>1, <3>2
      <4> QED BY <1>3, <2>2, <2>3, <4>1
    <3> QED BY <3>1, <3>2
  <2>6. ASSUME NEW i \in 1..(n + 1), NEW j \in 1..(n + 1), requests'[i] = requests'[j] PROVE i = j
    <3>1. CASE i \in 1..n /\ j \in 1..n
      BY <2>3, <2>4, <2>6, <3>1
    <3>2. CASE i \in 1..n /\ j = n + 1
      BY <2>2, <2>3, <2>6, <3>2
    <3>3. CASE j \in 1..n /\ i = n + 1
      BY <2>2, <2>3, <2>6, <3>3
    <3>4. CASE i = n + 1 /\ j = n + 1
      BY <3>4
    <3> QED BY <2>1, <3>1, <3>2, <3>3, <3>4
  <2> QED BY <1>1, <1>4, <2>3, <2>5, <2>6 DEF RequestsInv
<1>8. HandlersInv'
  BY <1>1, <1>3 DEF Inv, Core, HandlersInv
<1>9. Handler(c)'
  <2>1. /\ backlog[c] = <<>> /\ sent[c] = <<>> /\ events[c] = <<>>
        /\ ~Listening(c)' /\ pc'[c] \notin {"viewed", "subscribed", "endedZero", "endedNonzero"}
    BY <1>1, <1>3 DEF Inv, Handler, GivenInv, EndInv, Listening, Waiting
  <2>2. GivenInv(c)'
    BY <1>1, <2>1 DEF Inv, Handler, GivenInv, From
  <2>3. ListenerInv(c)' /\ EndInv(c)'
    BY <1>1, <2>1 DEF ListenerInv, EndInv
  <2> QED BY <2>2, <2>3 DEF Handler
<1>10. ASSUME NEW d \in Clients, d # c PROVE Handler(d)'
  BY <1>1, <1>3, <1>10, HandlerFrame DEF Inv
<1> QED BY <1>5, <1>6, <1>7, <1>8, <1>9, <1>10 DEF Inv, Core

\* Handlers that move while no request of theirs is in the channel, and ask for
\* no new place among the holders of an inbox.
LEMMA MoveCore ==
  ASSUME Inv, NEW c \in Clients, NEW s \in {"idle"} \cup Holders \cup Ends, Goto(c, s),
         UNCHANGED <<terminal, producer, chunks, session, requests, listed>>,
         \A k \in 1..Len(requests) : requests[k] # c,
         s \in Holders => pc[c] \in Holders
  PROVE  /\ TerminalInv' /\ ReaderInv' /\ ChannelInv' /\ TaskInv' /\ RequestsInv'
         /\ pc' \in [Clients -> {"idle"} \cup Holders \cup Ends] /\ pc'[c] = s
         /\ \A d \in Clients : d # c => pc'[d] = pc[d]
<1>1. UNCHANGED <<fate, tty, written, read, reader, task, pushed, ring, subscribers>>
  BY DEF terminal, producer, session
<1>2. /\ pc' \in [Clients -> {"idle"} \cup Holders \cup Ends] /\ pc'[c] = s
      /\ \A d \in Clients : d # c => pc'[d] = pc[d]
  BY GotoEffect DEF Inv, Core
<1>3. TerminalInv' /\ ReaderInv' /\ ChannelInv'
  BY <1>1, CoreFrame DEF Inv, Core
<1>4. TaskInv'
  <2>1. Unwanted => Unwanted'
    BY <1>2 DEF Unwanted
  <2> QED BY <1>1, <2>1 DEF Inv, Core, TaskInv
<1>5. RequestsInv'
  <2>1. \A k \in 1..Len(requests) : requests[k] \in Clients
    BY ElementOfSeq DEF Inv, Core, RequestsInv
  <2> QED BY <1>1, <1>2, <2>1 DEF Inv, Core, RequestsInv
<1> QED BY <1>2, <1>3, <1>4, <1>5

\* A handler finds no task, or its reply dropped.
LEMMA RefusedStep ==
  ASSUME Inv, NEW c \in Clients, Refused(c)
  PROVE  Inv'
<1>1. /\ UNCHANGED <<terminal, producer, chunks, session, requests, listed, backlog, sent, events>>
      /\ UNCHANGED <<fate, tty, written, read, reader, task, pushed, ring, subscribers>>
      /\ pc[c] \in {"attach", "view"} \cup Waiting /\ task = "gone" /\ Goto(c, "refused")
  BY DEF Refused, terminal, producer, session
<1>2. \A k \in 1..Len(requests) : requests[k] # c
  BY <1>1, EmptySeq DEF Inv, Core, RequestsInv
<1>3. /\ TerminalInv' /\ ReaderInv' /\ ChannelInv' /\ TaskInv' /\ RequestsInv'
      /\ pc' \in [Clients -> {"idle"} \cup Holders \cup Ends] /\ pc'[c] = "refused"
      /\ \A d \in Clients : d # c => pc'[d] = pc[d]
  BY <1>1, <1>2, MoveCore DEF Holders, Ends
<1>4. HandlersInv'
  BY <1>1, <1>3 DEF Inv, Core, HandlersInv
<1>5. Handler(c)'
  <2>1. backlog[c] = <<>> /\ sent[c] = <<>> /\ events[c] = <<>> /\ ~Listening(c)'
    BY <1>1, <1>3 DEF Inv, Handler, GivenInv, EndInv, Listening, Waiting
  <2>2. GivenInv(c)'
    BY <1>1, <1>3, <2>1 DEF Inv, Handler, GivenInv, From, Waiting
  <2>3. ListenerInv(c)' /\ EndInv(c)'
    BY <1>1, <1>3, <2>1 DEF ListenerInv, EndInv
  <2> QED BY <2>2, <2>3 DEF Handler
<1>6. ASSUME NEW d \in Clients, d # c PROVE Handler(d)'
  BY <1>1, <1>3, <1>6, HandlerFrame DEF Inv
<1> QED BY <1>3, <1>4, <1>5, <1>6 DEF Inv, Core

\* No request of a listener is in the channel.
LEMMA ListenerAsksNothing ==
  ASSUME Inv, NEW c \in Clients, Listening(c)
  PROVE  \A k \in 1..Len(requests) : requests[k] # c
BY DEF Inv, Core, RequestsInv, Listening, Waiting

\* The backlog of the SubscribeReply is written first (server.rs, handle_attach).
LEMMA WriteBacklogStep ==
  ASSUME Inv, NEW c \in Clients, WriteBacklog(c)
  PROVE  Inv'
<1>1. /\ UNCHANGED <<terminal, producer, chunks, session, requests, listed, backlog, events>>
      /\ UNCHANGED <<fate, tty, written, read, reader, task, pushed, ring, subscribers>>
      /\ pc[c] = "subscribed" /\ Goto(c, "streaming") /\ sent' = [sent EXCEPT ![c] = backlog[c]]
  BY DEF WriteBacklog, terminal, producer, session
<1>2. /\ TerminalInv' /\ ReaderInv' /\ ChannelInv' /\ TaskInv' /\ RequestsInv'
      /\ pc' \in [Clients -> {"idle"} \cup Holders \cup Ends] /\ pc'[c] = "streaming"
      /\ \A d \in Clients : d # c => pc'[d] = pc[d]
  <2>1. \A k \in 1..Len(requests) : requests[k] # c
    BY <1>1, ListenerAsksNothing DEF Listening
  <2> QED BY <1>1, <2>1, MoveCore DEF Holders
<1>3. /\ HandlersInv' /\ sent'[c] = backlog[c]
      /\ \A d \in Clients : d # c => sent'[d] = sent[d]
  BY <1>1, <1>2 DEF Inv, Core, HandlersInv
<1>4. Handler(c)'
  <2>1. Listening(c) /\ Listening(c)' /\ From(c)' = From(c) /\ Given(c)' = Given(c)
    BY <1>1, <1>2, <1>3 DEF Listening, From, Given
  <2>2. /\ backlog[c] = Bytes(From(c), From(c) + Len(backlog[c]))
        /\ From(c) + Len(backlog[c]) <= pushed
    BY WindowProperties DEF Inv, Core, Handler
  <2>3. GivenInv(c)'
    BY <1>1, <1>2, <1>3, <2>1, <2>2 DEF Inv, Handler, GivenInv, Waiting
  <2>4. ListenerInv(c)'
    BY <1>1, <2>1 DEF Inv, Handler, ListenerInv
  <2>5. EndInv(c)'
    BY <1>2, <2>1 DEF EndInv
  <2> QED BY <2>3, <2>4, <2>5 DEF Handler
<1>5. ASSUME NEW d \in Clients, d # c PROVE Handler(d)'
  BY <1>1, <1>2, <1>3, <1>5, HandlerFrame DEF Inv
<1> QED BY <1>2, <1>3, <1>4, <1>5 DEF Inv, Core

\* What a streaming handler forwards follows what it has written.
LEMMA ForwardNext ==
  ASSUME Inv, NEW c \in Clients, pc[c] = "streaming", events[c] # <<>>
  PROVE  \E mid \in (From(c) + Len(sent[c]))..pushed :
           /\ Head(events[c]).bytes = Bytes(From(c) + Len(sent[c]), mid)
           /\ sent[c] \o Head(events[c]).bytes = Bytes(From(c), mid)
           /\ From(c) + Len(sent[c] \o Head(events[c]).bytes) = mid
           /\ Chain(Payloads(Tail(events[c])), mid, pushed)
<1> DEFINE lo == From(c)
           at == lo + Len(sent[c])
           e  == Head(events[c])
<1>1. lo \in Nat /\ pushed \in Nat
  BY WindowProperties DEF Inv, Core, Handler, TaskInv
<1>2. sent[c] \in Seq(Nat) /\ Len(sent[c]) \in Nat /\ events[c] \in Seq(Event)
  BY LenProperties DEF Inv, Core, HandlersInv
<1>3. sent[c] = Bytes(lo, at) /\ at <= pushed
  BY DEF Inv, Handler, GivenInv
<1>4. Chain(Payloads(events[c]), at, pushed)
  BY DEF Inv, Handler, ListenerInv, Listening, Given
<1>5. /\ Payloads(events[c]) \in Seq(Seq(Nat)) /\ Payloads(events[c]) # <<>>
      /\ Payloads(Tail(events[c])) = Tail(Payloads(events[c]))
      /\ Head(Payloads(events[c])) = e.bytes
  BY <1>2, PayloadsProperties, PayloadsTail
<1>6. at \in Nat /\ lo <= at
  BY <1>1, <1>2
<1> HIDE DEF lo, at, e
<1>7. PICK mid \in at..pushed : e.bytes = Bytes(at, mid) /\ Chain(Payloads(Tail(events[c])), mid, pushed)
  BY <1>1, <1>4, <1>5, <1>6, ChainHead
<1>8. mid \in Nat /\ at <= mid /\ lo <= mid
  BY <1>1, <1>6, <1>7
<1>9. sent[c] \o e.bytes = Bytes(lo, mid)
  <2>1. Bytes(lo, at) \o Bytes(at, mid) = Bytes(lo, mid)
    BY <1>1, <1>6, <1>8, BytesConcat
  <2> QED BY <1>3, <1>7, <2>1
<1>10. lo + Len(sent[c] \o e.bytes) = mid
  <2>1. Len(Bytes(lo, mid)) = mid - lo
    BY <1>1, <1>8, BytesProperties
  <2> QED BY <1>1, <1>8, <1>9, <2>1
<1> QED BY <1>7, <1>9, <1>10 DEF lo, at, e

\* An output event is written to the client.
LEMMA ForwardOutputStep ==
  ASSUME Inv, NEW c \in Clients, ForwardOutput(c)
  PROVE  Inv'
<1> DEFINE e == Head(events[c])
<1>1. /\ UNCHANGED <<terminal, producer, chunks, session, requests, listed, pc, backlog>>
      /\ UNCHANGED <<fate, tty, written, read, reader, task, pushed, ring, subscribers>>
      /\ pc[c] = "streaming" /\ events[c] # <<>> /\ IsOutput(e)
      /\ sent' = [sent EXCEPT ![c] = sent[c] \o e.bytes]
      /\ events' = [events EXCEPT ![c] = Tail(events[c])]
  BY DEF ForwardOutput, terminal, producer, session
<1>2. PICK mid \in (From(c) + Len(sent[c]))..pushed :
        /\ sent[c] \o e.bytes = Bytes(From(c), mid)
        /\ From(c) + Len(sent[c] \o e.bytes) = mid
        /\ Chain(Payloads(Tail(events[c])), mid, pushed)
  BY <1>1, ForwardNext
<1>3. /\ From(c) \in Nat /\ Len(sent[c]) \in Nat /\ pushed \in Nat /\ mid \in Nat
      /\ From(c) <= mid /\ mid <= pushed
  <2>1. From(c) \in Nat /\ pushed \in Nat
    BY WindowProperties DEF Inv, Core, Handler, TaskInv
  <2>2. Len(sent[c]) \in Nat
    BY LenProperties DEF Inv, Core, HandlersInv
  <2> QED BY <1>2, <2>1, <2>2
<1>4. /\ events[c] \in Seq(Event) /\ e \in Event /\ Tail(events[c]) \in Seq(Event)
      /\ Len(Tail(events[c])) = Len(events[c]) - 1 /\ Len(events[c]) \in Nat \ {0}
      /\ \A k \in 1..(Len(events[c]) - 1) : Tail(events[c])[k] = events[c][k+1]
  <2>1. events[c] \in Seq(Event)
    BY DEF Inv, Core, HandlersInv
  <2> QED BY <1>1, <2>1, EmptySeq, HeadTailProperties
<1>5. Bytes(From(c), mid) \in Seq(Nat)
  BY <1>3, BytesProperties
<1>6. TerminalInv' /\ ReaderInv' /\ ChannelInv' /\ TaskInv' /\ RequestsInv'
  BY <1>1, CoreFrame DEF Inv, Core
<1>7. /\ HandlersInv' /\ sent'[c] = Bytes(From(c), mid) /\ events'[c] = Tail(events[c])
      /\ \A d \in Clients : d # c => sent'[d] = sent[d] /\ events'[d] = events[d]
  BY <1>1, <1>2, <1>4, <1>5 DEF Inv, Core, HandlersInv
<1>8. Handler(c)'
  <2>1. Listening(c) /\ Listening(c)' /\ From(c)' = From(c) /\ Given(c)' = sent'[c]
    BY <1>1, <1>7 DEF Listening, From, Given
  <2>2. From(c)' + Len(sent'[c]) = mid
    BY <1>2, <1>7, <2>1
  <2>3. GivenInv(c)'
    BY <1>1, <1>3, <1>7, <2>1, <2>2 DEF Inv, Handler, GivenInv, Waiting
  <2>4. Chain(Payloads(events[c])', From(c)' + Len(Given(c)'), pushed')
    BY <1>1, <1>2, <1>7, <2>1, <2>2 DEF Payloads
  <2>5. /\ \A k \in 1..Len(events[c]) :
             IsOutput(events[c][k]) \/ (k = Len(events[c]) /\ events[c][k].bytes = <<>> /\ task = "gone")
        /\ task = "gone" => /\ ~IsOutput(events[c][Len(events[c])])
                            /\ pushed = written /\ tty = FALSE
        /\ task = "running" => c \in subscribers
    BY <2>1 DEF Inv, Handler, ListenerInv
  <2> DEFINE n == Len(events[c])
             t == Tail(events[c])
  <2>6. \A k \in 1..(n - 1) : k + 1 \in 1..n /\ (k + 1 = n => k = n - 1)
    BY <1>4
  <2>7. \A k \in 1..(n - 1) : IsOutput(t[k]) \/ (k = n - 1 /\ t[k].bytes = <<>> /\ task = "gone")
    BY <1>4, <2>5, <2>6
  <2>8. ASSUME task = "gone" PROVE t # <<>> /\ ~IsOutput(t[n - 1])
    <3>1. n # 1
      <4>1. CASE n = 1
        <5>1. Head(events[c]) = events[c][1]
          BY <1>4
        <5> QED BY <1>1, <2>5, <2>8, <4>1, <5>1
      <4> QED BY <4>1
    <3>2. n - 1 \in 1..(n - 1) /\ (n - 1) + 1 = n
      <4>1. n \in Nat \ {0}
        BY <1>4
      <4> HIDE DEF n
      <4> QED BY <3>1, <4>1
    <3>3. Len(t) # 0 /\ t[n - 1] = events[c][n]
      BY <1>4, <3>1, <3>2
    <3> QED BY <2>5, <2>8, <3>3, EmptySeq
  <2>9. ListenerInv(c)'
    <3>1. events'[c] = t /\ Len(events'[c]) = n - 1
      BY <1>4, <1>7
    <3> HIDE DEF n, t
    <3>2. \A k \in 1..Len(events'[c]) :
            IsOutput(events'[c][k])
              \/ (k = Len(events'[c]) /\ events'[c][k].bytes = <<>> /\ task' = "gone")
      BY <1>1, <2>7, <3>1
    <3>3. task' = "gone" => events'[c] # <<>> /\ ~IsOutput(events'[c][Len(events'[c])])
      BY <1>1, <2>8, <3>1
    <3> QED BY <1>1, <2>4, <2>5, <3>2, <3>3 DEF ListenerInv, IsOutput
  <2>10. EndInv(c)'
    BY <1>1, <2>1 DEF EndInv
  <2> QED BY <2>3, <2>9, <2>10 DEF Handler
<1>9. ASSUME NEW d \in Clients, d # c PROVE Handler(d)'
  BY <1>1, <1>7, <1>9, HandlerFrame DEF Inv
<1> QED BY <1>6, <1>7, <1>8, <1>9 DEF Inv, Core

\* The end is forwarded when it is the only event left.
LEMMA ForwardEndedStep ==
  ASSUME Inv, NEW c \in Clients, ForwardEnded(c)
  PROVE  Inv'
<1> DEFINE e == Head(events[c])
<1>1. /\ UNCHANGED <<terminal, producer, chunks, session, requests, listed, backlog, sent>>
      /\ UNCHANGED <<fate, tty, written, read, reader, task, pushed, ring, subscribers>>
      /\ pc[c] = "streaming" /\ events[c] # <<>> /\ ~IsOutput(e)
      /\ Goto(c, e.type) /\ events' = [events EXCEPT ![c] = <<>>]
  BY DEF ForwardEnded, terminal, producer, session
<1>2. events[c] \in Seq(Event) /\ e \in Event /\ e = events[c][1] /\ Len(events[c]) \in Nat \ {0}
  <2>1. events[c] \in Seq(Event)
    BY DEF Inv, Core, HandlersInv
  <2> QED BY <1>1, <2>1, EmptySeq, HeadTailProperties
<1>3. e.type \in {"endedZero", "endedNonzero"}
  BY <1>1, <1>2 DEF Event, IsOutput
<1>4. /\ TerminalInv' /\ ReaderInv' /\ ChannelInv' /\ TaskInv' /\ RequestsInv'
      /\ pc' \in [Clients -> {"idle"} \cup Holders \cup Ends] /\ pc'[c] = e.type
      /\ \A d \in Clients : d # c => pc'[d] = pc[d]
  <2>1. \A k \in 1..Len(requests) : requests[k] # c
    BY <1>1, ListenerAsksNothing DEF Listening
  <2> HIDE DEF e
  <2> QED BY <1>1, <1>3, <2>1, MoveCore DEF Holders, Ends, Waiting
<1>5. /\ HandlersInv' /\ events'[c] = <<>>
      /\ \A d \in Clients : d # c => events'[d] = events[d]
  BY <1>1, <1>4, EmptySeq DEF Inv, Core, HandlersInv
<1>6. Handler(c)'
  <2>1. Listening(c) /\ Given(c) = sent[c] /\ From(c)' = From(c) /\ ~Listening(c)'
    BY <1>1, <1>3, <1>4 DEF Listening, Given, From
  <2>2. /\ 1 = Len(events[c]) /\ e.bytes = <<>> /\ task = "gone"
        /\ pushed = written /\ tty = FALSE
    <3>1. 1 \in 1..Len(events[c])
      BY <1>2
    <3> HIDE DEF e
    <3> QED BY <1>1, <1>2, <2>1, <3>1 DEF Inv, Handler, ListenerInv
  <2>3. From(c) + Len(sent[c]) = pushed
    <3>1. PICK mid \in (From(c) + Len(sent[c]))..pushed :
            /\ From(c) + Len(sent[c] \o e.bytes) = mid
            /\ Chain(Payloads(Tail(events[c])), mid, pushed)
      BY <1>1, ForwardNext
    <3>2. Tail(events[c]) \in Seq(Event) /\ Len(Tail(events[c])) = 0
      BY <1>1, <1>2, <2>2, HeadTailProperties
    <3>3. Payloads(Tail(events[c])) = <<>> /\ Payloads(Tail(events[c])) \in Seq(Seq(Nat))
      BY <3>2, EmptySeq, PayloadsProperties
    <3>4. From(c) \in Nat /\ pushed \in Nat
      BY WindowProperties DEF Inv, Core, Handler, TaskInv
    <3>5. sent[c] \in Seq(Nat)
      BY DEF Inv, Core, HandlersInv
    <3>6. mid \in Nat /\ sent[c] \o e.bytes = sent[c]
      <4>1. Len(sent[c]) \in Nat
        BY <3>5, LenProperties
      <4>2. sent[c] \o <<>> = sent[c]
        BY <3>5, ConcatEmptySeq
      <4>3. mid \in (From(c) + Len(sent[c]))..pushed
        BY <3>1
      <4>4. mid \in Nat
        BY <3>4, <4>1, <4>3
      <4>5. e.bytes = <<>>
        BY <2>2
      <4> HIDE DEF e
      <4>6. sent[c] \o e.bytes = sent[c]
        BY <4>2, <4>5
      <4> QED BY <4>4, <4>6
    <3>7. mid = pushed
      BY <3>1, <3>3, <3>4, <3>6, ChainOrder
    <3> QED BY <3>1, <3>6, <3>7
  <2>4. GivenInv(c)'
    BY <1>1, <1>3, <1>4, <2>1 DEF Inv, Handler, GivenInv, Waiting
  <2>5. ListenerInv(c)' /\ EndInv(c)'
    BY <1>1, <1>5, <2>1, <2>2, <2>3 DEF ListenerInv, EndInv
  <2> QED BY <2>4, <2>5 DEF Handler
<1>7. ASSUME NEW d \in Clients, d # c PROVE Handler(d)'
  BY <1>1, <1>4, <1>5, <1>7, HandlerFrame DEF Inv
<1> QED BY <1>4, <1>5, <1>6, <1>7 DEF Inv, Core

\* A listener goes: its receiver is dropped.
LEMMA LeaveStep ==
  ASSUME Inv, NEW c \in Clients, Leave(c)
  PROVE  Inv'
<1>1. /\ UNCHANGED <<terminal, producer, chunks, session, requests, listed, backlog, sent>>
      /\ UNCHANGED <<fate, tty, written, read, reader, task, pushed, ring, subscribers>>
      /\ Listening(c) /\ Goto(c, "left") /\ events' = [events EXCEPT ![c] = <<>>]
  BY DEF Leave, terminal, producer, session
<1>2. /\ TerminalInv' /\ ReaderInv' /\ ChannelInv' /\ TaskInv' /\ RequestsInv'
      /\ pc' \in [Clients -> {"idle"} \cup Holders \cup Ends] /\ pc'[c] = "left"
      /\ \A d \in Clients : d # c => pc'[d] = pc[d]
  BY <1>1, ListenerAsksNothing, MoveCore DEF Holders, Ends, Waiting
<1>3. /\ HandlersInv' /\ events'[c] = <<>>
      /\ \A d \in Clients : d # c => events'[d] = events[d]
  BY <1>1, <1>2, EmptySeq DEF Inv, Core, HandlersInv
<1>4. Handler(c)'
  <2>1. From(c)' = From(c) /\ ~Listening(c)'
    BY <1>1, <1>2 DEF Listening, From
  <2>2. pc[c] # "viewed"
    BY <1>1 DEF Listening
  <2>3. GivenInv(c)'
    BY <1>1, <1>2, <2>1, <2>2 DEF Inv, Handler, GivenInv, Waiting
  <2>4. ListenerInv(c)' /\ EndInv(c)'
    BY <1>2, <1>3, <2>1 DEF ListenerInv, EndInv
  <2> QED BY <2>3, <2>4 DEF Handler
<1>5. ASSUME NEW d \in Clients, d # c PROVE Handler(d)'
  BY <1>1, <1>2, <1>3, <1>5, HandlerFrame DEF Inv
<1> QED BY <1>2, <1>3, <1>4, <1>5 DEF Inv, Core

\* Every step keeps the invariant.
LEMMA NextInv == Inv /\ [Next]_vars => Inv'
<1> SUFFICES ASSUME Inv, [Next]_vars PROVE Inv'
  OBVIOUS
<1>1. CASE AgentWrite \/ TtyClose \/ \E how \in {"zero", "nonzero", "signal"} : AgentExit(how)
  BY <1>1, TerminalSteps
<1>2. CASE ReaderStep
  BY <1>2, ReaderSteps
<1>3. CASE TaskStep
  BY <1>3, TakeChunkStep, TakeEofStep, TakeSubscribeStep, TakeSnapshotStep, DrainSteps DEF TaskStep
<1>4. CASE Unlist
  BY <1>4, UnlistStep
<1>5. ASSUME NEW c \in Clients,
             HandlerStep(c) \/ Leave(c) \/ \E what \in {"attach", "view"} : Lookup(c, what)
      PROVE  Inv'
  BY <1>5, RequestStep, RefusedStep, WriteBacklogStep, ForwardOutputStep, ForwardEndedStep,
     LeaveStep, LookupStep DEF HandlerStep
<1>6. CASE UNCHANGED vars
  <2>1. /\ UNCHANGED <<terminal, producer, chunks, session, requests, listed, handlers, events>>
        /\ UNCHANGED <<fate, tty, written, read, reader, task, pushed, ring, subscribers, pc, backlog, sent>>
    BY <1>6 DEF vars, terminal, producer, session, handlers
  <2>2. Core'
    BY <2>1, CoreFrame DEF Inv, Core
  <2>3. ASSUME NEW c \in Clients PROVE Handler(c)'
    BY <2>1, HandlerFrame DEF Inv
  <2> QED BY <2>2, <2>3 DEF Inv
<1> QED BY <1>1, <1>2, <1>3, <1>4, <1>5, <1>6 DEF Next

-----------------------------------------------------------------------------
(* What the invariant implies. *)

\* The invariant bounds what the type invariant bounds.
LEMMA InvTypeOK == Inv => TypeOK
<1> SUFFICES ASSUME Inv PROVE TypeOK
  OBVIOUS
<1>1. /\ fate \in {"running", "zero", "nonzero", "signal"} /\ tty \in BOOLEAN /\ listed \in BOOLEAN
      /\ reader \in {"reading", "done"} /\ task \in {"running", "draining", "gone"}
      /\ subscribers \subseteq Clients
      /\ pc \in [Clients -> {"idle"} \cup Holders \cup Ends]
  BY DEF Inv, Core, TerminalInv, ReaderInv, TaskInv, HandlersInv
<1>2. /\ read \in 0..MaxOutput /\ written \in read..(read + PtyBytes) /\ pushed \in 0..read
      /\ pushed \in Nat /\ pushed <= MaxOutput
  BY SizesAssumption DEF Inv, Core, TerminalInv, TaskInv
<1>3. ring \in Runs(1..MaxOutput) /\ Len(ring) <= RingBytes
  <2> DEFINE o == Oldest(pushed)
             b == Bytes(o, pushed)
  <2>1. o \in Nat /\ o <= pushed /\ pushed - o <= RingBytes
    BY <1>2, OldestBounds
  <2> HIDE DEF o
  <2>2. b \in Seq(Nat) /\ Len(b) = pushed - o /\ \A k \in 1..(pushed - o) : b[k] = o + k
    BY <1>2, <2>1, BytesProperties
  <2>3. ring = b
    BY DEF Inv, Core, TaskInv, o
  <2> HIDE DEF b
  <2>4. pushed - o \in 0..MaxOutput
    BY <1>2, <2>1, SizesAssumption
  <2>5. \A k \in 1..(pushed - o) : b[k] \in 1..MaxOutput
    BY <1>2, <2>1, <2>2, SizesAssumption
  <2>6. b \in [1..(pushed - o) -> 1..MaxOutput]
    BY <2>2, <2>5, LenProperties
  <2> QED BY <2>1, <2>2, <2>3, <2>4, <2>6 DEF Runs
<1>4. \A c \in Clients : Len(backlog[c]) <= RingBytes
  BY WindowProperties DEF Inv, Core, Handler
<1>5. \A k \in DOMAIN requests : requests[k] \in Clients /\ pc[requests[k]] \in Waiting
  BY LenProperties, ElementOfSeq DEF Inv, Core, RequestsInv
<1> QED BY <1>1, <1>2, <1>3, <1>4, <1>5 DEF TypeOK

\* What is on its way to a client, flattened.
LEMMA PipelineIs ==
  ASSUME Inv, NEW c \in Clients
  PROVE  /\ Listening(c) => Pipeline(c) = Bytes(From(c), pushed)
         /\ ~Listening(c) => Pipeline(c) = sent[c]
<1>1. /\ pc[c] # "subscribed" => Given(c) = sent[c]
      /\ Pipeline(c) = Given(c) \o FlattenSeq(Payloads(events[c]))
  BY DEF Pipeline, Given, Payloads
<1>2. /\ events[c] \in Seq(Event) /\ sent[c] \in Seq(Nat) /\ backlog[c] \in Seq(Nat)
      /\ HandlersInv /\ TaskInv /\ Handler(c)
  BY DEF Inv, Core, HandlersInv
<1>3. Payloads(events[c]) \in Seq(Seq(Nat))
  BY <1>2, PayloadsProperties
<1>4. /\ From(c) \in Nat /\ pushed \in Nat /\ From(c) + Len(backlog[c]) <= pushed
      /\ backlog[c] = Bytes(From(c), From(c) + Len(backlog[c]))
  BY <1>2, WindowProperties DEF Handler, TaskInv
<1>5. CASE Listening(c)
  <2> DEFINE at == From(c) + Len(Given(c))
  <2>1. Given(c) \in Seq(Nat) /\ Given(c) = Bytes(From(c), at)
    BY <1>2, <1>4, <1>5 DEF Given, Listening, Handler, GivenInv
  <2>2. at \in Nat /\ From(c) <= at
    BY <1>4, <2>1, LenProperties
  <2>3. Chain(Payloads(events[c]), at, pushed)
    BY <1>2, <1>5 DEF Handler, ListenerInv
  <2> HIDE DEF at
  <2>4. at <= pushed /\ FlattenSeq(Payloads(events[c])) = Bytes(at, pushed)
    BY <1>3, <1>4, <2>2, <2>3, ChainOrder, ChainFlattens
  <2>5. Bytes(From(c), at) \o Bytes(at, pushed) = Bytes(From(c), pushed)
    BY <1>4, <2>2, <2>4, BytesConcat
  <2> QED BY <1>1, <1>5, <2>1, <2>4, <2>5
<1>6. CASE ~Listening(c)
  <2>1. pc[c] # "subscribed" /\ events[c] = <<>>
    BY <1>2, <1>6 DEF Handler, EndInv, Listening
  <2>2. Payloads(events[c]) = <<>>
    BY <1>2, <2>1, PayloadsProperties
  <2>3. FlattenSeq(<<>>) = <<>>
    BY EmptySeq DEF FlattenSeq
  <2>4. sent[c] \o <<>> = sent[c]
    BY <1>2, ConcatEmptySeq
  <2> QED BY <1>1, <1>6, <2>1, <2>2, <2>3, <2>4
<1> QED BY <1>5, <1>6

\* A run is contiguous, and ends at its end.
LEMMA BytesContiguous ==
  ASSUME NEW lo \in Nat, NEW hi \in Nat, lo <= hi
  PROVE  /\ Contiguous(Bytes(lo, hi))
         /\ lo < hi => Bytes(lo, hi) # <<>> /\ Last(Bytes(lo, hi)) = hi
<1> DEFINE b == Bytes(lo, hi)
<1>1. b \in Seq(Nat) /\ Len(b) = hi - lo /\ (b = <<>> <=> lo = hi) /\ \A k \in 1..(hi - lo) : b[k] = lo + k
  BY BytesProperties
<1> HIDE DEF b
<1>2. ASSUME NEW k \in 2..Len(b) PROVE b[k] = b[k-1] + 1
  <2>1. k \in 1..(hi - lo) /\ k - 1 \in 1..(hi - lo)
    BY <1>1
  <2>2. b[k] = lo + k /\ b[k-1] = lo + (k - 1)
    BY <1>1, <2>1
  <2> QED BY <2>1, <2>2
<1>3. ASSUME lo < hi PROVE b # <<>> /\ Last(b) = hi
  <2>1. hi - lo \in 1..(hi - lo) /\ lo + (hi - lo) = hi
    BY <1>3
  <2> QED BY <1>1, <1>3, <2>1 DEF Last
<1> QED BY <1>2, <1>3 DEF b, Contiguous

\* The runs of the invariant are what StreamSound asks for.
LEMMA InvStreamSound == Inv => StreamSound
<1> SUFFICES ASSUME Inv PROVE StreamSound
  OBVIOUS
<1>0. /\ pushed \in Nat /\ written \in Nat /\ ring = Bytes(Oldest(pushed), pushed)
      /\ HandlersInv /\ TaskInv
  BY DEF Inv, Core, TerminalInv, TaskInv
<1>1. RingIsRecent
  BY <1>0 DEF RingIsRecent, Oldest
<1>2. ASSUME NEW c \in Clients
      PROVE  /\ From(c) \in Nat /\ From(c) <= pushed /\ (pushed > 0 => From(c) < pushed)
             /\ sent[c] \in Seq(Nat) /\ Len(sent[c]) \in Nat /\ events[c] \in Seq(Event)
             /\ Handler(c)
  <2>1. From(c) \in 0..pushed /\ (pushed # 0 => From(c) < pushed)
    BY <1>0, WindowProperties DEF Inv, Handler
  <2>2. sent[c] \in Seq(Nat) /\ events[c] \in Seq(Event)
    BY <1>0 DEF HandlersInv
  <2> QED BY <1>0, <2>1, <2>2, LenProperties DEF Inv
<1>3. ASSUME NEW c \in Clients, Listening(c)
      PROVE  Contiguous(Pipeline(c)) /\ (pushed > 0 => Pipeline(c) # <<>> /\ Last(Pipeline(c)) = pushed)
  BY <1>0, <1>2, <1>3, PipelineIs, BytesContiguous
<1>4. ASSUME NEW c \in Clients, ~Listening(c)
      PROVE  Contiguous(Pipeline(c))
  <2>1. Pipeline(c) = sent[c]
    BY <1>4, PipelineIs
  <2>2. CASE pc[c] = "viewed"
    <3>1. PICK n \in 0..pushed : sent[c] = Bytes(Oldest(n), n)
      BY <1>2, <2>2 DEF Handler, GivenInv
    <3>2. n \in Nat /\ Oldest(n) \in Nat /\ Oldest(n) <= n
      BY <1>0, OldestBounds
    <3> QED BY <2>1, <3>1, <3>2, BytesContiguous
  <2>3. CASE pc[c] # "viewed"
    <3>1. sent[c] = Bytes(From(c), From(c) + Len(sent[c]))
      BY <1>2, <2>3 DEF Handler, GivenInv
    <3>2. From(c) + Len(sent[c]) \in Nat /\ From(c) <= From(c) + Len(sent[c])
      BY <1>2
    <3> QED BY <1>2, <2>1, <3>1, <3>2, BytesContiguous
  <2> QED BY <2>2, <2>3
<1>5. NoGapNoRepeat
  BY <1>3, <1>4 DEF NoGapNoRepeat
<1>6. ASSUME NEW c \in Clients, pc[c] \in {"endedZero", "endedNonzero"}, written > 0
      PROVE  sent[c] # <<>> /\ Last(sent[c]) = written
  <2>1. pushed = written /\ From(c) + Len(sent[c]) = pushed
    BY <1>2, <1>6 DEF Handler, EndInv
  <2>2. sent[c] = Bytes(From(c), pushed)
    BY <1>2, <1>6, <2>1 DEF Handler, GivenInv
  <2> QED BY <1>0, <1>2, <1>6, <2>1, <2>2, BytesContiguous
<1>7. ASSUME NEW c \in Clients, NEW k \in DOMAIN events[c]
      PROVE  IsOutput(events[c][k]) \/ k = Len(events[c])
  <2>1. k \in 1..Len(events[c])
    BY <1>2, LenProperties
  <2>2. Listening(c)
    <3>1. CASE ~Listening(c)
      <4>1. Len(events[c]) = 0
        BY <1>2, <3>1, EmptySeq DEF Handler, EndInv
      <4> QED BY <2>1, <4>1
    <3> QED BY <3>1
  <2> QED BY <1>2, <2>1, <2>2 DEF Handler, ListenerInv
<1>8. EndedIsLast
  BY <1>6, <1>7 DEF EndedIsLast
<1>9. NobodyCutOff
  <2>1. ASSUME NEW c \in Clients, Listening(c) PROVE task # "draining"
    BY <1>0, <2>1 DEF TaskInv, Unwanted, Listening, Holders
  <2>2. ASSUME NEW c \in Clients, Listening(c), task = "gone"
        PROVE  events[c] # <<>> /\ ~IsOutput(Last(events[c]))
    BY <1>2, <2>2 DEF Handler, ListenerInv, Last
  <2> QED BY <2>1, <2>2 DEF NobodyCutOff
<1> QED BY <1>1, <1>5, <1>8, <1>9 DEF StreamSound

\* The inductive invariant holds of every reachable state.
LEMMA Invariant == Spec => []Inv
BY InitInv, NextInv, PTL DEF Spec

\* The state of the terminal, the thread, the task and the handlers is of its
\* type, the ring and every backlog within RING_BUFFER_BYTES (session.rs,
\* drain_into_session; output_session.rs, SessionTask; server.rs, handle_attach).
THEOREM TypeCorrect == Spec => []TypeOK
BY Invariant, InvTypeOK, PTL

\* A listener gets the recent bytes, everything after them, and the end, each
\* once and in order: the ring is the most recent output (push_into_ring), a
\* subscription is atomic with the fan-out (SessionTask's select!), the end
\* comes after the last byte written (on_eof), and no listener is left with a
\* task that has stopped talking (the drain-only loop).
THEOREM StreamsAreSound == Spec => []StreamSound
BY Invariant, InvStreamSound, PTL

-----------------------------------------------------------------------------
(* The session is an OutputFeed. *)

Start(s) == IF s = <<>> THEN 0 ELSE Head(s) - 1

\* A copy of the ring begins where the ring does.
LEMMA StartOfRing ==
  ASSUME NEW n \in Nat
  PROVE  Start(Bytes(Oldest(n), n)) = Oldest(n)
<1> DEFINE o == Oldest(n)
           b == Bytes(o, n)
<1>1. o \in Nat /\ o <= n /\ (n # 0 => o < n) /\ (n = 0 => o = 0)
  BY OldestBounds
<1> HIDE DEF o
<1>2. b \in Seq(Nat) /\ (b = <<>> <=> o = n) /\ \A k \in 1..(n - o) : b[k] = o + k
  BY <1>1, BytesProperties
<1> HIDE DEF b
<1>3. ASSUME n = 0 PROVE Start(b) = o
  BY <1>1, <1>2, <1>3 DEF Start
<1>4. ASSUME n # 0 PROVE Start(b) = o
  <2>1. b # <<>> /\ 1 \in 1..(n - o)
    BY <1>1, <1>2, <1>4
  <2>2. Head(b) = o + 1
    BY <1>2, <2>1
  <2> QED BY <1>1, <2>1, <2>2 DEF Start
<1>5. Start(b) = o
  BY <1>3, <1>4
<1> QED BY <1>5 DEF b, o

\* The mapped window of a client, whatever is under way to it.
LEMMA WindowStartIs ==
  ASSUME Inv, NEW c \in Clients
  PROVE  WindowStart(c) = IF pc[c] = "viewed" THEN Start(sent[c]) ELSE From(c)
<1>1. /\ HandlersInv /\ TaskInv /\ GivenInv(c) /\ sent[c] \in Seq(Nat) /\ pushed \in Nat
      /\ From(c) \in Nat /\ From(c) <= pushed /\ Len(sent[c]) \in Nat
  <2>1. HandlersInv /\ TaskInv /\ GivenInv(c)
    BY DEF Inv, Core, Handler
  <2>2. sent[c] \in Seq(Nat) /\ pushed \in Nat
    BY <2>1 DEF HandlersInv, TaskInv
  <2> QED BY <2>1, <2>2, WindowProperties, LenProperties
<1>2. CASE pc[c] = "viewed"
  <2>1. backlog[c] = <<>> /\ ~Listening(c)
    BY <1>1, <1>2 DEF GivenInv, Listening
  <2> QED BY <1>2, <2>1, PipelineIs DEF WindowStart, Start
<1>3. CASE pc[c] # "viewed" /\ backlog[c] # <<>>
  BY <1>3 DEF WindowStart, From
<1>4. CASE pc[c] # "viewed" /\ backlog[c] = <<>>
  <2>1. From(c) = 0
    BY <1>4 DEF From
  <2>2. PICK hi \in Nat : From(c) <= hi /\ Pipeline(c) = Bytes(From(c), hi)
    <3>1. CASE Listening(c)
      BY <1>1, <3>1, PipelineIs
    <3>2. CASE ~Listening(c)
      <4>1. sent[c] = Bytes(From(c), From(c) + Len(sent[c]))
        BY <1>1, <1>4 DEF GivenInv
      <4>2. From(c) + Len(sent[c]) \in Nat /\ From(c) <= From(c) + Len(sent[c])
        BY <1>1
      <4> QED BY <3>2, <4>1, <4>2, PipelineIs
    <3> QED BY <3>1, <3>2
  <2> DEFINE b == Bytes(From(c), hi)
  <2>3. b \in Seq(Nat) /\ (b = <<>> <=> From(c) = hi) /\ \A k \in 1..(hi - From(c)) : b[k] = From(c) + k
    BY <1>1, <2>2, BytesProperties
  <2>4. WindowStart(c) = Start(b)
    BY <1>4, <2>2 DEF WindowStart, Start
  <2> HIDE DEF b
  <2>5. ASSUME b # <<>> PROVE Head(b) = 1
    <3>1. 1 \in 1..(hi - From(c))
      BY <2>1, <2>2, <2>3, <2>5
    <3>2. b[1] = 1
      BY <2>1, <2>3, <3>1
    <3> QED BY <2>3, <2>5, <3>2
  <2>6. Start(b) = 0
    BY <2>5 DEF Start
  <2> QED BY <1>4, <2>1, <2>4, <2>6
<1> QED BY <1>2, <1>3, <1>4

Base(c) == IF pc[c] = "viewed" THEN Start(sent[c]) ELSE From(c)

\* The mapped windows, in terms of the invariant.
LEMMA FeedBaseIs == Inv => FeedBase = [c \in Clients |-> Base(c)]
BY WindowStartIs DEF FeedBase, Base

\* And after a step.
LEMMA FeedBaseNext == Inv' => FeedBase' = [c \in Clients |-> Base(c)']
<1>1. (Inv => FeedBase = [c \in Clients |-> Base(c)])'
  BY FeedBaseIs, PTL
<1> QED BY <1>1

\* What the clients can see changes only with the handlers.
LEMMA MapFrame ==
  ASSUME Inv, Inv', UNCHANGED <<pc, backlog, sent>>
  PROVE  UNCHANGED <<FeedState, FeedBase, sent>>
<1>1. ASSUME NEW c \in Clients
      PROVE  Standing(c)' = Standing(c) /\ Base(c)' = Base(c)
  BY DEF Standing, Listening, Base, From
<1>2. FeedBase' = FeedBase
  BY <1>1, FeedBaseIs, FeedBaseNext
<1>3. FeedState' = FeedState
  BY <1>1 DEF FeedState
<1> QED BY <1>2, <1>3

\* A step of one handler.
LEMMA MapOne ==
  ASSUME Inv, Inv', NEW c \in Clients,
         \A d \in Clients : d # c => pc'[d] = pc[d] /\ backlog'[d] = backlog[d] /\ sent'[d] = sent[d]
  PROVE  /\ FeedState' = [FeedState EXCEPT ![c] = Standing(c)']
         /\ FeedBase'  = [FeedBase  EXCEPT ![c] = Base(c)']
         /\ FeedState[c] = Standing(c) /\ FeedBase[c] = Base(c)
         /\ Standing(c)' = Standing(c) => FeedState' = FeedState
         /\ Base(c)' = Base(c) => FeedBase' = FeedBase
<1>1. ASSUME NEW d \in Clients, d # c
      PROVE  Standing(d)' = Standing(d) /\ Base(d)' = Base(d)
  BY <1>1 DEF Standing, Listening, Base, From
<1>2. FeedBase = [d \in Clients |-> Base(d)] /\ FeedBase' = [d \in Clients |-> Base(d)']
  BY FeedBaseIs, FeedBaseNext
<1>3. FeedState = [d \in Clients |-> Standing(d)] /\ FeedState' = [d \in Clients |-> Standing(d)']
  BY DEF FeedState
<1>4. FeedBase' = [FeedBase EXCEPT ![c] = Base(c)'] /\ FeedBase[c] = Base(c)
      /\ (Base(c)' = Base(c) => FeedBase' = FeedBase)
  BY <1>1, <1>2
<1>5. FeedState' = [FeedState EXCEPT ![c] = Standing(c)'] /\ FeedState[c] = Standing(c)
      /\ (Standing(c)' = Standing(c) => FeedState' = FeedState)
  BY <1>1, <1>3
<1> QED BY <1>4, <1>5

FeedStep == [Feed!Next]_(Feed!vars)

\* The initial states are initial states of the feed.
LEMMA FeedInit == Init => Feed!Init
<1> SUFFICES ASSUME Init PROVE Feed!Init
  OBVIOUS
<1>1. Inv
  BY InitInv
<1>2. FeedState = [c \in Clients |-> "idle"]
  BY DEF FeedState, Standing, Init, Waiting, Listening
<1>3. FeedBase = [c \in Clients |-> 0]
  <2>1. \A c \in Clients : Base(c) = 0
    BY DEF Base, From, Init
  <2> QED BY <1>1, <2>1, FeedBaseIs
<1> QED BY <1>2, <1>3 DEF Init, Feed!Init

\* A step that shows no client anything.
LEMMA HiddenStep ==
  ASSUME Inv, Inv', UNCHANGED <<pushed, task, pc, backlog, sent>>
  PROVE  FeedStep
BY MapFrame DEF FeedStep, Feed!vars

\* A chunk is published: push_into_ring and the fan-out, or nothing if it is empty.
LEMMA FeedTakeChunk ==
  ASSUME Inv, Inv', TakeChunk
  PROVE  FeedStep
<1>1. UNCHANGED <<FeedState, FeedBase, sent, task>> /\ task = "running"
  BY MapFrame DEF TakeChunk, handlers
<1> DEFINE n == Len(Head(chunks))
<1>2. n \in Nat
  <2>1. chunks \in Seq(Seq(Nat)) /\ chunks # <<>>
    BY DEF TakeChunk, Inv, Core, ChannelInv
  <2>2. Head(chunks) \in Seq(Nat)
    BY <2>1, HeadTailProperties
  <2> QED BY <2>2, LenProperties
<1>3. pushed' = pushed + n
  BY DEF TakeChunk
<1>4. pushed \in Nat /\ pushed' <= MaxOutput
  BY SizesAssumption DEF Inv, Core, TerminalInv, TaskInv
<1> HIDE DEF n
<1>5. CASE n = 0
  <2>1. pushed' = pushed
    BY <1>3, <1>4, <1>5
  <2> QED BY <1>1, <2>1 DEF FeedStep, Feed!vars
<1>6. CASE n # 0
  <2>1. n \in 1..(MaxOutput - pushed)
    BY <1>2, <1>3, <1>4, <1>6, SizesAssumption
  <2>2. Feed!Publish(n)
    BY <1>1, <1>3 DEF Feed!Publish
  <2> QED BY <2>1, <2>2 DEF FeedStep, Feed!Next
<1> QED BY <1>5, <1>6

\* The end of file and the last inbox gone both close the feed.
LEMMA FeedClose ==
  ASSUME Inv, Inv', TakeEof \/ StartDraining
  PROVE  FeedStep
<1>1. UNCHANGED <<FeedState, FeedBase, sent, pushed>> /\ task = "running" /\ task' # "running"
  BY MapFrame DEF TakeEof, StartDraining, handlers
<1>2. Feed!Close
  BY <1>1 DEF Feed!Close
<1> QED BY <1>2 DEF FeedStep, Feed!Next

\* A subscription joins: its window begins where the ring does.
LEMMA FeedTakeSubscribe ==
  ASSUME Inv, Inv', TakeSubscribe
  PROVE  FeedStep
<1>0. PICK c \in Clients : c = Head(requests)
  BY RequestTaken DEF TakeSubscribe
<1>1. /\ task = "running" /\ UNCHANGED <<task, pushed, sent>> /\ pc[c] = "subscribing"
      /\ backlog' = [backlog EXCEPT ![c] = ring] /\ pc' = [pc EXCEPT ![c] = "subscribed"]
  BY <1>0 DEF TakeSubscribe
<1>2. pc \in [Clients -> {"idle"} \cup Holders \cup Ends] /\ backlog \in [Clients -> Seq(Nat)]
  BY DEF Inv, Core, HandlersInv
<1>3. /\ pc'[c] = "subscribed" /\ backlog'[c] = ring
      /\ \A d \in Clients : d # c => pc'[d] = pc[d] /\ backlog'[d] = backlog[d] /\ sent'[d] = sent[d]
  BY <1>1, <1>2
<1>4. Standing(c) = "idle" /\ Standing(c)' = "open"
  BY <1>1, <1>3 DEF Standing, Waiting, Listening
<1>5. Base(c)' = Oldest(pushed)
  <2>1. ring = Bytes(Oldest(pushed), pushed) /\ pushed \in Nat
    BY DEF Inv, Core, TaskInv
  <2>2. Start(ring) = Oldest(pushed)
    BY <2>1, StartOfRing
  <2> QED BY <1>3, <2>2 DEF Base, From, Start
<1>6. /\ FeedState' = [FeedState EXCEPT ![c] = "open"] /\ FeedState[c] = "idle"
      /\ FeedBase'  = [FeedBase  EXCEPT ![c] = Oldest(pushed)]
  BY <1>3, <1>4, <1>5, MapOne
<1>7. Feed!Recent(pushed) = Oldest(pushed)
  BY DEF Feed!Recent, Oldest
<1>8. Feed!Join(c)
  BY <1>1, <1>6, <1>7 DEF Feed!Join
<1> QED BY <1>8 DEF FeedStep, Feed!Next

\* A snapshot looks: it is the ring, whole.
LEMMA FeedTakeSnapshot ==
  ASSUME Inv, Inv', TakeSnapshot
  PROVE  FeedStep
<1>0. PICK c \in Clients : c = Head(requests)
  BY RequestTaken DEF TakeSnapshot
<1>1. /\ task = "running" /\ UNCHANGED <<task, pushed, backlog>> /\ pc[c] = "snapshotting"
      /\ sent' = [sent EXCEPT ![c] = ring] /\ pc' = [pc EXCEPT ![c] = "viewed"]
  BY <1>0 DEF TakeSnapshot, session
<1>2. pc \in [Clients -> {"idle"} \cup Holders \cup Ends] /\ sent \in [Clients -> Seq(Nat)]
  BY DEF Inv, Core, HandlersInv
<1>3. /\ pc'[c] = "viewed" /\ sent'[c] = ring
      /\ \A d \in Clients : d # c => pc'[d] = pc[d] /\ backlog'[d] = backlog[d] /\ sent'[d] = sent[d]
  BY <1>1, <1>2
<1>4. Standing(c) = "idle" /\ Standing(c)' = "viewed"
  BY <1>1, <1>3 DEF Standing, Waiting, Listening
<1>5. ring = Bytes(Oldest(pushed), pushed) /\ pushed \in Nat
  BY DEF Inv, Core, TaskInv
<1>6. Base(c)' = Oldest(pushed)
  BY <1>3, <1>5, StartOfRing DEF Base
<1>7. /\ FeedState' = [FeedState EXCEPT ![c] = "viewed"] /\ FeedState[c] = "idle"
      /\ FeedBase'  = [FeedBase  EXCEPT ![c] = Oldest(pushed)]
  BY <1>3, <1>4, <1>6, MapOne
<1>8. Feed!Recent(pushed) = Oldest(pushed)
  BY DEF Feed!Recent, Oldest
<1>9. ring = Feed!Bytes(Oldest(pushed), pushed)
  BY <1>5 DEF Feed!Bytes, Bytes
<1>10. Feed!Look(c)
  BY <1>1, <1>7, <1>8, <1>9 DEF Feed!Look
<1> QED BY <1>10 DEF FeedStep, Feed!Next

\* Between the lookup and the answer a handler is idle.
LEMMA FeedAsks ==
  ASSUME Inv, Inv', NEW c \in Clients, Request(c) \/ \E what \in {"attach", "view"} : Lookup(c, what)
  PROVE  FeedStep
<1>1. /\ UNCHANGED <<task, pushed, backlog, sent>>
      /\ \E s \in {"attach", "view", "subscribing", "snapshotting"} : pc' = [pc EXCEPT ![c] = s]
      /\ pc[c] \in {"idle", "attach", "view"}
  BY DEF Request, Lookup, Goto, session
<1>2. pc \in [Clients -> {"idle"} \cup Holders \cup Ends]
  BY DEF Inv, Core, HandlersInv
<1>3. /\ pc'[c] \in {"attach", "view", "subscribing", "snapshotting"}
      /\ \A d \in Clients : d # c => pc'[d] = pc[d] /\ backlog'[d] = backlog[d] /\ sent'[d] = sent[d]
  BY <1>1, <1>2
<1>4. Standing(c)' = Standing(c)
  BY <1>1, <1>3 DEF Standing, Waiting, Listening
<1>5. Base(c)' = Base(c)
  BY <1>1, <1>3 DEF Base, From
<1>6. FeedState' = FeedState /\ FeedBase' = FeedBase
  BY <1>3, <1>4, <1>5, MapOne
<1> QED BY <1>1, <1>6 DEF FeedStep, Feed!vars

\* A refusal, a detach and the forwarded end: the ends of a handler.
LEMMA FeedLeaves ==
  ASSUME Inv, Inv', NEW c \in Clients, Refused(c) \/ Leave(c) \/ ForwardEnded(c)
  PROVE  FeedStep
<1>1. /\ UNCHANGED <<task, pushed, backlog, sent>>
      /\ \/ pc' = [pc EXCEPT ![c] = "refused"] /\ pc[c] \in {"attach", "view"} \cup Waiting /\ task = "gone"
         \/ pc' = [pc EXCEPT ![c] = "left"] /\ Listening(c)
         \/ pc' = [pc EXCEPT ![c] = Head(events[c]).type] /\ Listening(c)
            /\ events[c] # <<>> /\ ~IsOutput(Head(events[c]))
  BY DEF Refused, Leave, ForwardEnded, Goto, session, Listening
<1>2. pc \in [Clients -> {"idle"} \cup Holders \cup Ends] /\ events[c] \in Seq(Event)
  BY DEF Inv, Core, HandlersInv
<1>3. events[c] # <<>> /\ ~IsOutput(Head(events[c])) => Head(events[c]).type \in {"endedZero", "endedNonzero"}
  <2>1. events[c] # <<>> => Head(events[c]) \in Event
    BY <1>2, HeadTailProperties
  <2> QED BY <2>1 DEF Event, IsOutput
<1>4. \A d \in Clients : d # c => pc'[d] = pc[d] /\ backlog'[d] = backlog[d] /\ sent'[d] = sent[d]
  BY <1>1, <1>2
<1>5. /\ pc'[c] \in {"refused", "left", "endedZero", "endedNonzero"} /\ pc[c] # "viewed"
      /\ \/ pc'[c] = "refused" /\ Standing(c) = "idle" /\ task = "gone"
         \/ pc'[c] = "left" /\ Listening(c)
         \/ pc'[c] \in {"endedZero", "endedNonzero"} /\ Listening(c)
  BY <1>1, <1>2, <1>3 DEF Standing, Waiting, Listening
<1>6. Base(c)' = Base(c) /\ Base(c) = From(c)
  BY <1>1, <1>5 DEF Base, From
<1>7. /\ FeedState' = [FeedState EXCEPT ![c] = Standing(c)']
      /\ FeedBase' = FeedBase /\ FeedState[c] = Standing(c) /\ FeedBase[c] = From(c)
  BY <1>4, <1>6, MapOne
<1>8. CASE pc'[c] = "refused"
  <2>1. Standing(c)' = "refused"
    BY <1>8 DEF Standing, Waiting, Listening
  <2>2. Feed!Refuse(c)
    BY <1>1, <1>5, <1>7, <1>8, <2>1 DEF Feed!Refuse
  <2> QED BY <2>2 DEF FeedStep, Feed!Next
<1>9. CASE pc'[c] = "left"
  <2>1. Standing(c)' = "left" /\ Standing(c) = "open"
    BY <1>5, <1>9 DEF Standing, Waiting, Listening
  <2>2. Feed!Leave(c)
    BY <1>1, <1>7, <2>1 DEF Feed!Leave
  <2> QED BY <2>2 DEF FeedStep, Feed!Next
<1>10. CASE pc'[c] \in {"endedZero", "endedNonzero"}
  <2>1. Standing(c)' = "ended" /\ Standing(c) = "open"
    BY <1>5, <1>10 DEF Standing, Waiting, Listening
  <2>2. task' = "gone" /\ From(c)' + Len(sent'[c]) = pushed'
    BY <1>10 DEF Inv, Handler, EndInv
  <2>3. task = "gone" /\ From(c) + Len(sent[c]) = pushed
    BY <1>1, <2>2 DEF From
  <2>4. Feed!Upto(c) = pushed
    BY <1>7, <2>3 DEF Feed!Upto
  <2>5. Feed!End(c)
    BY <1>1, <1>7, <2>1, <2>3, <2>4 DEF Feed!End
  <2> QED BY <2>5 DEF FeedStep, Feed!Next
<1> QED BY <1>5, <1>8, <1>9, <1>10

\* What a handler writes to its client continues what it has written.
LEMMA FeedWrites ==
  ASSUME Inv, Inv', NEW c \in Clients, WriteBacklog(c) \/ ForwardOutput(c)
  PROVE  FeedStep
<1>1. PICK hi \in 0..pushed :
        /\ From(c) + Len(sent[c]) <= hi
        /\ sent' = [sent EXCEPT ![c] = sent[c] \o Bytes(From(c) + Len(sent[c]), hi)]
  <2>1. CASE WriteBacklog(c)
    <3> DEFINE hi == From(c) + Len(backlog[c])
    <3>1. /\ backlog[c] = Bytes(From(c), hi) /\ hi <= pushed /\ pushed \in Nat /\ From(c) \in Nat
      BY WindowProperties DEF Inv, Core, Handler, TaskInv
    <3>2. sent[c] = <<>> /\ backlog[c] \in Seq(Nat)
      BY <2>1 DEF WriteBacklog, Inv, Core, HandlersInv, Handler, GivenInv
    <3>3. Len(sent[c]) = 0 /\ Len(backlog[c]) \in Nat /\ sent[c] \o backlog[c] = backlog[c]
      BY <3>2, EmptySeq, LenProperties, ConcatEmptySeq
    <3>4. hi \in 0..pushed /\ From(c) + Len(sent[c]) = From(c) /\ From(c) <= hi
      BY <3>1, <3>3
    <3> HIDE DEF hi
    <3>5. sent' = [sent EXCEPT ![c] = sent[c] \o Bytes(From(c) + Len(sent[c]), hi)]
      BY <2>1, <3>1, <3>3, <3>4 DEF WriteBacklog
    <3> QED BY <3>4, <3>5
  <2>2. CASE ForwardOutput(c)
    <3>1. PICK hi \in (From(c) + Len(sent[c]))..pushed :
             Head(events[c]).bytes = Bytes(From(c) + Len(sent[c]), hi)
      BY <2>2, ForwardNext DEF ForwardOutput
    <3>2. From(c) \in Nat /\ Len(sent[c]) \in Nat /\ pushed \in Nat
      <4>1. HandlersInv /\ TaskInv /\ GivenInv(c)
        BY DEF Inv, Core, Handler
      <4>2. pushed \in Nat /\ sent[c] \in Seq(Nat)
        BY <4>1 DEF TaskInv, HandlersInv
      <4> QED BY <4>1, <4>2, WindowProperties, LenProperties
    <3>3. hi \in 0..pushed /\ From(c) + Len(sent[c]) <= hi
      BY <3>1, <3>2
    <3> QED BY <2>2, <3>1, <3>3 DEF ForwardOutput
  <2> QED BY <2>1, <2>2
<1>2. /\ UNCHANGED <<task, pushed, backlog>>
      /\ \A d \in Clients : d # c => pc'[d] = pc[d] /\ backlog'[d] = backlog[d] /\ sent'[d] = sent[d]
      /\ Listening(c) /\ Listening(c)'
  <2>1. pc \in [Clients -> {"idle"} \cup Holders \cup Ends] /\ sent \in [Clients -> Seq(Nat)]
    BY DEF Inv, Core, HandlersInv
  <2> QED BY <2>1 DEF WriteBacklog, ForwardOutput, Goto, session, Listening
<1>3. Standing(c) = "open" /\ Standing(c)' = "open" /\ Base(c) = From(c) /\ Base(c)' = Base(c)
  BY <1>2 DEF Standing, Listening, Waiting, Base, From
<1>4. FeedState' = FeedState /\ FeedBase' = FeedBase /\ FeedState[c] = "open" /\ FeedBase[c] = From(c)
  BY <1>2, <1>3, MapOne
<1>5. From(c) \in Nat /\ Len(sent[c]) \in Nat /\ pushed \in Nat /\ pushed <= MaxOutput /\ sent \in [Clients -> Seq(Nat)]
  <2>1. HandlersInv /\ TaskInv /\ GivenInv(c) /\ TerminalInv
    BY DEF Inv, Core, Handler
  <2>2. pushed \in Nat /\ pushed <= MaxOutput /\ sent \in [Clients -> Seq(Nat)]
    BY <2>1, SizesAssumption DEF TaskInv, TerminalInv, HandlersInv
  <2> QED BY <2>1, <2>2, WindowProperties, LenProperties
<1> DEFINE at == From(c) + Len(sent[c])
<1>6. at \in Nat /\ at <= hi /\ hi \in Nat /\ hi <= pushed
  BY <1>1, <1>5
<1> HIDE DEF at
<1>7. CASE at = hi
  <2>1. sent[c] \o Bytes(at, hi) = sent[c]
    <3>1. Bytes(at, hi) = <<>>
      BY <1>6, <1>7, BytesProperties
    <3>2. sent[c] \o <<>> = sent[c]
      BY <1>5, ConcatEmptySeq
    <3> QED BY <3>1, <3>2
  <2>2. sent' = sent
    BY <1>1, <1>5, <2>1 DEF at
  <2> QED BY <1>2, <1>4, <2>2 DEF FeedStep, Feed!vars
<1>8. CASE at # hi
  <2>1. Feed!Upto(c) = at
    BY <1>4 DEF Feed!Upto, at
  <2>2. hi \in (at + 1)..pushed /\ hi \in 1..MaxOutput
    BY <1>5, <1>6, <1>8, SizesAssumption
  <2>3. Feed!Bytes(at, hi) = Bytes(at, hi)
    BY DEF Feed!Bytes, Bytes
  <2>4. sent' = [sent EXCEPT ![c] = @ \o Bytes(at, hi)]
    BY <1>1 DEF at
  <2>5. Feed!Deliver(c, hi)
    BY <1>2, <1>4, <2>1, <2>2, <2>3, <2>4 DEF Feed!Deliver
  <2> QED BY <2>2, <2>5 DEF FeedStep, Feed!Next
<1> QED BY <1>7, <1>8

\* Every other step of the task: the drain-only loop.
LEMMA FeedDrain ==
  ASSUME Inv, Inv', Drain
  PROVE  FeedStep
<1>1. UNCHANGED <<FeedState, FeedBase, sent, pushed>> /\ task # "running" /\ task' # "running"
  BY MapFrame DEF Drain, handlers
<1> QED BY <1>1 DEF FeedStep, Feed!vars

\* Every step of the session is a step of the feed, or shows no client anything.
LEMMA FeedNext == Inv /\ Inv' /\ [Next]_vars => FeedStep
<1> SUFFICES ASSUME Inv, Inv', [Next]_vars PROVE FeedStep
  OBVIOUS
<1>1. CASE \/ AgentWrite \/ TtyClose \/ \E how \in {"zero", "nonzero", "signal"} : AgentExit(how)
           \/ ReaderStep \/ Unlist \/ UNCHANGED vars
  <2>1. UNCHANGED <<pushed, task, pc, backlog, sent>>
    BY <1>1 DEF AgentWrite, TtyClose, AgentExit, ReaderStep, ReadEof, Read, Unlist, vars, session, handlers
  <2> QED BY <2>1, HiddenStep
<1>2. CASE TaskStep
  BY <1>2, FeedTakeChunk, FeedClose, FeedTakeSubscribe, FeedTakeSnapshot, FeedDrain DEF TaskStep
<1>3. ASSUME NEW c \in Clients,
             HandlerStep(c) \/ Leave(c) \/ \E what \in {"attach", "view"} : Lookup(c, what)
      PROVE  FeedStep
  BY <1>3, FeedAsks, FeedLeaves, FeedWrites DEF HandlerStep
<1> QED BY <1>1, <1>2, <1>3 DEF Next

\* The thread, the task and the handlers together are an OutputFeed: what
\* docs/protocol.md promises to those who attach and view, with the window of
\* each fixed at the moment its request is taken (output_session.rs).
THEOREM SessionIsFeed == Spec => ImplementsFeed
<1>1. Inv /\ Inv' /\ [Next]_vars => [Feed!Next]_(Feed!vars)
  BY FeedNext DEF FeedStep
<1> QED BY <1>1, FeedInit, Invariant, PTL DEF Spec, ImplementsFeed, Feed!Spec

=============================================================================

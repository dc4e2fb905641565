------------------------- MODULE DetachTriggerProofs -------------------------
(***************************************************************************)
(* Proofs about DetachTrigger, for any keys that may be configured, any    *)
(* length of what is typed and any cuts of read(): what is held back is a  *)
(* beginning of the key, always; and for the keys whose sequences the      *)
(* terminal sends as parse_detach_key derives them (AsParsed), the user    *)
(* detaches exactly when the key is complete, with all that was typed      *)
(* before it forwarded and nothing of it.                                  *)
(*                                                                         *)
(* The argument: as long as the thread reads, the key is nowhere in what   *)
(* was typed, and whatever of the key stands at its end is within what is  *)
(* held back (Holding).  A key that is completed by the next read began    *)
(* therefore in what is held, or later (BegunLate), so searching only what *)
(* is held and what was read finds it, the first one first.                *)
(*                                                                         *)
(* Positions instead of sequences: Begun(s, k, t, p) says that the first k *)
(* of s stand in t behind its first p, and the lemmas of the second part   *)
(* say so of IsPrefix, IsSuffix and SubSeq.                                *)
(***************************************************************************)
EXTENDS DetachTrigger, Integers, TLAPS, FiniteSetTheorems, SequenceTheorems, WellFoundedInduction

-----------------------------------------------------------------------------
(* Least and greatest elements. *)

\* A non-empty set of naturals has a least element.
LEMMA LeastElement ==
  ASSUME NEW S \in SUBSET Nat, S # {}
  PROVE  \E m \in S : \A k \in S : m <= k
<1> DEFINE T == {0..n : n \in S}
           R == StrictSubsetOrdering(Nat)
<1>1. IsWellFoundedOn(R, FiniteSubsetsOf(Nat))
  BY FS_StrictSubsetOrderingWellFounded
<1>2. T # {}
  OBVIOUS
<1>3. T \subseteq FiniteSubsetsOf(Nat)
  <2>1. SUFFICES ASSUME NEW n \in S PROVE 0..n \in FiniteSubsetsOf(Nat)
    OBVIOUS
  <2>2. IsFiniteSet(0..n)
    BY FS_Interval
  <2> QED BY <2>2 DEF FiniteSubsetsOf
<1>4. PICK x \in T : \A y \in T : <<y, x>> \notin R
  <2> HIDE DEF T, R
  <2> QED BY <1>1, <1>2, <1>3, WFMin
<1>5. PICK m \in S : x = 0..m
  OBVIOUS
<1>6. ASSUME NEW k \in S, k < m PROVE FALSE
  <2>1. 0..k \in T /\ 0..k \in SUBSET Nat /\ 0..m \in SUBSET Nat
    OBVIOUS
  <2>2. 0..k \subseteq 0..m /\ m \in 0..m /\ m \notin 0..k
    BY <1>6
  <2>3. <<0..k, 0..m>> \in R
    BY <2>1, <2>2 DEF StrictSubsetOrdering
  <2> QED BY <2>1, <2>3, <1>4, <1>5
<1> QED BY <1>6

\* Min of FiniteSetsExt is the least element.
LEMMA MinIsLeast ==
  ASSUME NEW S \in SUBSET Nat, S # {}
  PROVE  Min(S) \in S /\ \A k \in S : Min(S) <= k
<1>1. \E m \in S : \A k \in S : m <= k
  BY LeastElement
<1> QED BY <1>1 DEF Min

\* ... a greatest one, when it is bounded.
LEMMA MaxIsGreatest ==
  ASSUME NEW n \in Nat, NEW S \in SUBSET (1..n), S # {}
  PROVE  Max(S) \in S /\ \A k \in S : Max(S) >= k
<1> DEFINE T == {n - k : k \in S}
<1>1. T \in SUBSET Nat /\ T # {}
  <2>1. \A k \in S : n - k \in Nat
    <3>1. \A k \in S : k \in 1..n
      OBVIOUS
    <3> QED BY <3>1
  <2> QED BY <2>1
<1>2. PICK m \in T : \A k \in T : m <= k
  <2> HIDE DEF T
  <2> QED BY <1>1, LeastElement
<1>3. PICK x \in S : m = n - x
  OBVIOUS
<1>4. \A k \in S : x >= k
  <2>1. ASSUME NEW k \in S PROVE x >= k
    <3>1. n - k \in T /\ k \in 1..n /\ x \in 1..n
      OBVIOUS
    <3>2. m <= n - k
      BY <1>2, <3>1
    <3> QED BY <1>3, <3>1, <3>2
  <2> QED BY <2>1
<1> QED BY <1>4 DEF Max

-----------------------------------------------------------------------------
(* A sequence within another, by positions. *)

\* A slice of a sequence.
LEMMA Slice ==
  ASSUME NEW S, NEW s \in Seq(S), NEW a \in 1..(Len(s) + 1), NEW b \in (a - 1)..Len(s)
  PROVE  /\ SubSeq(s, a, b) \in Seq(S) /\ Len(SubSeq(s, a, b)) = (b - a) + 1
         /\ \A i \in 1..((b - a) + 1) : SubSeq(s, a, b)[i] = s[(a - 1) + i]
<1>1. Len(s) \in Nat /\ a \in Int /\ b \in Int
  BY LenProperties
<1>2. \A i \in a..b : s[i] \in S
  <2>1. \A i \in a..b : i \in 1..Len(s)
    BY <1>1
  <2> QED BY <2>1
<1>3. /\ SubSeq(s, a, b) \in Seq(S)
      /\ Len(SubSeq(s, a, b)) = IF a <= b THEN b - a + 1 ELSE 0
      /\ \A i \in 1..(b - a + 1) : SubSeq(s, a, b)[i] = s[a + i - 1]
  BY <1>1, <1>2, SubSeqProperties
<1>4. ASSUME NEW i \in 1..((b - a) + 1) PROVE SubSeq(s, a, b)[i] = s[(a - 1) + i]
  <2>1. i \in 1..(b - a + 1) /\ a + i - 1 = (a - 1) + i
    BY <1>1
  <2> QED BY <1>3, <2>1
<1> QED BY <1>1, <1>3, <1>4

\* A sequence cut in two: the parts, and what stands where in them.
LEMMA Cut ==
  ASSUME NEW S, NEW s \in Seq(S), NEW j \in 0..Len(s)
  PROVE  /\ SubSeq(s, 1, j) \in Seq(S) /\ SubSeq(s, j + 1, Len(s)) \in Seq(S)
         /\ s = SubSeq(s, 1, j) \o SubSeq(s, j + 1, Len(s))
         /\ Len(SubSeq(s, 1, j)) = j /\ \A i \in 1..j : SubSeq(s, 1, j)[i] = s[i]
         /\ Len(SubSeq(s, j + 1, Len(s))) = Len(s) - j
         /\ \A i \in 1..(Len(s) - j) : SubSeq(s, j + 1, Len(s))[i] = s[j + i]
<1>1. Len(s) \in Nat /\ j \in Nat /\ j <= Len(s)
  BY LenProperties
<1>2. 1 \in 1..(Len(s) + 1) /\ j \in (1 - 1)..Len(s) /\ (j - 1) + 1 = j
  BY <1>1
<1>3. SubSeq(s, 1, j) \in Seq(S) /\ Len(SubSeq(s, 1, j)) = j
  BY <1>2, Slice
<1>4. \A i \in 1..((j - 1) + 1) : SubSeq(s, 1, j)[i] = s[(1 - 1) + i]
  BY <1>2, Slice
<1>5. ASSUME NEW i \in 1..j PROVE SubSeq(s, 1, j)[i] = s[i]
  <2>1. i \in 1..((j - 1) + 1) /\ (1 - 1) + i = i
    BY <1>2
  <2> QED BY <1>4, <2>1
<1>6. /\ j + 1 \in 1..(Len(s) + 1) /\ Len(s) \in ((j + 1) - 1)..Len(s)
      /\ (Len(s) - (j + 1)) + 1 = Len(s) - j /\ (j + 1) - 1 = j
  BY <1>1
<1>7. SubSeq(s, j + 1, Len(s)) \in Seq(S) /\ Len(SubSeq(s, j + 1, Len(s))) = (Len(s) - (j + 1)) + 1
  BY <1>6, Slice
<1>8. \A i \in 1..((Len(s) - (j + 1)) + 1) : SubSeq(s, j + 1, Len(s))[i] = s[((j + 1) - 1) + i]
  BY <1>6, Slice
<1>9. SubSeq(s, 1, j) \o SubSeq(s, j + 1, Len(s)) = SubSeq(s, 1, Len(s))
  <2>1. Len(s) \in j..Len(s)
    BY <1>1
  <2> QED BY <1>2, <2>1, ConcatAdjacentSubSeq
<1>10. SubSeq(s, 1, Len(s)) = s
  BY SubSeqFull
<1> QED BY <1>3, <1>5, <1>6, <1>7, <1>8, <1>9, <1>10

\* ... its two parts, by name.
Before(s, j) == SubSeq(s, 1, j)
Behind(s, j) == SubSeq(s, j + 1, Len(s))

\* The same of the two parts, by name.
LEMMA Parts ==
  ASSUME NEW S, NEW s \in Seq(S), NEW j \in 0..Len(s)
  PROVE  /\ Before(s, j) \in Seq(S) /\ Behind(s, j) \in Seq(S)
         /\ s = Before(s, j) \o Behind(s, j)
         /\ Len(Before(s, j)) = j /\ \A i \in 1..j : Before(s, j)[i] = s[i]
         /\ Len(Behind(s, j)) = Len(s) - j /\ \A i \in 1..(Len(s) - j) : Behind(s, j)[i] = s[j + i]
BY Cut DEF Before, Behind

\* Where a sequence is cut does not show behind another.
LEMMA Between ==
  ASSUME NEW S, NEW x \in Seq(S), NEW s \in Seq(S), NEW j \in 0..Len(s)
  PROVE  x \o s = (x \o Before(s, j)) \o Behind(s, j)
<1>1. Before(s, j) \in Seq(S) /\ Behind(s, j) \in Seq(S) /\ s = Before(s, j) \o Behind(s, j)
  BY Parts
<1> DEFINE y == Before(s, j)
           z == Behind(s, j)
<1>2. y \in Seq(S) /\ z \in Seq(S)
  BY <1>1
<1> HIDE DEF y, z
<1>3. (x \o y) \o z = x \o (y \o z)
  BY <1>2, ConcatAssociative
<1> QED BY <1>1, <1>3 DEF y, z

\* ... where the sequences are of numbers.
LEMMA NatParts ==
  ASSUME NEW x \in Seq(Nat), NEW s \in Seq(Nat), NEW j \in 0..Len(s)
  PROVE  /\ Len(Before(s, j)) = j /\ \A i \in 1..j : Before(s, j)[i] = s[i]
         /\ Len(Behind(s, j)) = Len(s) - j /\ \A i \in 1..(Len(s) - j) : Behind(s, j)[i] = s[j + i]
         /\ x \o s = (x \o Before(s, j)) \o Behind(s, j)
<1>1. /\ Len(Before(s, j)) = j /\ \A i \in 1..j : Before(s, j)[i] = s[i]
      /\ Len(Behind(s, j)) = Len(s) - j /\ \A i \in 1..(Len(s) - j) : Behind(s, j)[i] = s[j + i]
  BY Parts
<1>2. x \o s = (x \o Before(s, j)) \o Behind(s, j)
  BY Between
<1> QED BY <1>1, <1>2

\* The first k of s stand in t, behind its first p.
Begun(s, k, t, p) == p + k <= Len(t) /\ \A i \in 1..k : t[p + i] = s[i]

\* A prefix stands at the beginning.
LEMMA PrefixBegun ==
  ASSUME NEW s \in Seq(Nat), NEW t \in Seq(Nat)
  PROVE  IsPrefix(s, t) <=> Begun(s, Len(s), t, 0)
<1> DEFINE n == Len(s)
<1>1. n \in Nat /\ Len(t) \in Nat
  BY LenProperties
<1>2. SUFFICES ASSUME n <= Len(t)
               PROVE  SubSeq(s, 1, n) = SubSeq(t, 1, n) <=> \A i \in 1..n : t[0 + i] = s[i]
  BY <1>1 DEF IsPrefix, Begun
<1>3. /\ SubSeq(s, 1, n) \in Seq(Nat) /\ Len(SubSeq(s, 1, n)) = n
      /\ \A i \in 1..n : SubSeq(s, 1, n)[i] = s[i]
  BY <1>1, SubSeqProperties
<1>4. /\ SubSeq(t, 1, n) \in Seq(Nat) /\ Len(SubSeq(t, 1, n)) = n
      /\ \A i \in 1..n : SubSeq(t, 1, n)[i] = t[i]
  BY <1>1, <1>2, SubSeqProperties
<1> HIDE DEF n
<1>5. SubSeq(s, 1, n) = SubSeq(t, 1, n) <=> \A i \in 1..n : SubSeq(s, 1, n)[i] = SubSeq(t, 1, n)[i]
  BY <1>1, <1>3, <1>4, SeqEqual
<1>6. \A i \in 1..n : 0 + i = i
  BY <1>1
<1> QED BY <1>3, <1>4, <1>5, <1>6

\* Two sequences that stand one behind the other at the beginning.
LEMMA JoinedBegun ==
  ASSUME NEW x \in Seq(Nat), NEW y \in Seq(Nat), NEW t \in Seq(Nat),
         Begun(x, Len(x), t, 0), Begun(y, Len(y), t, Len(x))
  PROVE  IsPrefix(x \o y, t)
<1> DEFINE s == x \o y
<1>1. Len(x) \in Nat /\ Len(y) \in Nat /\ Len(t) \in Nat
  BY LenProperties
<1>2. /\ s \in Seq(Nat) /\ Len(s) = Len(x) + Len(y)
      /\ \A i \in 1..(Len(x) + Len(y)) : s[i] = IF i <= Len(x) THEN x[i] ELSE y[i - Len(x)]
  BY ConcatProperties
<1> HIDE DEF s
<1>3. Len(x) + Len(y) <= Len(t) /\ \A i \in 1..Len(y) : t[Len(x) + i] = y[i]
  BY DEF Begun
<1>4. \A i \in 1..Len(x) : t[0 + i] = x[i]
  BY DEF Begun
<1>5. ASSUME NEW i \in 1..Len(s) PROVE t[0 + i] = s[i]
  <2>1. i \in 1..(Len(x) + Len(y)) /\ 0 + i = i
    BY <1>1, <1>2
  <2>2. CASE i <= Len(x)
    <3>1. i \in 1..Len(x)
      BY <1>1, <2>1, <2>2
    <3> QED BY <1>2, <1>4, <2>1, <2>2, <3>1
  <2>3. CASE ~(i <= Len(x))
    <3>1. i - Len(x) \in 1..Len(y) /\ Len(x) + (i - Len(x)) = i
      BY <1>1, <2>1, <2>3
    <3>2. t[i] = y[i - Len(x)]
      BY <1>3, <3>1
    <3> QED BY <1>2, <2>1, <2>3, <3>2
  <2> QED BY <2>2, <2>3
<1>6. 0 + Len(s) <= Len(t)
  BY <1>1, <1>2, <1>3
<1>7. Begun(s, Len(s), t, 0)
  BY <1>5, <1>6 DEF Begun
<1> QED BY <1>2, <1>7, PrefixBegun DEF s

\* A prefix of the rest of t stands where the rest begins
\* (find_detach_trigger looks at every position).
LEMMA BehindBegun ==
  ASSUME NEW s \in Seq(Nat), NEW t \in Seq(Nat), NEW p \in 1..Len(t)
  PROVE  IsPrefix(s, SubSeq(t, p, Len(t))) <=> Begun(s, Len(s), t, p - 1)
<1> DEFINE u == SubSeq(t, p, Len(t))
           n == Len(s)
<1>1. n \in Nat /\ Len(t) \in Nat
  BY LenProperties
<1>2. /\ u \in Seq(Nat) /\ Len(u) = Len(t) - p + 1
      /\ \A i \in 1..(Len(t) - p + 1) : u[i] = t[p + i - 1]
  BY <1>1, SubSeqProperties
<1> HIDE DEF u
<1>3. IsPrefix(s, u) <=> Begun(s, n, u, 0)
  BY <1>2, PrefixBegun
<1> HIDE DEF n
<1>4. 0 + n <= Len(u) <=> (p - 1) + n <= Len(t)
  BY <1>1, <1>2
<1>5. ASSUME (p - 1) + n <= Len(t), NEW i \in 1..n PROVE u[0 + i] = t[(p - 1) + i]
  <2>1. i \in 1..(Len(t) - p + 1) /\ 0 + i = i /\ p + i - 1 = (p - 1) + i
    BY <1>1, <1>5
  <2> QED BY <1>2, <2>1
<1>6. Begun(s, n, u, 0) <=> Begun(s, n, t, p - 1)
  BY <1>4, <1>5 DEF Begun
<1> QED BY <1>3, <1>6 DEF u, n

\* A suffix stands at the end.
LEMMA SuffixBegun ==
  ASSUME NEW s \in Seq(Nat), NEW t \in Seq(Nat)
  PROVE  IsSuffix(s, t) <=> Len(s) <= Len(t) /\ Begun(s, Len(s), t, Len(t) - Len(s))
<1> DEFINE n == Len(s)
           m == Len(t)
           rs == Reverse(s)
           rt == Reverse(t)
<1>1. n \in Nat /\ m \in Nat
  BY LenProperties
<1>2. rs \in Seq(Nat) /\ Len(rs) = n /\ \A i \in 1..n : rs[i] = s[(n - i) + 1]
  BY <1>1 DEF Reverse
<1>3. rt \in Seq(Nat) /\ Len(rt) = m /\ \A i \in 1..m : rt[i] = t[(m - i) + 1]
  BY <1>1 DEF Reverse
<1> HIDE DEF rs, rt
<1>4. IsSuffix(s, t) <=> Begun(rs, n, rt, 0)
  BY <1>2, <1>3, PrefixBegun DEF IsSuffix, rs, rt
<1> HIDE DEF n, m
<1>5. ASSUME n <= m
      PROVE  (\A i \in 1..n : rt[0 + i] = rs[i]) <=> (\A i \in 1..n : t[(m - n) + i] = s[i])
  <2>1. ASSUME \A i \in 1..n : rt[0 + i] = rs[i], NEW i \in 1..n PROVE t[(m - n) + i] = s[i]
    <3> DEFINE j == (n - i) + 1
    <3>1. j \in 1..n /\ j \in 1..m /\ (n - j) + 1 = i /\ (m - j) + 1 = (m - n) + i /\ 0 + j = j
      BY <1>1, <1>5
    <3>2. rt[j] = t[(m - n) + i] /\ rs[j] = s[i]
      BY <1>2, <1>3, <3>1
    <3> HIDE DEF j
    <3> QED BY <2>1, <3>1, <3>2
  <2>2. ASSUME \A i \in 1..n : t[(m - n) + i] = s[i], NEW i \in 1..n PROVE rt[0 + i] = rs[i]
    <3> DEFINE j == (n - i) + 1
    <3>1. j \in 1..n /\ i \in 1..m /\ (m - i) + 1 = (m - n) + j /\ 0 + i = i
      BY <1>1, <1>5
    <3>2. rt[i] = t[(m - n) + j] /\ rs[i] = s[j]
      BY <1>2, <1>3, <3>1
    <3> HIDE DEF j
    <3> QED BY <2>2, <3>1, <3>2
  <2> QED BY <2>1, <2>2
<1>6. 0 + n <= m <=> n <= m /\ (m - n) + n <= m
  BY <1>1
<1>7. Begun(rs, n, rt, 0) <=> n <= m /\ Begun(s, n, t, m - n)
  <2>1. Begun(rs, n, rt, 0) <=> n <= m /\ \A i \in 1..n : rt[0 + i] = rs[i]
    BY <1>1, <1>3 DEF Begun
  <2>2. n <= m /\ Begun(s, n, t, m - n) <=> n <= m /\ \A i \in 1..n : t[(m - n) + i] = s[i]
    <3>1. Len(t) = m
      BY DEF m
    <3> QED BY <1>1, <3>1 DEF Begun
  <2> QED BY <1>5, <2>1, <2>2
<1> QED BY <1>4, <1>7 DEF n, m

\* A beginning of s that is a suffix of t stands at its end
\* (partial_prefix_at_end tries every length).
LEMMA PartBegun ==
  ASSUME NEW s \in Seq(Nat), NEW t \in Seq(Nat), NEW k \in 1..Len(s)
  PROVE  IsSuffix(SubSeq(s, 1, k), t) <=> k <= Len(t) /\ Begun(s, k, t, Len(t) - k)
<1> DEFINE u == SubSeq(s, 1, k)
<1>1. k \in Nat /\ Len(s) \in Nat
  BY LenProperties
<1>2. u \in Seq(Nat) /\ Len(u) = k /\ \A i \in 1..k : u[i] = s[i]
  BY <1>1, SubSeqProperties
<1> HIDE DEF u
<1>3. IsSuffix(u, t) <=> k <= Len(t) /\ Begun(u, k, t, Len(t) - k)
  BY <1>2, SuffixBegun
<1>4. Begun(u, k, t, Len(t) - k) <=> Begun(s, k, t, Len(t) - k)
  BY <1>2 DEF Begun
<1> QED BY <1>3, <1>4 DEF u

-----------------------------------------------------------------------------
(* What was typed, cut anywhere. *)

\* The key is nowhere in t; what of it stands at the end of t is in l.
Untriggered(raw, csi, t) ==
  /\ \A i \in 1..Len(t) : t[i] # raw
  /\ \A p \in Nat : ~Begun(csi, Len(csi), t, p)
HeldIn(csi, t, l) ==
  \A k \in 1..Len(csi), p \in Nat : p + k = Len(t) /\ Begun(csi, k, t, p) => k <= Len(l)

\* What of the key ends in a new chunk began in what was held back, or later.
LEMMA BegunLate ==
  ASSUME NEW csi \in Seq(Nat), NEW f \in Seq(Nat), NEW l \in Seq(Nat), NEW chunk \in Seq(Nat),
         HeldIn(csi, f \o l, l), NEW k \in 1..Len(csi), NEW p \in Nat,
         Begun(csi, k, f \o (l \o chunk), p), p + k > Len(f \o l)
  PROVE  p >= Len(f) /\ p - Len(f) \in Nat /\ Begun(csi, k, l \o chunk, p - Len(f))
<1> DEFINE n == Len(f)
           c == l \o chunk
           t == f \o l
           tt == f \o c
<1>1. n \in Nat /\ Len(l) \in Nat /\ Len(chunk) \in Nat /\ Len(csi) \in Nat
  BY LenProperties
<1>2. t \in Seq(Nat) /\ Len(t) = n + Len(l)
  BY ConcatProperties
<1>3. c \in Seq(Nat) /\ Len(c) = Len(l) + Len(chunk)
  BY ConcatProperties
<1>4. /\ Len(tt) = n + Len(c)
      /\ \A i \in 1..(n + Len(c)) : tt[i] = IF i <= n THEN f[i] ELSE c[i - n]
  BY <1>3, ConcatProperties
<1>5. \A i \in 1..Len(t) : tt[i] = t[i]
  <2>1. \A i \in 1..(n + Len(l)) : t[i] = IF i <= n THEN f[i] ELSE l[i - n]
    BY ConcatProperties
  <2>2. \A i \in 1..(Len(l) + Len(chunk)) : c[i] = IF i <= Len(l) THEN l[i] ELSE chunk[i - Len(l)]
    BY ConcatProperties
  <2> HIDE DEF c, t, tt, n
  <2>3. ASSUME NEW i \in 1..Len(t) PROVE tt[i] = t[i]
    <3>1. i \in 1..(n + Len(l)) /\ i \in 1..(n + Len(c))
      BY <1>1, <1>2, <1>3
    <3>2. CASE i <= n
      BY <1>4, <2>1, <3>1, <3>2
    <3>3. CASE ~(i <= n)
      <4>1. i - n \in 1..(Len(l) + Len(chunk)) /\ i - n <= Len(l)
        BY <1>1, <3>1, <3>3
      <4> QED BY <1>4, <2>1, <2>2, <3>1, <3>3, <4>1
    <3> QED BY <3>2, <3>3
  <2> QED BY <2>3
<1>6. p + k <= Len(tt) /\ \A i \in 1..k : tt[p + i] = csi[i]
  BY DEF Begun
<1>7. HeldIn(csi, t, l) /\ p + k > Len(t)
  OBVIOUS
<1> HIDE DEF n, c, t, tt
<1>8. p >= n
  <2>1. SUFFICES ASSUME p < n PROVE FALSE
    BY <1>1
  <2> DEFINE j == Len(t) - p
  <2>2. j \in 1..Len(csi) /\ p + j = Len(t) /\ j < k /\ j > Len(l)
    BY <1>1, <1>2, <1>7, <2>1
  <2> HIDE DEF j
  <2>3. \A i \in 1..j : t[p + i] = csi[i]
    <3>1. ASSUME NEW i \in 1..j PROVE t[p + i] = csi[i]
      <4>1. j \in Nat /\ k \in Nat /\ j < k /\ p + j = Len(t)
        BY <1>1, <2>2
      <4>2. i \in 1..k /\ p + i \in 1..(p + j)
        BY <4>1
      <4> QED BY <1>5, <1>6, <4>1, <4>2
    <3> QED BY <3>1
  <2>4. Begun(csi, j, t, p)
    <3>1. p + j <= Len(t)
      BY <1>1, <1>2, <2>2
    <3> QED BY <2>3, <3>1 DEF Begun
  <2>5. j <= Len(l)
    BY <1>7, <2>2, <2>4 DEF HeldIn
  <2> QED BY <1>1, <2>2, <2>5
<1>9. (p - n) + k <= Len(c) /\ \A i \in 1..k : c[(p - n) + i] = csi[i]
  <2>1. (p - n) + k <= Len(c)
    BY <1>1, <1>3, <1>4, <1>6, <1>8
  <2>2. ASSUME NEW i \in 1..k PROVE c[(p - n) + i] = csi[i]
    <3>1. p + i \in 1..(n + Len(c)) /\ ~(p + i <= n) /\ (p + i) - n = (p - n) + i
      BY <1>1, <1>3, <1>8, <2>1
    <3>2. tt[p + i] = c[(p - n) + i]
      BY <1>4, <3>1
    <3> QED BY <1>6, <3>2
  <2> QED BY <2>1, <2>2
<1>10. p - n \in Nat
  BY <1>1, <1>8
<1> QED BY <1>8, <1>9, <1>10 DEF Begun, n, c

\* Where nothing ends in the chunk, the key began and ended before it.
LEMMA BegunEarly ==
  ASSUME NEW csi \in Seq(Nat), NEW t \in Seq(Nat), NEW u \in Seq(Nat), NEW k \in Nat, NEW p \in Nat,
         Begun(csi, k, t \o u, p), p + k <= Len(t)
  PROVE  Begun(csi, k, t, p)
<1>1. Len(t) \in Nat /\ Len(u) \in Nat
  BY LenProperties
<1>2. \A i \in 1..(Len(t) + Len(u)) : (t \o u)[i] = IF i <= Len(t) THEN t[i] ELSE u[i - Len(t)]
  BY ConcatProperties
<1>3. ASSUME NEW i \in 1..k PROVE t[p + i] = csi[i]
  <2>1. p + i \in 1..(Len(t) + Len(u)) /\ p + i <= Len(t)
    BY <1>1
  <2> QED BY <1>2, <2>1 DEF Begun
<1> QED BY <1>3 DEF Begun

-----------------------------------------------------------------------------
(* The operators of the thread. *)

\* A configured key: a byte, and a sequence that is not empty.
LEMMA TriggerType ==
  ASSUME NEW s \in Specs, ParseDetachKey(s).ok
  PROVE  /\ ParseDetachKey(s).raw \in Nat
         /\ ParseDetachKey(s).csiU \in Seq(Nat) /\ Len(ParseDetachKey(s).csiU) = 4
         /\ NoByte \notin Range(ParseDetachKey(s).csiU)
<1> DEFINE key == s.key[1]
<1>1. s.key \in Seq(Nat) /\ Len(s.key) = 1 /\ ParseDetachKey(s) = Accepted(key)
  BY TriggerAssumption DEF ParseDetachKey, Rejected
<1>2. key \in Nat
  BY <1>1
<1> HIDE DEF key
<1>3. CtrlRawByte(key) \in Nat
  BY <1>2 DEF CtrlRawByte, NoByte
<1>4. CodeOf(key) \in Nat /\ CodeOf(key) # NoByte
  BY <1>2 DEF CodeOf, NoByte
<1> DEFINE csi == <<Escape, Bracket, CodeOf(key), FinalU>>
<1>5. csi \in Seq(Nat) /\ Len(csi) = 4
  BY <1>4 DEF Escape, Bracket, FinalU
<1>6. NoByte \notin Range(csi)
  <2>1. \A i \in 1..4 : csi[i] # NoByte
    BY <1>4 DEF Escape, Bracket, FinalU, NoByte
  <2> HIDE DEF csi
  <2> QED BY <1>5, <2>1 DEF Range
<1>7. ParseDetachKey(s).raw = CtrlRawByte(key) /\ ParseDetachKey(s).csiU = csi
  BY <1>1 DEF Accepted
<1> QED BY <1>3, <1>5, <1>6, <1>7

\* Where find_detach_trigger may find the key.
LEMMA TriggersAre ==
  ASSUME spec \in Specs, ParseDetachKey(spec).ok, NEW t \in Seq(Nat)
  PROVE  Triggers(t) = {i \in 1..Len(t) : t[i] = RawByte \/ Begun(CsiU, Len(CsiU), t, i - 1)}
<1>1. CsiU \in Seq(Nat)
  BY TriggerType DEF CsiU
<1>2. ASSUME NEW i \in 1..Len(t)
      PROVE  IsPrefix(CsiU, SubSeq(t, i, Len(t))) <=> Begun(CsiU, Len(CsiU), t, i - 1)
  BY <1>1, BehindBegun
<1>3. DOMAIN t = 1..Len(t)
  OBVIOUS
<1> QED BY <1>2, <1>3 DEF Triggers

\* partial_prefix_at_end finds the longest beginning of the key at the end.
LEMMA HeldBackIs ==
  ASSUME spec \in Specs, ParseDetachKey(spec).ok, NEW t \in Seq(Nat)
  PROVE  /\ HeldBack(t) \in 0..Len(CsiU) /\ HeldBack(t) <= Len(t)
         /\ Begun(CsiU, HeldBack(t), t, Len(t) - HeldBack(t))
         /\ \A k \in 1..Len(CsiU) : k <= Len(t) /\ Begun(CsiU, k, t, Len(t) - k) => k <= HeldBack(t)
<1> DEFINE n == Len(CsiU)
           S == {k \in 1..n : k <= Len(t) /\ Begun(CsiU, k, t, Len(t) - k)}
<1>1. CsiU \in Seq(Nat) /\ n \in Nat /\ Len(t) \in Nat
  BY TriggerType, LenProperties DEF CsiU
<1>2. {k \in 1..n : IsSuffix(SubSeq(CsiU, 1, k), t)} = S
  BY <1>1, PartBegun
<1>3. HeldBack(t) = IF S = {} THEN 0 ELSE Max(S)
  BY <1>2 DEF HeldBack
<1>4. CASE S = {}
  <2>1. HeldBack(t) = 0
    BY <1>3, <1>4
  <2>2. Begun(CsiU, 0, t, Len(t) - 0)
    BY <1>1 DEF Begun
  <2>3. \A k \in 1..n : ~(k <= Len(t) /\ Begun(CsiU, k, t, Len(t) - k))
    BY <1>4
  <2> QED BY <1>1, <2>1, <2>2, <2>3
<1>5. CASE S # {}
  <2>1. S \in SUBSET (1..n)
    OBVIOUS
  <2>2. HeldBack(t) \in S /\ \A k \in S : HeldBack(t) >= k
    <3> HIDE DEF S, n
    <3> QED BY <1>1, <1>3, <1>5, <2>1, MaxIsGreatest
  <2>3. /\ HeldBack(t) \in 1..n /\ HeldBack(t) <= Len(t)
        /\ Begun(CsiU, HeldBack(t), t, Len(t) - HeldBack(t))
    BY <2>2
  <2>4. ASSUME NEW k \in 1..n, k <= Len(t), Begun(CsiU, k, t, Len(t) - k) PROVE k <= HeldBack(t)
    <3>1. HeldBack(t) >= k
      BY <2>2, <2>4
    <3> HIDE DEF S
    <3> QED BY <1>1, <2>3, <3>1
  <2> HIDE DEF S
  <2> QED BY <1>1, <2>3, <2>4
<1> QED BY <1>4, <1>5

\* Where a sequence of the key ends: its byte, or the last of the longer one.
LEMMA EndsAre ==
  ASSUME AsParsed, spec \in Specs, ParseDetachKey(spec).ok, NEW t \in Seq(Nat),
         \A i \in 1..Len(t) : t[i] # NoByte, NEW e \in 1..Len(t)
  PROVE  (\E keys \in Sent[spec] : IsSuffix(keys, SubSeq(t, 1, e)))
         <=> \/ t[e] = RawByte
             \/ Len(CsiU) <= e /\ Begun(CsiU, Len(CsiU), t, e - Len(CsiU))
<1>1. CsiU \in Seq(Nat) /\ RawByte \in Nat /\ Len(t) \in Nat /\ e \in Nat /\ Len(CsiU) \in Nat
  BY TriggerType, LenProperties DEF CsiU, RawByte
<1> DEFINE u == SubSeq(t, 1, e)
<1>2. u \in Seq(Nat) /\ Len(u) = e /\ \A i \in 1..e : u[i] = t[i]
  BY <1>1, SubSeqProperties
<1> HIDE DEF u
<1>3. ASSUME NEW s \in Seq(Nat)
      PROVE  IsSuffix(s, u) <=> Len(s) <= e /\ Begun(s, Len(s), t, e - Len(s))
  <2>1. Len(s) \in Nat
    BY LenProperties
  <2>2. IsSuffix(s, u) <=> Len(s) <= e /\ Begun(s, Len(s), u, e - Len(s))
    BY <1>2, SuffixBegun
  <2>3. ASSUME Len(s) <= e, NEW i \in 1..Len(s) PROVE u[(e - Len(s)) + i] = t[(e - Len(s)) + i]
    <3>1. (e - Len(s)) + i \in 1..e
      BY <1>1, <2>1, <2>3
    <3> QED BY <1>2, <3>1
  <2>4. (e - Len(s)) + Len(s) <= Len(t) /\ (e - Len(s)) + Len(s) <= Len(u)
    BY <1>1, <1>2, <2>1
  <2> QED BY <2>2, <2>3, <2>4 DEF Begun
<1>4. ASSUME RawByte # NoByte PROVE IsSuffix(<<RawByte>>, u) <=> t[e] = RawByte
  <2> DEFINE s == <<RawByte>>
  <2>1. s \in Seq(Nat) /\ Len(s) = 1 /\ s[1] = RawByte
    BY <1>1
  <2> HIDE DEF s
  <2>2. IsSuffix(s, u) <=> 1 <= e /\ Begun(s, 1, t, e - 1)
    BY <1>3, <2>1
  <2>3. (e - 1) + 1 = e /\ 1 <= e /\ e <= Len(t)
    BY <1>1
  <2>4. Begun(s, 1, t, e - 1) <=> t[e] = RawByte
    BY <2>1, <2>3 DEF Begun
  <2> QED BY <2>2, <2>3, <2>4 DEF s
<1>5. Sent[spec] = {CsiU} \cup {<<byte>> : byte \in {RawByte} \ {NoByte}}
  BY DEF AsParsed, CsiU, RawByte
<1>6. RawByte = NoByte => t[e] # RawByte
  OBVIOUS
<1>7. IsSuffix(CsiU, u) <=> Len(CsiU) <= e /\ Begun(CsiU, Len(CsiU), t, e - Len(CsiU))
  BY <1>1, <1>3
<1>8. CASE RawByte = NoByte
  <2>1. Sent[spec] = {CsiU}
    BY <1>5, <1>8
  <2> QED BY <1>6, <1>7, <1>8, <2>1 DEF u
<1>9. CASE RawByte # NoByte
  <2>1. Sent[spec] = {CsiU, <<RawByte>>}
    BY <1>5, <1>9
  <2> QED BY <1>4, <1>7, <1>9, <2>1 DEF u
<1> QED BY <1>8, <1>9

-----------------------------------------------------------------------------
(* The inductive invariant. *)

Typing ==
  /\ spec \in Specs
  /\ typed \in Seq(Bytes) /\ forwarded \in Seq(Bytes) /\ leftover \in Seq(Bytes)
  /\ state \in {"reading", "detached", "eof", "refused"}
  /\ (state = "refused") <=> ~ParseDetachKey(spec).ok
  /\ state = "refused" => typed = <<>>
  /\ state \in {"refused", "detached"} => leftover = <<>>

\* Until the key: what is held is the longest beginning of it at the end.
Holding ==
  state \in {"reading", "eof"} =>
    /\ typed = forwarded \o leftover
    /\ Untriggered(RawByte, CsiU, typed)
    /\ HeldIn(CsiU, typed, leftover)
    /\ Len(leftover) < Len(CsiU) /\ Begun(CsiU, Len(leftover), leftover, 0)

\* Then: the key stands behind what was forwarded, and ends nowhere before.
Found ==
  state = "detached" =>
    /\ Begun(forwarded, Len(forwarded), typed, 0)
    /\ \/ Len(forwarded) + 1 <= Len(typed) /\ typed[Len(forwarded) + 1] = RawByte
       \/ Begun(CsiU, Len(CsiU), typed, Len(forwarded))
    /\ \A i \in 1..Len(forwarded) : typed[i] # RawByte
    /\ \A p \in Nat : Begun(CsiU, Len(CsiU), typed, p) => p + Len(CsiU) > Len(forwarded)

Inv == Typing /\ Holding /\ Found

\* Bytes are numbers.
LEMMA BytesAreNat ==
  ASSUME spec \in Specs
  PROVE  Bytes \subseteq Nat
<1>1. ASSUME NEW keys \in Sent[spec] PROVE Range(keys) \subseteq Nat
  <2>1. keys \in Seq(Nat)
    BY TriggerAssumption
  <2> QED BY <2>1 DEF Range
<1>2. Other \in Nat
  <2>1. Other \in 0..255
    BY TriggerAssumption
  <2> QED BY <2>1
<1>3. ASSUME NEW b \in Bytes PROVE b \in Nat
  <2>1. CASE b = Other
    BY <1>2, <2>1
  <2>2. CASE \E keys \in Sent[spec] : b \in Range(keys)
    BY <1>1, <2>2
  <2> QED BY <2>1, <2>2 DEF Bytes
<1> QED BY <1>3

\* ... and what the thread keeps is sequences of them.
LEMMA SeqNat ==
  ASSUME Typing
  PROVE  /\ Bytes \subseteq Nat
         /\ typed \in Seq(Nat) /\ forwarded \in Seq(Nat) /\ leftover \in Seq(Nat)
BY BytesAreNat, SeqMonotonic DEF Typing

\* Nothing is typed, forwarded or held: the key is nowhere.
LEMMA InitInv == Init => Inv
<1> SUFFICES ASSUME Init PROVE Inv
  OBVIOUS
<1>1. /\ spec \in Specs /\ typed = <<>> /\ leftover = <<>> /\ forwarded = <<>>
      /\ state = IF ParseDetachKey(spec).ok THEN "reading" ELSE "refused"
  BY DEF Init
<1>2. <<>> \in Seq(Bytes) /\ Len(<<>>) = 0
  BY EmptySeq
<1>3. Typing
  BY <1>1, <1>2 DEF Typing
<1>4. Holding
  <2>1. SUFFICES ASSUME ParseDetachKey(spec).ok
                 PROVE  /\ typed = forwarded \o leftover
                        /\ Untriggered(RawByte, CsiU, typed)
                        /\ HeldIn(CsiU, typed, leftover)
                        /\ Len(leftover) < Len(CsiU) /\ Begun(CsiU, Len(leftover), leftover, 0)
    BY <1>1 DEF Holding
  <2>2. Len(CsiU) = 4
    BY <1>1, <2>1, TriggerType DEF CsiU
  <2>3. <<>> \o <<>> = <<>>
    BY ConcatEmptySeq, EmptySeq
  <2>4. \A k \in 1..4, p \in Nat : ~Begun(CsiU, k, <<>>, p)
    BY <1>2 DEF Begun
  <2>5. Begun(CsiU, 0, <<>>, 0)
    BY <1>2 DEF Begun
  <2>6. Untriggered(RawByte, CsiU, <<>>)
    BY <1>2, <2>2, <2>4 DEF Untriggered
  <2>7. HeldIn(CsiU, <<>>, <<>>)
    BY <2>2, <2>4 DEF HeldIn
  <2> QED BY <1>1, <1>2, <2>2, <2>3, <2>5, <2>6, <2>7
<1>5. Found
  BY <1>1 DEF Found
<1> QED BY <1>3, <1>4, <1>5 DEF Inv

\* What a turn of stdin_loop works on.
LEMMA Combined ==
  ASSUME Inv, state = "reading", NEW n \in Nat \ {0}, NEW chunk \in [1..n -> Bytes]
  PROVE  /\ ParseDetachKey(spec).ok /\ CsiU \in Seq(Nat) /\ Len(CsiU) = 4
         /\ chunk \in Seq(Bytes) /\ chunk \in Seq(Nat) /\ Len(chunk) = n
         /\ leftover \o chunk \in Seq(Bytes) /\ leftover \o chunk \in Seq(Nat)
         /\ Len(leftover \o chunk) = Len(leftover) + n
         /\ typed \o chunk \in Seq(Bytes) /\ Len(typed \o chunk) = Len(typed) + n
         /\ typed \o chunk = forwarded \o (leftover \o chunk)
<1>1. ParseDetachKey(spec).ok /\ spec \in Specs
  BY DEF Inv, Typing
<1>2. CsiU \in Seq(Nat) /\ Len(CsiU) = 4
  BY <1>1, TriggerType DEF CsiU
<1>3. /\ typed \in Seq(Bytes) /\ forwarded \in Seq(Bytes) /\ leftover \in Seq(Bytes)
      /\ Bytes \subseteq Nat
  BY BytesAreNat DEF Inv, Typing
<1>4. chunk \in Seq(Bytes) /\ Len(chunk) = n
  OBVIOUS
<1>5. leftover \o chunk \in Seq(Bytes) /\ Len(leftover \o chunk) = Len(leftover) + n
  BY <1>3, <1>4, ConcatProperties
<1>6. typed \o chunk \in Seq(Bytes) /\ Len(typed \o chunk) = Len(typed) + n
  BY <1>3, <1>4, ConcatProperties
<1>7. chunk \in Seq(Nat) /\ leftover \o chunk \in Seq(Nat)
  BY <1>3, <1>4, <1>5, SeqMonotonic
<1>8. typed \o chunk = forwarded \o (leftover \o chunk)
  <2>1. typed = forwarded \o leftover
    BY DEF Inv, Holding
  <2> QED BY <1>3, <1>4, <2>1, ConcatAssociative
<1> QED BY <1>1, <1>2, <1>4, <1>5, <1>6, <1>7, <1>8

\* The key in what was typed is in what the turn looks at, behind what was
\* forwarded; and the byte too.
LEMMA InCombined ==
  ASSUME Inv, state = "reading", NEW n \in Nat \ {0}, NEW chunk \in [1..n -> Bytes]
  PROVE  /\ \A k \in 1..Len(CsiU), p \in Nat :
              Begun(CsiU, k, typed \o chunk, p) /\ (k = Len(CsiU) \/ p + k > Len(typed)) =>
                /\ p >= Len(forwarded) /\ p - Len(forwarded) \in Nat
                /\ p + k > Len(typed)
                /\ Begun(CsiU, k, leftover \o chunk, p - Len(forwarded))
         /\ \A i \in 1..Len(forwarded) : (typed \o chunk)[i] = forwarded[i] /\ forwarded[i] # RawByte
         /\ \A i \in 1..Len(leftover \o chunk) :
              (typed \o chunk)[Len(forwarded) + i] = (leftover \o chunk)[i]
<1> DEFINE c == leftover \o chunk
           t == typed \o chunk
<1>1. /\ CsiU \in Seq(Nat) /\ Len(CsiU) = 4 /\ chunk \in Seq(Nat) /\ c \in Seq(Nat)
      /\ t = forwarded \o c
  BY Combined
<1>2. /\ typed \in Seq(Nat) /\ forwarded \in Seq(Nat) /\ leftover \in Seq(Nat)
  BY SeqNat DEF Inv
<1>3. /\ typed = forwarded \o leftover
      /\ Untriggered(RawByte, CsiU, typed) /\ HeldIn(CsiU, typed, leftover)
  BY DEF Inv, Holding
<1>4. Len(typed) \in Nat /\ Len(forwarded) \in Nat /\ Len(c) \in Nat /\ Len(leftover) \in Nat
  BY <1>1, <1>2, LenProperties
<1>5. ASSUME NEW k \in 1..Len(CsiU), NEW p \in Nat, Begun(CsiU, k, t, p), p + k > Len(typed)
      PROVE  /\ p >= Len(forwarded) /\ p - Len(forwarded) \in Nat
             /\ Begun(CsiU, k, c, p - Len(forwarded))
  <2>1. HeldIn(CsiU, forwarded \o leftover, leftover) /\ p + k > Len(forwarded \o leftover)
    BY <1>3, <1>5
  <2>2. Begun(CsiU, k, forwarded \o (leftover \o chunk), p)
    BY <1>1, <1>5
  <2> QED BY <1>1, <1>2, <2>1, <2>2, BegunLate
<1>6. ASSUME NEW p \in Nat, Begun(CsiU, Len(CsiU), t, p) PROVE p + Len(CsiU) > Len(typed)
  <2>1. CASE p + Len(CsiU) <= Len(typed)
    <3>1. Begun(CsiU, Len(CsiU), typed, p)
      BY <1>1, <1>2, <1>6, <2>1, BegunEarly
    <3> QED BY <1>3, <3>1 DEF Untriggered
  <2> QED BY <1>1, <1>4, <2>1
<1>7. \A i \in 1..(Len(forwarded) + Len(c)) :
        t[i] = IF i <= Len(forwarded) THEN forwarded[i] ELSE c[i - Len(forwarded)]
  BY <1>1, <1>2, ConcatProperties
<1>8. ASSUME NEW i \in 1..Len(forwarded) PROVE t[i] = forwarded[i] /\ forwarded[i] # RawByte
  <2>1. i \in 1..(Len(forwarded) + Len(c)) /\ i \in 1..(Len(forwarded) + Len(leftover)) /\ i <= Len(forwarded)
    BY <1>4
  <2>2. typed[i] = forwarded[i] /\ Len(typed) = Len(forwarded) + Len(leftover)
    BY <1>2, <1>3, <2>1, ConcatProperties
  <2>3. typed[i] # RawByte
    BY <1>3, <2>1, <2>2 DEF Untriggered
  <2> QED BY <1>7, <2>1, <2>2, <2>3
<1> HIDE DEF c, t
<1>9. ASSUME NEW i \in 1..Len(c) PROVE t[Len(forwarded) + i] = c[i]
  <2>1. /\ Len(forwarded) + i \in 1..(Len(forwarded) + Len(c))
        /\ ~(Len(forwarded) + i <= Len(forwarded)) /\ (Len(forwarded) + i) - Len(forwarded) = i
    BY <1>4
  <2> QED BY <1>7, <2>1
<1>10. ASSUME NEW k \in 1..Len(CsiU), NEW p \in Nat, Begun(CsiU, k, t, p), k = Len(CsiU) \/ p + k > Len(typed)
       PROVE  /\ p >= Len(forwarded) /\ p - Len(forwarded) \in Nat /\ p + k > Len(typed)
              /\ Begun(CsiU, k, c, p - Len(forwarded))
  BY <1>5, <1>6, <1>10
<1> QED BY <1>8, <1>9, <1>10 DEF c, t

\* A turn without the key: what is forwarded, and what is held.
LEMMA ReadsOn ==
  ASSUME Inv, state = "reading", NEW n \in Nat \ {0}, NEW chunk \in [1..n -> Bytes],
         Triggers(leftover \o chunk) = {},
         NEW c, c = leftover \o chunk, NEW f, f = Before(c, Len(c) - HeldBack(c)),
         NEW l, l = Behind(c, Len(c) - HeldBack(c))
  PROVE  /\ forwarded \o f \in Seq(Bytes) /\ l \in Seq(Bytes)
         /\ typed \o chunk = (forwarded \o f) \o l
         /\ Untriggered(RawByte, CsiU, typed \o chunk)
         /\ HeldIn(CsiU, typed \o chunk, l)
         /\ Len(l) < Len(CsiU) /\ Begun(CsiU, Len(l), l, 0)
<1> DEFINE h == HeldBack(c)
           t == typed \o chunk
<1>1. /\ spec \in Specs /\ ParseDetachKey(spec).ok /\ CsiU \in Seq(Nat) /\ Len(CsiU) = 4
      /\ c \in Seq(Bytes) /\ c \in Seq(Nat) /\ Len(c) = Len(leftover) + n /\ t = forwarded \o c
      /\ Len(t) = Len(typed) + n
  BY Combined DEF Inv, Typing
<1>2. /\ typed \in Seq(Nat) /\ forwarded \in Seq(Nat) /\ leftover \in Seq(Nat)
      /\ forwarded \in Seq(Bytes)
  BY SeqNat DEF Inv, Typing
<1>3. Len(typed) \in Nat /\ Len(forwarded) \in Nat /\ Len(c) \in Nat /\ Len(leftover) \in Nat
  BY <1>1, <1>2, LenProperties
<1>4. /\ h \in 0..4 /\ h <= Len(c) /\ Begun(CsiU, h, c, Len(c) - h)
      /\ \A k \in 1..4 : k <= Len(c) /\ Begun(CsiU, k, c, Len(c) - k) => k <= h
  BY <1>1, HeldBackIs
<1>5. \A i \in 1..Len(c) : c[i] # RawByte /\ ~Begun(CsiU, 4, c, i - 1)
  <2>1. Triggers(c) = {i \in 1..Len(c) : c[i] = RawByte \/ Begun(CsiU, Len(CsiU), c, i - 1)}
    BY <1>1, TriggersAre
  <2>2. Triggers(c) = {}
    OBVIOUS
  <2> QED BY <1>1, <2>1, <2>2
<1> HIDE DEF h
<1>6. \A q \in Nat : ~Begun(CsiU, 4, c, q)
  <2>1. SUFFICES ASSUME NEW q \in Nat, Begun(CsiU, 4, c, q) PROVE FALSE
    OBVIOUS
  <2>2. q + 4 <= Len(c)
    BY <2>1 DEF Begun
  <2>3. q + 1 \in 1..Len(c) /\ (q + 1) - 1 = q
    BY <1>3, <2>2
  <2> QED BY <1>5, <2>1, <2>3
<1>7. h < 4
  <2>1. SUFFICES ASSUME h = 4 PROVE FALSE
    BY <1>4
  <2>2. Len(c) - 4 \in Nat
    BY <1>3, <1>4, <2>1
  <2> QED BY <1>4, <1>6, <2>1, <2>2
<1>8. /\ f = Before(c, Len(c) - h) /\ l = Behind(c, Len(c) - h)
      /\ Len(c) - h \in 0..Len(c)
  BY <1>3, <1>4, <1>7 DEF h
<1>9. f \in Seq(Bytes) /\ l \in Seq(Bytes)
  <2>1. c \in Seq(Bytes) /\ Len(c) - h \in 0..Len(c)
    BY <1>1, <1>8
  <2>2. Before(c, Len(c) - h) \in Seq(Bytes) /\ Behind(c, Len(c) - h) \in Seq(Bytes)
    BY <2>1, Parts, Zenon
  <2> QED BY <1>8, <2>2
<1>10. Len(l) = h /\ \A i \in 1..h : l[i] = c[(Len(c) - h) + i]
  <2> DEFINE j == Len(c) - h
  <2>1. j \in 0..Len(c) /\ Len(c) - j = h
    BY <1>1, <1>3, <1>4
  <2>2. l = Behind(c, j) /\ c \in Seq(Nat)
    BY <1>1, <1>8
  <2> HIDE DEF j
  <2>3. Len(Behind(c, j)) = Len(c) - j /\ \A i \in 1..(Len(c) - j) : Behind(c, j)[i] = c[j + i]
    BY <1>2, <2>1, <2>2, NatParts
  <2>4. Len(l) = h /\ \A i \in 1..h : l[i] = c[j + i]
    BY <2>1, <2>2, <2>3
  <2> QED BY <2>4 DEF j
<1>11. t = (forwarded \o f) \o l
  <2>1. c \in Seq(Nat) /\ forwarded \in Seq(Nat) /\ Len(c) - h \in 0..Len(c)
    BY <1>1, <1>2, <1>8
  <2>2. forwarded \o c = (forwarded \o Before(c, Len(c) - h)) \o Behind(c, Len(c) - h)
    BY <2>1, NatParts
  <2> QED BY <1>1, <1>8, <2>2
<1>12. \A k \in 1..4, p \in Nat :
         Begun(CsiU, k, t, p) /\ (k = 4 \/ p + k > Len(typed)) =>
           /\ p >= Len(forwarded) /\ p - Len(forwarded) \in Nat
           /\ p + k > Len(typed)
           /\ Begun(CsiU, k, c, p - Len(forwarded))
  BY <1>1, InCombined
<1>13. \A i \in 1..Len(forwarded) : t[i] = forwarded[i] /\ forwarded[i] # RawByte
  BY InCombined
<1>14. \A i \in 1..Len(c) : t[Len(forwarded) + i] = c[i]
  BY InCombined
<1>15. Len(t) = Len(forwarded) + Len(c)
  <2>1. Len(forwarded \o c) = Len(forwarded) + Len(c)
    <3>1. forwarded \in Seq(Nat) /\ c \in Seq(Nat)
      BY <1>1, <1>2
    <3> QED BY <3>1, ConcatProperties
  <2> QED BY <1>1, <2>1
<1> HIDE DEF t
<1>16. \A i \in 1..Len(t) : t[i] # RawByte
  <2>1. ASSUME NEW i \in 1..Len(t) PROVE t[i] # RawByte
    <3>1. CASE i <= Len(forwarded)
      <4>1. i \in 1..Len(forwarded)
        BY <1>3, <3>1
      <4> QED BY <1>13, <4>1
    <3>2. CASE i > Len(forwarded)
      <4>1. i - Len(forwarded) \in 1..Len(c) /\ Len(forwarded) + (i - Len(forwarded)) = i
        BY <1>3, <1>15, <3>2
      <4> QED BY <1>5, <1>14, <4>1
    <3> QED BY <1>3, <3>1, <3>2
  <2> QED BY <2>1
<1>17. Untriggered(RawByte, CsiU, t)
  <2>1. ASSUME NEW p \in Nat, Begun(CsiU, 4, t, p) PROVE FALSE
    BY <1>6, <1>12, <2>1
  <2> QED BY <1>1, <1>16, <2>1 DEF Untriggered
<1>18. HeldIn(CsiU, t, l)
  <2>1. ASSUME NEW k \in 1..4, NEW p \in Nat, p + k = Len(t), Begun(CsiU, k, t, p) PROVE k <= h
    <3>1. p + k > Len(typed)
      BY <1>1, <1>3, <2>1
    <3>2. Begun(CsiU, k, c, p - Len(forwarded)) /\ p >= Len(forwarded)
      BY <1>12, <2>1, <3>1
    <3>3. p - Len(forwarded) = Len(c) - k /\ k <= Len(c)
      BY <1>3, <1>15, <2>1, <3>2
    <3> QED BY <1>4, <3>2, <3>3
  <2> QED BY <1>1, <1>10, <2>1 DEF HeldIn
<1>19. Begun(CsiU, h, l, 0)
  <2>1. \A i \in 1..h : c[(Len(c) - h) + i] = CsiU[i]
    BY <1>4 DEF Begun
  <2>2. \A i \in 1..h : 0 + i = i
    BY <1>4
  <2>3. 0 + h <= Len(l)
    <3>1. h \in 0..4 /\ Len(l) = h
      BY <1>4, <1>10
    <3> QED BY <3>1
  <2>4. ASSUME NEW i \in 1..h PROVE l[0 + i] = CsiU[i]
    <3>1. 0 + i = i
      BY <2>2
    <3>2. l[i] = c[(Len(c) - h) + i] /\ c[(Len(c) - h) + i] = CsiU[i]
      BY <1>10, <2>1
    <3> QED BY <3>1, <3>2
  <2> QED BY <2>3, <2>4 DEF Begun
<1>20. forwarded \o f \in Seq(Bytes)
  BY <1>2, <1>9, ConcatProperties
<1> QED BY <1>1, <1>7, <1>9, <1>10, <1>11, <1>17, <1>18, <1>19, <1>20 DEF t

\* A turn that finds the key: what is forwarded stands before it.
LEMMA ReadsKey ==
  ASSUME Inv, state = "reading", NEW n \in Nat \ {0}, NEW chunk \in [1..n -> Bytes],
         Triggers(leftover \o chunk) # {},
         NEW c, c = leftover \o chunk, NEW f, f = forwarded \o Upto(c)
  PROVE  /\ f \in Seq(Bytes) /\ Begun(f, Len(f), typed \o chunk, 0)
         /\ \/ Len(f) + 1 <= Len(typed \o chunk) /\ (typed \o chunk)[Len(f) + 1] = RawByte
            \/ Begun(CsiU, Len(CsiU), typed \o chunk, Len(f))
         /\ \A i \in 1..Len(f) : (typed \o chunk)[i] # RawByte
         /\ \A p \in Nat : Begun(CsiU, Len(CsiU), typed \o chunk, p) => p + Len(CsiU) > Len(f)
<1> DEFINE m == Min(Triggers(c))
           t == typed \o chunk
           d == Len(forwarded)
           u == Before(c, m - 1)
<1>1. /\ spec \in Specs /\ ParseDetachKey(spec).ok /\ CsiU \in Seq(Nat) /\ Len(CsiU) = 4
      /\ c \in Seq(Bytes) /\ c \in Seq(Nat) /\ t = forwarded \o c
  BY Combined DEF Inv, Typing
<1>2. forwarded \in Seq(Nat) /\ forwarded \in Seq(Bytes)
  BY SeqNat DEF Inv, Typing
<1>3. d \in Nat /\ Len(c) \in Nat
  BY <1>1, <1>2, LenProperties
<1>4. Triggers(c) = {i \in 1..Len(c) : c[i] = RawByte \/ Begun(CsiU, 4, c, i - 1)}
  BY <1>1, TriggersAre
<1>5. m \in Triggers(c) /\ \A i \in Triggers(c) : m <= i
  <2>1. Triggers(c) \in SUBSET Nat /\ Triggers(c) # {}
    BY <1>4
  <2> QED BY <2>1, MinIsLeast
<1>6. f = forwarded \o u
  BY DEF Upto, Before
<1> HIDE DEF m
<1>7. /\ m \in 1..Len(c) /\ (c[m] = RawByte \/ Begun(CsiU, 4, c, m - 1))
      /\ \A i \in 1..Len(c) : i < m => c[i] # RawByte /\ ~Begun(CsiU, 4, c, i - 1)
  <2>1. m \in 1..Len(c) /\ (c[m] = RawByte \/ Begun(CsiU, 4, c, m - 1))
    BY <1>4, <1>5
  <2>2. ASSUME NEW i \in 1..Len(c), i < m PROVE i \notin Triggers(c)
    <3>1. i \in Triggers(c) => m <= i
      BY <1>5
    <3>2. ~(m <= i)
      BY <1>3, <2>1, <2>2
    <3> QED BY <3>1, <3>2
  <2> QED BY <1>4, <2>1, <2>2
<1>8. m - 1 \in 0..Len(c) /\ m \in Nat
  BY <1>3, <1>7
<1>9. u \in Seq(Bytes) /\ u \in Seq(Nat)
  <2>1. c \in Seq(Bytes) /\ c \in Seq(Nat)
    BY <1>1
  <2>2. Before(c, m - 1) \in Seq(Bytes)
    BY <1>8, <2>1, Parts, Zenon
  <2>3. Before(c, m - 1) \in Seq(Nat)
    BY <1>8, <2>1, Parts, Zenon
  <2> QED BY <2>2, <2>3
<1>10. Len(u) = m - 1 /\ t = f \o Behind(c, m - 1)
  <2>1. c \in Seq(Nat) /\ forwarded \in Seq(Nat)
    BY <1>1, <1>2
  <2>2. /\ Len(Before(c, m - 1)) = m - 1
        /\ forwarded \o c = (forwarded \o Before(c, m - 1)) \o Behind(c, m - 1)
    <3> DEFINE j == m - 1
    <3>1. j \in 0..Len(c)
      BY <1>8
    <3> HIDE DEF j
    <3>2. Len(Before(c, j)) = j /\ forwarded \o c = (forwarded \o Before(c, j)) \o Behind(c, j)
      BY <2>1, <3>1, NatParts
    <3> QED BY <3>2 DEF j
  <2>3. Len(u) = m - 1 /\ forwarded \o c = (forwarded \o u) \o Behind(c, m - 1)
    BY <2>2
  <2> HIDE DEF u
  <2> QED BY <1>1, <1>6, <2>3
<1>11. Behind(c, m - 1) \in Seq(Nat)
  <2>1. c \in Seq(Nat)
    BY <1>1
  <2> QED BY <1>8, <2>1, Parts, Zenon
<1> HIDE DEF u
<1>12. f \in Seq(Bytes) /\ f \in Seq(Nat) /\ Len(f) = d + (m - 1)
  <2>1. forwarded \o u \in Seq(Bytes)
    BY <1>2, <1>9, ConcatProperties
  <2>2. forwarded \o u \in Seq(Nat) /\ Len(forwarded \o u) = d + Len(u)
    BY <1>2, <1>9, ConcatProperties
  <2> QED BY <1>6, <1>10, <2>1, <2>2
<1>13. Begun(f, Len(f), t, 0)
  <2> DEFINE z == Behind(c, m - 1)
  <2>1. z \in Seq(Nat) /\ t = f \o z
    BY <1>10, <1>11
  <2> HIDE DEF z, t
  <2>2. Len(z) \in Nat /\ Len(f) \in Nat
    BY <1>12, <2>1, LenProperties
  <2>3. /\ Len(f \o z) = Len(f) + Len(z)
        /\ \A i \in 1..(Len(f) + Len(z)) : (f \o z)[i] = IF i <= Len(f) THEN f[i] ELSE z[i - Len(f)]
    BY <1>12, <2>1, ConcatProperties
  <2>4. ASSUME NEW i \in 1..Len(f) PROVE t[0 + i] = f[i]
    <3>1. 0 + i = i /\ i \in 1..(Len(f) + Len(z)) /\ i <= Len(f)
      BY <2>2
    <3> QED BY <2>1, <2>3, <3>1
  <2>5. 0 + Len(f) <= Len(t)
    BY <2>1, <2>2, <2>3
  <2> QED BY <2>4, <2>5 DEF Begun
<1>14. \A k \in 1..4, p \in Nat :
         Begun(CsiU, k, t, p) /\ (k = 4 \/ p + k > Len(typed)) =>
           /\ p >= d /\ p - d \in Nat /\ p + k > Len(typed)
           /\ Begun(CsiU, k, c, p - d)
  BY <1>1, InCombined
<1>15. \A i \in 1..d : t[i] = forwarded[i] /\ forwarded[i] # RawByte
  BY InCombined
<1>16. \A i \in 1..Len(c) : t[d + i] = c[i]
  BY InCombined
<1>17. Len(t) = d + Len(c)
  <2>1. Len(forwarded \o c) = d + Len(c)
    BY <1>1, <1>2, ConcatProperties
  <2> QED BY <1>1, <2>1
<1> HIDE DEF t, d
<1>18. (Len(f) + 1 <= Len(t) /\ t[Len(f) + 1] = RawByte) \/ Begun(CsiU, 4, t, Len(f))
  <2>1. Len(f) + 1 = d + m /\ d + m <= Len(t)
    BY <1>3, <1>7, <1>8, <1>12, <1>17
  <2>2. CASE c[m] = RawByte
    <3>1. t[d + m] = RawByte
      BY <1>7, <1>16, <2>2
    <3> QED BY <2>1, <3>1
  <2>3. CASE Begun(CsiU, 4, c, m - 1)
    <3>1. (m - 1) + 4 <= Len(c) /\ \A i \in 1..4 : c[(m - 1) + i] = CsiU[i]
      BY <2>3 DEF Begun
    <3>2. ASSUME NEW i \in 1..4 PROVE t[Len(f) + i] = CsiU[i]
      <4>1. (m - 1) + i \in 1..Len(c) /\ d + ((m - 1) + i) = Len(f) + i
        <5>1. (m - 1) + 4 <= Len(c) /\ m \in Nat /\ m >= 1 /\ Len(f) = d + (m - 1) /\ d \in Nat
          BY <1>3, <1>7, <1>8, <1>12, <3>1
        <5> QED BY <1>3, <5>1
      <4>2. t[d + ((m - 1) + i)] = c[(m - 1) + i]
        BY <1>16, <4>1
      <4> QED BY <3>1, <4>1, <4>2
    <3>3. Len(f) + 4 <= Len(t)
      BY <1>3, <1>8, <1>12, <1>17, <3>1
    <3> QED BY <3>2, <3>3 DEF Begun
  <2> QED BY <1>7, <2>2, <2>3
<1>19. ASSUME NEW i \in 1..Len(f) PROVE t[i] # RawByte
  <2>1. CASE i <= d
    <3>1. i \in 1..d
      BY <1>3, <2>1
    <3> QED BY <1>15, <3>1
  <2>2. CASE ~(i <= d)
    <3>1. i - d \in 1..Len(c) /\ i - d < m /\ d + (i - d) = i
      BY <1>3, <1>7, <1>8, <1>12, <2>2
    <3> QED BY <1>7, <1>16, <3>1
  <2> QED BY <2>1, <2>2
<1>20. ASSUME NEW p \in Nat, Begun(CsiU, 4, t, p) PROVE p + 4 > Len(f)
  <2>1. p >= d /\ p - d \in Nat /\ Begun(CsiU, 4, c, p - d)
    BY <1>14, <1>20
  <2>2. (p - d) + 4 <= Len(c)
    BY <2>1 DEF Begun
  <2>3. CASE p + 4 <= Len(f)
    <3>1. (p - d) + 1 \in 1..Len(c) /\ (p - d) + 1 < m /\ ((p - d) + 1) - 1 = p - d
      BY <1>3, <1>8, <1>12, <2>1, <2>2, <2>3
    <3> QED BY <1>7, <2>1, <3>1
  <2> QED BY <1>3, <1>8, <1>12, <2>3
<1> QED BY <1>1, <1>12, <1>13, <1>18, <1>19, <1>20 DEF t

\* One turn of stdin_loop preserves the invariant: the key is found, or what may
\* be its beginning is held.
LEMMA ReadStep ==
  ASSUME Inv, NEW n \in 1..MaxRead, NEW chunk \in [1..n -> Bytes], Read(chunk)
  PROVE  Inv'
<1> DEFINE c == leftover \o chunk
<1>1. n \in Nat \ {0}
  BY TriggerAssumption
<1>2. /\ state = "reading" /\ spec' = spec /\ typed' = typed \o chunk
  BY DEF Read
<1>3. Bytes' = Bytes /\ CsiU' = CsiU /\ RawByte' = RawByte
  BY <1>2 DEF Bytes, CsiU, RawByte
<1>4. spec \in Specs /\ ParseDetachKey(spec).ok /\ typed \o chunk \in Seq(Bytes)
  BY <1>1, <1>2, Combined DEF Inv, Typing
<1>5. CASE Triggers(c) # {}
  <2> DEFINE f == forwarded \o Upto(c)
  <2>1. forwarded' = f /\ leftover' = <<>> /\ state' = "detached"
    BY <1>5 DEF Read
  <2>2. /\ f \in Seq(Bytes) /\ Begun(f, Len(f), typed \o chunk, 0)
        /\ \/ Len(f) + 1 <= Len(typed \o chunk) /\ (typed \o chunk)[Len(f) + 1] = RawByte
           \/ Begun(CsiU, Len(CsiU), typed \o chunk, Len(f))
        /\ \A i \in 1..Len(f) : (typed \o chunk)[i] # RawByte
        /\ \A p \in Nat : Begun(CsiU, Len(CsiU), typed \o chunk, p) => p + Len(CsiU) > Len(f)
    BY <1>1, <1>2, <1>5, ReadsKey
  <2> HIDE DEF f, c
  <2>3. Typing'
    <3>1. <<>> \in Seq(Bytes)
      BY EmptySeq
    <3>2. f \in Seq(Bytes)
      BY <2>2
    <3> QED BY <1>2, <1>3, <1>4, <2>1, <3>1, <3>2 DEF Typing
  <2>4. Holding'
    BY <2>1 DEF Holding
  <2>5. Found'
    BY <1>2, <1>3, <2>1, <2>2 DEF Found, Begun
  <2> QED BY <2>3, <2>4, <2>5 DEF Inv
<1>6. CASE Triggers(c) = {}
  <2> DEFINE f == Before(c, Len(c) - HeldBack(c))
             l == Behind(c, Len(c) - HeldBack(c))
  <2>1. forwarded' = forwarded \o f /\ leftover' = l /\ state' = "reading"
    BY <1>2, <1>6 DEF Read, Before, Behind
  <2>2. /\ forwarded \o f \in Seq(Bytes) /\ l \in Seq(Bytes)
        /\ typed \o chunk = (forwarded \o f) \o l
        /\ Untriggered(RawByte, CsiU, typed \o chunk)
        /\ HeldIn(CsiU, typed \o chunk, l)
        /\ Len(l) < Len(CsiU) /\ Begun(CsiU, Len(l), l, 0)
    BY <1>1, <1>2, <1>6, ReadsOn
  <2> HIDE DEF f, l, c
  <2>3. Typing'
    BY <1>2, <1>3, <1>4, <2>1, <2>2 DEF Typing
  <2>4. Holding'
    <3>1. typed' = forwarded' \o leftover'
      BY <1>2, <2>1, <2>2
    <3>2. Untriggered(RawByte, CsiU, typed)'
      BY <1>2, <1>3, <2>2 DEF Untriggered, Begun
    <3>3. HeldIn(CsiU, typed, leftover)'
      BY <1>2, <1>3, <2>1, <2>2 DEF HeldIn, Begun
    <3>4. (Len(leftover) < Len(CsiU) /\ Begun(CsiU, Len(leftover), leftover, 0))'
      BY <1>3, <2>1, <2>2 DEF Begun
    <3> QED BY <3>1, <3>2, <3>3, <3>4 DEF Holding
  <2>5. Found'
    BY <2>1 DEF Found
  <2> QED BY <2>3, <2>4, <2>5 DEF Inv
<1> QED BY <1>5, <1>6

\* The end of the terminal changes nothing but the state.
LEMMA EofStep ==
  ASSUME Inv, Eof
  PROVE  Inv'
<1>1. /\ state = "reading" /\ state' = "eof" /\ spec' = spec /\ typed' = typed
      /\ leftover' = leftover /\ forwarded' = forwarded
  BY DEF Eof
<1>2. Bytes' = Bytes /\ CsiU' = CsiU /\ RawByte' = RawByte
  BY <1>1 DEF Bytes, CsiU, RawByte
<1>3. Typing'
  BY <1>1, <1>2 DEF Inv, Typing
<1>4. Holding'
  BY <1>1, <1>2 DEF Inv, Holding, Untriggered, HeldIn, Begun
<1>5. Found'
  BY <1>1 DEF Found
<1> QED BY <1>3, <1>4, <1>5 DEF Inv

\* Every step preserves the invariant.
LEMMA NextInv ==
  ASSUME Inv, [Next]_vars
  PROVE  Inv'
<1>1. CASE Next
  BY <1>1, ReadStep, EofStep DEF Next
<1>2. CASE UNCHANGED vars
  <2>1. /\ state' = state /\ spec' = spec /\ typed' = typed
        /\ leftover' = leftover /\ forwarded' = forwarded
    BY <1>2 DEF vars
  <2>2. Bytes' = Bytes /\ CsiU' = CsiU /\ RawByte' = RawByte
    BY <2>1 DEF Bytes, CsiU, RawByte
  <2>3. Typing'
    BY <2>1, <2>2 DEF Inv, Typing
  <2>4. Holding'
    BY <2>1, <2>2 DEF Inv, Holding, Untriggered, HeldIn, Begun
  <2>5. Found'
    BY <2>1, <2>2 DEF Inv, Found, Begun
  <2> QED BY <2>3, <2>4, <2>5 DEF Inv
<1> QED BY <1>1, <1>2

\* The invariant holds: the key is nowhere in what was typed until the thread
\* sends Detach, and its beginnings are held back (attach.rs, stdin_loop).
THEOREM Invariance == Spec => []Inv
BY InitInv, NextInv, PTL DEF Spec

\* What is no key that may be configured has no encoding.
LEMMA Refused ==
  ASSUME NEW s \in Specs, ~ParseDetachKey(s).ok
  PROVE  ParseDetachKey(s).csiU = <<>>
<1> DEFINE may == /\ s.mods # <<>> /\ Range(s.mods) \subseteq CtrlNames
                  /\ Len(s.key) = 1 /\ s.key[1] < 128
<1>1. ParseDetachKey(s) = IF may THEN Accepted(s.key[1]) ELSE Rejected
  BY DEF ParseDetachKey
<1> HIDE DEF may
<1>2. Accepted(s.key[1]).ok = TRUE
  BY DEF Accepted
<1>3. ParseDetachKey(s) = Rejected
  BY <1>1, <1>2
<1> QED BY <1>3 DEF Rejected

\* The invariant has the types.
LEMMA InvTypeOK ==
  ASSUME Inv
  PROVE  TypeOK
<1>1. Len(leftover) <= Len(CsiU)
  <2>1. CASE state \in {"reading", "eof"}
    <3>1. Len(leftover) < Len(CsiU) /\ Len(leftover) \in Nat /\ Len(CsiU) = 4
      BY <2>1, SeqNat, LenProperties, TriggerType DEF Inv, Typing, Holding, CsiU
    <3> QED BY <3>1
  <2>2. CASE state = "detached"
    <3>1. leftover = <<>> /\ Len(CsiU) = 4
      BY <2>2, TriggerType DEF Inv, Typing, CsiU
    <3> QED BY <3>1
  <2>3. CASE state = "refused"
    <3>1. leftover = <<>> /\ CsiU = <<>>
      BY <2>3, Refused DEF Inv, Typing, CsiU
    <3> QED BY <3>1
  <2> QED BY <2>1, <2>2, <2>3 DEF Inv, Typing
<1> QED BY <1>1 DEF Inv, Typing, TypeOK

\* The type invariant: what is held back is no longer than the key, and an
\* attached user has a key that parse_detach_key accepts (attach.rs, stdin_loop).
THEOREM TypeCorrect == Spec => []TypeOK
<1>1. Inv => TypeOK
  BY InvTypeOK
<1> QED BY <1>1, Invariance, PTL

-----------------------------------------------------------------------------
(* The cuts do not show. *)

\* What was typed holds no stand-in for a byte that a key does not have.
LEMMA TypedBytes ==
  ASSUME AsParsed, Inv, NEW i \in 1..Len(typed)
  PROVE  typed[i] # NoByte
<1>1. spec \in Specs /\ typed[i] \in Bytes
  BY DEF Inv, Typing
<1>2. CASE typed[i] = Other
  <2>1. Other \in 0..255
    BY TriggerAssumption
  <2>2. Other # NoByte
    BY <2>1 DEF NoByte
  <2> QED BY <1>2, <2>2
<1>3. CASE \E keys \in Sent[spec] : typed[i] \in Range(keys)
  <2>1. PICK keys \in Sent[spec] : typed[i] \in Range(keys)
    BY <1>3
  <2>2. ParseDetachKey(spec).ok
    BY <1>1, <2>1 DEF AsParsed
  <2>3. Sent[spec] = {CsiU} \cup {<<byte>> : byte \in {RawByte} \ {NoByte}}
    BY <1>1, <2>2 DEF AsParsed, CsiU, RawByte
  <2>4. CASE keys = CsiU
    <3>1. NoByte \notin Range(CsiU)
      BY <1>1, <2>2, TriggerType DEF CsiU
    <3> QED BY <2>1, <2>4, <3>1
  <2>5. CASE keys = <<RawByte>> /\ RawByte # NoByte
    <3>1. Range(keys) = {RawByte}
      BY <2>5 DEF Range
    <3> QED BY <2>1, <2>5, <3>1
  <2> QED BY <2>1, <2>3, <2>4, <2>5
<1> QED BY <1>1, <1>2, <1>3 DEF Bytes

\* Where the key ends in what was typed.
LEMMA EndsTyped ==
  ASSUME AsParsed, Inv, ParseDetachKey(spec).ok
  PROVE  Ends = {e \in 1..Len(typed) :
                   \/ typed[e] = RawByte
                   \/ Len(CsiU) <= e /\ Begun(CsiU, Len(CsiU), typed, e - Len(CsiU))}
<1>1. spec \in Specs /\ typed \in Seq(Nat) /\ DOMAIN typed = 1..Len(typed)
  BY SeqNat DEF Inv, Typing
<1>2. \A i \in 1..Len(typed) : typed[i] # NoByte
  BY TypedBytes
<1>3. ASSUME NEW e \in 1..Len(typed)
      PROVE  (\E keys \in Sent[spec] : IsSuffix(keys, SubSeq(typed, 1, e)))
             <=> \/ typed[e] = RawByte
                 \/ Len(CsiU) <= e /\ Begun(CsiU, Len(CsiU), typed, e - Len(CsiU))
  BY <1>1, <1>2, EndsAre
<1> QED BY <1>1, <1>3 DEF Ends

\* Holding: what is held is a beginning of the key, and not the key.
LEMMA InvHeld ==
  ASSUME Inv
  PROVE  HeldIsKeyPrefix
<1> SUFFICES ASSUME state \in {"reading", "eof"}
             PROVE  typed = forwarded \o leftover /\ IsStrictPrefix(leftover, CsiU)
  BY DEF HeldIsKeyPrefix
<1>1. /\ typed = forwarded \o leftover
      /\ Len(leftover) < Len(CsiU) /\ Begun(CsiU, Len(leftover), leftover, 0)
  BY DEF Inv, Holding
<1>2. leftover \in Seq(Nat) /\ CsiU \in Seq(Nat) /\ Len(CsiU) = 4 /\ Len(leftover) \in Nat
  BY SeqNat, LenProperties, TriggerType DEF Inv, Typing, CsiU
<1>3. Begun(leftover, Len(leftover), CsiU, 0)
  <2>1. \A i \in 1..Len(leftover) : CsiU[0 + i] = leftover[i]
    <3>1. ASSUME NEW i \in 1..Len(leftover) PROVE CsiU[0 + i] = leftover[i]
      <4>1. 0 + i = i
        BY <1>2
      <4>2. leftover[0 + i] = CsiU[i]
        BY <1>1 DEF Begun
      <4> QED BY <4>1, <4>2
    <3> QED BY <3>1
  <2>2. 0 + Len(leftover) <= Len(CsiU)
    BY <1>1, <1>2
  <2> QED BY <2>1, <2>2 DEF Begun
<1>4. IsPrefix(leftover, CsiU)
  BY <1>2, <1>3, PrefixBegun
<1>5. leftover # CsiU
  <2>1. Len(leftover) # Len(CsiU)
    <3> DEFINE a == Len(leftover)
               b == Len(CsiU)
    <3>1. a < b /\ b \in Nat /\ a \in Nat
      BY <1>1, <1>2
    <3> HIDE DEF a, b
    <3>2. a # b
      BY <3>1
    <3> QED BY <3>2 DEF a, b
  <2> QED BY <2>1
<1> QED BY <1>1, <1>4, <1>5 DEF IsStrictPrefix

\* The invariant, with the key as parsed: the cuts do not show.
LEMMA InvCuts ==
  ASSUME AsParsed, Inv
  PROVE  CutsDoNotShow
<1>1. spec \in Specs /\ (state = "refused" <=> ~ParseDetachKey(spec).ok)
  BY DEF Inv, Typing
<1>2. CASE state = "refused"
  <2>1. Ends = {}
    <3>1. typed = <<>>
      BY <1>2 DEF Inv, Typing
    <3> QED BY <3>1 DEF Ends
  <2> QED BY <1>2, <2>1 DEF CutsDoNotShow
<1>3. ASSUME state # "refused"
      PROVE  /\ ParseDetachKey(spec).ok /\ CsiU \in Seq(Nat) /\ Len(CsiU) = 4 /\ RawByte \in Nat
             /\ Sent[spec] = {CsiU} \cup {<<byte>> : byte \in {RawByte} \ {NoByte}}
             /\ Sent[spec] # {}
             /\ typed \in Seq(Nat) /\ forwarded \in Seq(Nat)
             /\ Len(typed) \in Nat /\ Len(forwarded) \in Nat
  <2>1. ParseDetachKey(spec).ok
    BY <1>1, <1>3
  <2>2. CsiU \in Seq(Nat) /\ Len(CsiU) = 4 /\ RawByte \in Nat
    BY <1>1, <2>1, TriggerType DEF CsiU, RawByte
  <2>3. Sent[spec] = {CsiU} \cup {<<byte>> : byte \in {RawByte} \ {NoByte}}
    BY <1>1, <2>1 DEF AsParsed, CsiU, RawByte
  <2>4. typed \in Seq(Nat) /\ forwarded \in Seq(Nat) /\ Len(typed) \in Nat /\ Len(forwarded) \in Nat
    BY SeqNat, LenProperties DEF Inv
  <2> QED BY <2>1, <2>2, <2>3, <2>4
<1>4. CASE state \in {"reading", "eof"}
  <2>1. Untriggered(RawByte, CsiU, typed) /\ Len(CsiU) = 4 /\ Len(typed) \in Nat
    BY <1>3, <1>4 DEF Inv, Holding
  <2>2. Ends = {}
    <3>1. SUFFICES ASSUME NEW e \in 1..Len(typed),
                          \/ typed[e] = RawByte
                          \/ Len(CsiU) <= e /\ Begun(CsiU, Len(CsiU), typed, e - Len(CsiU))
                   PROVE  FALSE
      BY <1>3, <1>4, EndsTyped
    <3>2. CASE typed[e] = RawByte
      BY <2>1, <3>2 DEF Untriggered
    <3>3. CASE Len(CsiU) <= e /\ Begun(CsiU, Len(CsiU), typed, e - Len(CsiU))
      <4>1. e - Len(CsiU) \in Nat
        BY <2>1, <3>3
      <4> QED BY <2>1, <3>3, <4>1 DEF Untriggered
    <3> QED BY <3>1, <3>2, <3>3
  <2> QED BY <1>3, <1>4, <2>2 DEF CutsDoNotShow
<1>5. CASE state = "detached"
  <2> DEFINE f == Len(forwarded)
  <2>1. /\ Begun(forwarded, f, typed, 0)
        /\ (f + 1 <= Len(typed) /\ typed[f + 1] = RawByte) \/ Begun(CsiU, 4, typed, f)
        /\ \A i \in 1..f : typed[i] # RawByte
        /\ \A p \in Nat : Begun(CsiU, 4, typed, p) => p + 4 > f
    BY <1>3, <1>5 DEF Inv, Found
  <2>2. f \in Nat /\ Len(typed) \in Nat
    BY <1>3, <1>5
  <2>3. Ends = {e \in 1..Len(typed) :
                  typed[e] = RawByte \/ (4 <= e /\ Begun(CsiU, 4, typed, e - 4))}
    BY <1>3, <1>5, EndsTyped
  <2>4. ASSUME NEW e \in Ends PROVE e > f
    <3>1. e \in 1..Len(typed) /\ (typed[e] = RawByte \/ (4 <= e /\ Begun(CsiU, 4, typed, e - 4)))
      BY <2>3
    <3> HIDE DEF f
    <3>2. CASE typed[e] = RawByte
      <4>1. e \notin 1..f
        BY <2>1, <3>2
      <4> QED BY <2>2, <3>1, <4>1
    <3>3. CASE 4 <= e /\ Begun(CsiU, 4, typed, e - 4)
      <4>1. e - 4 \in Nat
        BY <2>2, <3>1, <3>3
      <4>2. (e - 4) + 4 > f
        BY <2>1, <3>3, <4>1
      <4> QED BY <2>2, <3>1, <4>2
    <3> QED BY <3>1, <3>2, <3>3
  <2>5. ASSUME NEW keys \in Seq(Nat), Begun(keys, Len(keys), typed, f)
        PROVE  IsPrefix(forwarded \o keys, typed)
    <3>1. forwarded \in Seq(Nat) /\ typed \in Seq(Nat)
      BY <1>3, <1>5
    <3> QED BY <2>1, <2>5, <3>1, JoinedBegun
  <2>6. \E keys \in Sent[spec] : IsPrefix(forwarded \o keys, typed) /\ Ends # {}
    <3> HIDE DEF f
    <3>1. CASE f + 1 <= Len(typed) /\ typed[f + 1] = RawByte
      <4> DEFINE keys == <<RawByte>>
      <4>1. f + 1 \in 1..Len(typed)
        BY <2>2, <3>1
      <4>2. RawByte # NoByte
        BY <3>1, <4>1, TypedBytes
      <4>3. keys \in Seq(Nat) /\ Len(keys) = 1 /\ keys[1] = RawByte /\ keys \in Sent[spec]
        BY <1>3, <1>5, <4>2
      <4> HIDE DEF keys
      <4>4. Begun(keys, Len(keys), typed, f)
        BY <3>1, <4>3 DEF Begun
      <4>5. f + 1 \in Ends
        BY <2>3, <3>1, <4>1
      <4> QED BY <2>5, <4>3, <4>4, <4>5
    <3>2. CASE Begun(CsiU, 4, typed, f)
      <4>1. f + 4 <= Len(typed)
        BY <3>2 DEF Begun
      <4>2. f + 4 \in 1..Len(typed) /\ 4 <= f + 4 /\ (f + 4) - 4 = f
        BY <2>2, <4>1
      <4>3. f + 4 \in Ends
        BY <2>3, <3>2, <4>2
      <4>4. CsiU \in Sent[spec] /\ CsiU \in Seq(Nat) /\ Len(CsiU) = 4
        BY <1>3, <1>5
      <4> QED BY <2>5, <3>2, <4>3, <4>4
    <3> QED BY <2>1, <3>1, <3>2
  <2> QED BY <1>3, <1>5, <2>4, <2>6 DEF CutsDoNotShow
<1> QED BY <1>2, <1>4, <1>5 DEF Inv, Typing

\* ... and with what is held, MatchSound.
LEMMA InvMatchSound ==
  AsParsed /\ Inv => MatchSound
BY InvHeld, InvCuts DEF MatchSound

\* Whatever the key, configured or sent: nothing typed is lost or doubled before
\* the detach, and only a beginning of the configured key is ever held back
\* (attach.rs, partial_prefix_at_end).
THEOREM OnlyTheKeyIsHeld == Spec => []HeldIsKeyPrefix
<1>1. Inv => HeldIsKeyPrefix
  BY InvHeld
<1> QED BY <1>1, Invariance, PTL

\* For keys that the terminal sends as parse_detach_key derives them, however
\* read() cuts what was typed: the user detaches exactly when the key is complete,
\* in either encoding; the agent is sent all that was typed before it, and nothing
\* of it; and what is held back meanwhile is a beginning of the key (attach.rs,
\* stdin_loop, find_detach_trigger, partial_prefix_at_end).
THEOREM CutsAreNotSeen ==
  ASSUME AsParsed
  PROVE  Spec => []MatchSound
<1>1. Inv => MatchSound
  BY InvMatchSound
<1> QED BY <1>1, Invariance, PTL
=============================================================================

---------------------------- MODULE CommandsProofs ----------------------------
(***************************************************************************)
(* Proofs about Commands, for any number of clients, any commands, names   *)
(* and configuration files: the type invariant, that a restart which       *)
(* succeeds has replaced the daemon, and that what a command reports is    *)
(* what was done.                                                          *)
(*                                                                         *)
(* The argument: at each place of a command it is known what it has had    *)
(* done so far (EffectsOK: nothing before its first answer, its first      *)
(* half's effect before its second, both after, and after a refusal no     *)
(* more than a trace), on agents of its name (AimedOK), with a command     *)
(* line made of the template it loaded (ArgvOK).                           *)
(* Nothing another client or the world does undoes that, because agents    *)
(* are numbered as they are made and keep their names.  HowItEnds lists    *)
(* the places a command can end at with each report, and the theorem reads *)
(* off what is known there.  A restart in its second half faces no daemon  *)
(* of this build, or a later one than it found (RestartOK).                *)
(*                                                                         *)
(* That agents and daemons fit in their bounds is a count: agents made,    *)
(* plus commands that may still make one, are no more than the commands    *)
(* run, and daemons started, plus those still to be launched, no more than *)
(* twice as many and one (CountsOK).                                       *)
(*                                                                         *)
(* AsConfigured is a fact about substitute_element, which scans an element *)
(* word by word: by induction on the words, what has been made of them so  *)
(* far is Copied.                                                          *)
(***************************************************************************)
EXTENDS Commands, Integers, TLAPS, FiniteSetTheorems, SequenceTheorems, WellFoundedInduction

-----------------------------------------------------------------------------
(* Induction over the naturals, as facts about sets: the library states it *)
(* of an operator.                                                         *)

\* A non-empty set of naturals has a least element.
LEMMA LeastElement ==
  ASSUME NEW S \in SUBSET Nat, S # {}
  PROVE  \E m \in S : \A k \in S : m <= k
<1> DEFINE T == {0..n : n \in S}
           R == StrictSubsetOrdering(Nat)
<1>1. IsWellFoundedOn(R, FiniteSubsetsOf(Nat))
  BY FS_StrictSubsetOrderingWellFounded
<1>2. T # {}
  OBVIOUS
<1>3. T \subseteq FiniteSubsetsOf(Nat)
  <2>1. SUFFICES ASSUME NEW n \in S PROVE 0..n \in FiniteSubsetsOf(Nat)
    OBVIOUS
  <2>2. IsFiniteSet(0..n)
    BY FS_Interval
  <2> QED BY <2>2 DEF FiniteSubsetsOf
<1>4. PICK x \in T : \A y \in T : <<y, x>> \notin R
  <2> HIDE DEF T, R
  <2> QED BY <1>1, <1>2, <1>3, WFMin
<1>5. PICK m \in S : x = 0..m
  OBVIOUS
<1>6. ASSUME NEW k \in S, k < m PROVE FALSE
  <2>1. 0..k \in T /\ 0..k \in SUBSET Nat /\ 0..m \in SUBSET Nat
    OBVIOUS
  <2>2. 0..k \subseteq 0..m /\ m \in 0..m /\ m \notin 0..k
    BY <1>6
  <2>3. <<0..k, 0..m>> \in R
    BY <2>1, <2>2 DEF StrictSubsetOrdering
  <2> QED BY <2>1, <2>3, <1>4, <1>5
<1> QED BY <1>6

\* What holds of 0 and is passed on from each number to the next holds of all.
LEMMA SetInduction ==
  ASSUME NEW S, 0 \in S, \A n \in Nat : n \in S => n + 1 \in S
  PROVE  Nat \subseteq S
<1>1. SUFFICES ASSUME NEW m \in Nat, m \notin S PROVE FALSE
  OBVIOUS
<1> DEFINE T == {n \in Nat : n \notin S}
<1>2. T # {} /\ T \in SUBSET Nat
  BY <1>1
<1>3. PICK n \in T : \A k \in T : n <= k
  <2> HIDE DEF T
  <2> QED BY <1>2, LeastElement
<1>4. n # 0
  OBVIOUS
<1>5. n - 1 \in Nat /\ n - 1 \in S
  BY <1>3, <1>4
<1> QED BY <1>5


-----------------------------------------------------------------------------
(* The scan of an element, as a sequence of states. *)

\* What the scan has made of the first words, and where in the braces it is.
ScanStates == [inside : BOOLEAN, out : Seq(STRING), hole : Seq(STRING), ok : BOOLEAN]

\* Scan, case by case.
LEMMA ScanCases ==
  ASSUME NEW s \in ScanStates, NEW word \in STRING, NEW name \in STRING
  PROVE  /\ s.inside = FALSE /\ word # Open =>
              Scan(s, word, name) = Outside(Append(s.out, word), s.ok)
         /\ s.inside = FALSE /\ word = Open =>
              Scan(s, word, name) = Inside(s.out, <<>>, s.ok)
         /\ s.inside = TRUE /\ word # Close =>
              Scan(s, word, name) = Inside(s.out, Append(s.hole, word), s.ok)
         /\ s.inside = TRUE /\ word = Close =>
              Scan(s, word, name) = Outside(Append(s.out, name), s.ok /\ s.hole = <<"name">>)
<1>1. CASE s.inside = FALSE
  BY <1>1 DEF Scan
<1>2. CASE s.inside = TRUE
  BY <1>2 DEF Scan
<1> QED BY <1>1, <1>2 DEF ScanStates

\* The states of the scan are states.
LEMMA ScanType ==
  ASSUME NEW s \in ScanStates, NEW word \in STRING, NEW name \in STRING
  PROVE  Scan(s, word, name) \in ScanStates
<1>1. /\ Append(s.out, word) \in Seq(STRING) /\ Append(s.out, name) \in Seq(STRING)
      /\ Append(s.hole, word) \in Seq(STRING) /\ s.out \in Seq(STRING) /\ s.ok \in BOOLEAN
      /\ s.inside \in BOOLEAN
  BY DEF ScanStates
<1>2. ASSUME NEW out \in Seq(STRING), NEW ok \in BOOLEAN PROVE Outside(out, ok) \in ScanStates
  BY EmptySeq DEF Outside, ScanStates
<1>3. ASSUME NEW out \in Seq(STRING), NEW hole \in Seq(STRING), NEW ok \in BOOLEAN
      PROVE Inside(out, hole, ok) \in ScanStates
  BY DEF Inside, ScanStates
<1>4. <<>> \in Seq(STRING) /\ (s.ok /\ s.hole = <<"name">>) \in BOOLEAN
  BY EmptySeq
<1>5. CASE s.inside = FALSE /\ word # Open
  <2>1. Scan(s, word, name) = Outside(Append(s.out, word), s.ok)
    BY <1>5, ScanCases
  <2> QED BY <1>1, <1>2, <2>1
<1>6. CASE s.inside = FALSE /\ word = Open
  <2>1. Scan(s, word, name) = Inside(s.out, <<>>, s.ok)
    BY <1>6, ScanCases
  <2> QED BY <1>1, <1>3, <1>4, <2>1
<1>7. CASE s.inside = TRUE /\ word # Close
  <2>1. Scan(s, word, name) = Inside(s.out, Append(s.hole, word), s.ok)
    BY <1>7, ScanCases
  <2> QED BY <1>1, <1>3, <2>1
<1>8. CASE s.inside = TRUE /\ word = Close
  <2> DEFINE b == s.ok /\ s.hole = <<"name">>
  <2>1. Scan(s, word, name) = Outside(Append(s.out, name), b)
    BY <1>8, ScanCases
  <2>2. b \in BOOLEAN
    BY Zenon
  <2> HIDE DEF b
  <2> QED BY <1>1, <1>2, <2>1, <2>2
<1> QED BY <1>1, <1>5, <1>6, <1>7, <1>8

\* The scan of an element, by recursion on its words.
Scanned(el, name, f) ==
  /\ f \in [0..Len(el) -> ScanStates]
  /\ f[0] = Outside(<<>>, TRUE)
  /\ \A k \in 1..Len(el) : f[k] = Scan(f[k-1], el[k], name)

\* There is such a sequence: each of its beginnings can be extended.
LEMMA ScanExists ==
  ASSUME NEW el \in Seq(STRING), NEW name \in STRING
  PROVE  \E f : Scanned(el, name, f)
<1> DEFINE UpTo(n, f) == /\ f \in [0..n -> ScanStates]
                         /\ f[0] = Outside(<<>>, TRUE)
                         /\ \A k \in 1..n : f[k] = Scan(f[k-1], el[k], name)
           S == {n \in Nat : n <= Len(el) => \E f : UpTo(n, f)}
<1>1. 0 \in S
  <2> DEFINE z == Outside(<<>>, TRUE)
             f0 == [k \in 0..0 |-> z]
  <2>1. z \in ScanStates
    BY EmptySeq DEF Outside, ScanStates
  <2>2. f0 \in [0..0 -> ScanStates] /\ f0[0] = z
    <3> HIDE DEF z
    <3> QED BY <2>1
  <2> HIDE DEF f0
  <2>3. UpTo(0, f0)
    BY <2>2
  <2> QED BY <2>3
<1>2. ASSUME NEW n \in Nat, n \in S PROVE n + 1 \in S
  <2> SUFFICES n + 1 <= Len(el) => \E f : UpTo(n + 1, f)
    <3> HIDE DEF UpTo
    <3> QED OBVIOUS
  <2>1. SUFFICES ASSUME n + 1 <= Len(el) PROVE \E f : UpTo(n + 1, f)
    OBVIOUS
  <2>2. Len(el) \in Nat
    BY LenProperties
  <2>3. PICK f : UpTo(n, f)
    <3> HIDE DEF UpTo
    <3> QED BY <1>2, <2>1, <2>2
  <2>4. f[n] \in ScanStates /\ el[n+1] \in STRING
    BY <2>1, <2>2, <2>3
  <2> DEFINE x == Scan(f[n], el[n+1], name)
             g == [k \in 0..(n + 1) |-> IF k = n + 1 THEN x ELSE f[k]]
  <2>5. x \in ScanStates
    BY <2>4, ScanType
  <2>6. g[n + 1] = x /\ \A k \in 0..n : g[k] = f[k]
    <3> HIDE DEF x
    <3> QED OBVIOUS
  <2> HIDE DEF x
  <2>7. g \in [0..(n + 1) -> ScanStates] /\ g[0] = Outside(<<>>, TRUE)
    <3>1. \A k \in 0..n : f[k] \in ScanStates
      BY <2>3
    <3>2. \A k \in 0..(n + 1) : (IF k = n + 1 THEN x ELSE f[k]) \in ScanStates
      BY <2>5, <3>1
    <3>3. g[0] = f[0]
      BY <2>6
    <3> QED BY <2>3, <3>2, <3>3
  <2>8. ASSUME NEW k \in 1..(n + 1) PROVE g[k] = Scan(g[k-1], el[k], name)
    <3>1. CASE k = n + 1
      <4>1. k - 1 = n /\ g[k-1] = f[n] /\ g[k] = x
        BY <2>6, <3>1
      <4> QED BY <3>1, <4>1 DEF x
    <3>2. CASE k # n + 1
      <4>1. k \in 1..n /\ k \in 0..n /\ k - 1 \in 0..n
        BY <3>2
      <4>2. g[k] = f[k] /\ g[k-1] = f[k-1]
        BY <2>6, <4>1
      <4> QED BY <2>3, <4>1, <4>2
    <3> QED BY <3>1, <3>2
  <2> HIDE DEF g
  <2> QED BY <2>7, <2>8
<1>3. \E f : UpTo(Len(el), f)
  <2>1. Nat \subseteq S
    <3> HIDE DEF S
    <3> QED BY <1>1, <1>2, SetInduction
  <2> HIDE DEF UpTo
  <2>2. Len(el) \in Nat /\ Len(el) <= Len(el)
    BY LenProperties
  <2> QED BY <2>1, <2>2
<1> QED BY <1>3 DEF Scanned

\* ... and it is the one SubstituteElement computes.
LEMMA SubstituteElementScans ==
  ASSUME NEW el \in Seq(STRING), NEW name \in STRING
  PROVE  \E f : /\ Scanned(el, name, f)
                /\ SubstituteElement(el, name) =
                     [ok |-> f[Len(el)].ok /\ ~f[Len(el)].inside, text |-> f[Len(el)].out]
<1> DEFINE after[k \in 0..Len(el)] ==
             IF k = 0 THEN Outside(<<>>, TRUE) ELSE Scan(after[k-1], el[k], name)
<1>1. PICK f : Scanned(el, name, f)
  BY ScanExists
<1>2. Len(el) \in Nat
  BY LenProperties
<1>3. f = [k \in 0..Len(el) |-> IF k = 0 THEN Outside(<<>>, TRUE) ELSE Scan(f[k-1], el[k], name)]
  <2>1. ASSUME NEW k \in 0..Len(el)
        PROVE  f[k] = IF k = 0 THEN Outside(<<>>, TRUE) ELSE Scan(f[k-1], el[k], name)
    <3>1. CASE k = 0
      BY <1>1, <3>1 DEF Scanned
    <3>2. CASE k # 0
      <4>1. k \in 1..Len(el)
        BY <1>2, <3>2
      <4> QED BY <1>1, <3>2, <4>1 DEF Scanned
    <3> QED BY <3>1, <3>2
  <2>2. DOMAIN f = 0..Len(el) /\ f = [k \in DOMAIN f |-> f[k]]
    BY <1>1 DEF Scanned
  <2> QED BY <2>1, <2>2
<1>4. after = [k \in 0..Len(el) |-> IF k = 0 THEN Outside(<<>>, TRUE) ELSE Scan(after[k-1], el[k], name)]
  BY <1>3 DEF after
<1>5. SubstituteElement(el, name) =
        [ok |-> after[Len(el)].ok /\ ~after[Len(el)].inside, text |-> after[Len(el)].out]
  BY DEF SubstituteElement
<1> HIDE DEF after
<1>6. Scanned(el, name, after)
  <2> DEFINE S == {k \in Nat : k <= Len(el) => after[k] = f[k]}
  <2>1. 0 \in S
    BY <1>2, <1>3, <1>4
  <2>2. ASSUME NEW k \in Nat, k \in S PROVE k + 1 \in S
    <3>1. SUFFICES ASSUME k + 1 <= Len(el) PROVE after[k + 1] = f[k + 1]
      OBVIOUS
    <3>2. k + 1 \in 0..Len(el) /\ k \in 0..Len(el) /\ k + 1 # 0 /\ (k + 1) - 1 = k
      BY <1>2, <3>1
    <3>3. after[k + 1] = Scan(after[k], el[k + 1], name) /\ f[k + 1] = Scan(f[k], el[k + 1], name)
      BY <1>3, <1>4, <3>2
    <3>4. after[k] = f[k]
      BY <1>2, <2>2, <3>2
    <3> QED BY <3>3, <3>4
  <2>3. Nat \subseteq S
    <3> HIDE DEF S
    <3> QED BY <2>1, <2>2, SetInduction
  <2>4. \A k \in 0..Len(el) : after[k] = f[k]
    BY <1>2, <2>3
  <2>5. DOMAIN after = 0..Len(el)
    BY <1>4
  <2>6. after = f
    BY <1>1, <1>4, <2>4, <2>5 DEF Scanned
  <2> QED BY <1>1, <2>6
<1> QED BY <1>5, <1>6

-----------------------------------------------------------------------------
(* The [spawn] template: what substitute_element makes of an element. *)

\* Where a "{" stands, how many stand before a place, and where in the text the
\* word at a place goes, as in Substituted.
Holes(el)     == {j \in DOMAIN el : el[j] = Open}
Before(el, j) == Cardinality({h \in Holes(el) : h < j})
Place(el, j)  == j - 2 * Before(el, j)

\* The words the scan tells apart.
LEMMA Braces == Open # Close /\ Open # "name"
BY Zenon DEF Open, Close

\* The braces before a place, counted from one place to the next.
LEMMA BeforeNext ==
  ASSUME NEW el \in Seq(STRING), NEW j \in Nat
  PROVE  /\ Before(el, j) \in Nat
         /\ j \in Holes(el) => Before(el, j + 1) = Before(el, j) + 1
         /\ j \notin Holes(el) => Before(el, j + 1) = Before(el, j)
         /\ Before(el, Len(el) + 1) = Cardinality(Holes(el))
         /\ Before(el, 1) = 0
<1> DEFINE S(i) == {h \in Holes(el) : h < i}
<1>1. Len(el) \in Nat /\ DOMAIN el = 1..Len(el) /\ Holes(el) \subseteq 1..Len(el)
  BY LenProperties DEF Holes
<1>2. IsFiniteSet(Holes(el)) /\ IsFiniteSet(S(j))
  <2>1. IsFiniteSet(1..Len(el))
    BY <1>1, FS_Interval
  <2> QED BY <1>1, <2>1, FS_Subset
<1>3. Before(el, j) \in Nat
  BY <1>2, FS_CardinalityType DEF Before
<1>4. ASSUME j \in Holes(el) PROVE Before(el, j + 1) = Before(el, j) + 1
  <2>1. S(j + 1) = S(j) \cup {j} /\ j \notin S(j)
    BY <1>1, <1>4
  <2> HIDE DEF S
  <2>2. Cardinality(S(j + 1)) = Cardinality(S(j)) + 1
    BY <1>2, <2>1, FS_AddElement
  <2> QED BY <2>2 DEF Before, S
<1>5. ASSUME j \notin Holes(el) PROVE Before(el, j + 1) = Before(el, j)
  <2>1. S(j + 1) = S(j)
    BY <1>1, <1>5
  <2> QED BY <2>1 DEF Before
<1>6. S(Len(el) + 1) = Holes(el) /\ S(1) = {}
  BY <1>1
<1> QED BY <1>3, <1>4, <1>5, <1>6, FS_EmptySet DEF Before

\* The first k words, outside of the braces at the end of them, made into out.
Copied(el, name, k, out) ==
  /\ out \in Seq(STRING) /\ Len(out) = k - 2 * Before(el, k + 1)
  /\ \A h \in Holes(el) : h <= k =>
       /\ h + 2 <= k /\ el[h+1] = "name" /\ el[h+2] = Close
       /\ Place(el, h) \in 1..Len(out) /\ out[Place(el, h)] = name
  /\ \A j \in 1..k : j \notin Holes(el) /\ j - 1 \notin Holes(el) /\ j - 2 \notin Holes(el) =>
       Place(el, j) \in 1..Len(out) /\ out[Place(el, j)] = el[j]

\* A word outside of the braces is copied to its place.
LEMMA CopyWord ==
  ASSUME NEW el \in Seq(STRING), NEW name \in STRING, NEW k \in Nat, k + 1 <= Len(el),
         NEW out, Copied(el, name, k, out), el[k+1] # Open
  PROVE  Copied(el, name, k + 1, Append(out, el[k+1]))
<1> DEFINE more == Append(out, el[k+1])
<1>1. Len(el) \in Nat /\ DOMAIN el = 1..Len(el) /\ el[k+1] \in STRING /\ k + 1 \notin Holes(el)
  BY LenProperties DEF Holes
<1>2. out \in Seq(STRING) /\ Len(out) \in Nat /\ Len(out) = k - 2 * Before(el, k + 1)
  BY LenProperties DEF Copied
<1>3. /\ more \in Seq(STRING) /\ Len(more) = Len(out) + 1
      /\ more[Len(out) + 1] = el[k+1] /\ \A i \in 1..Len(out) : more[i] = out[i]
  BY <1>1, <1>2, AppendProperties
<1>4. Before(el, k + 1) \in Nat /\ Before(el, (k + 1) + 1) = Before(el, k + 1)
  BY <1>1, BeforeNext
<1>5. Len(more) = (k + 1) - 2 * Before(el, (k + 1) + 1)
  BY <1>2, <1>3, <1>4
<1> HIDE DEF more
<1>6. ASSUME NEW h \in Holes(el), h <= k + 1
      PROVE  /\ h + 2 <= k + 1 /\ el[h+1] = "name" /\ el[h+2] = Close
             /\ Place(el, h) \in 1..Len(more) /\ more[Place(el, h)] = name
  <2>1. h \in Nat /\ h <= k
    BY <1>1, <1>6 DEF Holes
  <2>2. /\ h + 2 <= k /\ el[h+1] = "name" /\ el[h+2] = Close
        /\ Place(el, h) \in 1..Len(out) /\ out[Place(el, h)] = name
    BY <2>1 DEF Copied
  <2> QED BY <1>2, <1>3, <2>1, <2>2
<1>7. ASSUME NEW j \in 1..(k + 1), j \notin Holes(el), j - 1 \notin Holes(el), j - 2 \notin Holes(el)
      PROVE  Place(el, j) \in 1..Len(more) /\ more[Place(el, j)] = el[j]
  <2>1. CASE j = k + 1
    <3>1. Place(el, k + 1) = Len(out) + 1
      BY <1>2, <1>4 DEF Place
    <3> QED BY <1>2, <1>3, <2>1, <3>1
  <2>2. CASE j # k + 1
    <3>1. j \in 1..k
      BY <2>2
    <3>2. Place(el, j) \in 1..Len(out) /\ out[Place(el, j)] = el[j]
      BY <1>7, <3>1 DEF Copied
    <3> QED BY <1>2, <1>3, <3>2
  <2> QED BY <2>1, <2>2
<1> QED BY <1>3, <1>5, <1>6, <1>7 DEF Copied, more

\* A closed placeholder gives way to the name.
LEMMA FillHole ==
  ASSUME NEW el \in Seq(STRING), NEW name \in STRING, NEW k \in Nat, k + 3 <= Len(el),
         NEW out, Copied(el, name, k, out),
         el[k+1] = Open, el[k+2] = "name", el[k+3] = Close
  PROVE  Copied(el, name, k + 3, Append(out, name))
<1> DEFINE more == Append(out, name)
<1>1. /\ Len(el) \in Nat /\ DOMAIN el = 1..Len(el) /\ Holes(el) \subseteq 1..Len(el)
      /\ k + 1 \in Holes(el) /\ k + 2 \notin Holes(el) /\ k + 3 \notin Holes(el)
  BY LenProperties, Braces DEF Holes
<1>2. out \in Seq(STRING) /\ Len(out) \in Nat /\ Len(out) = k - 2 * Before(el, k + 1)
  BY LenProperties DEF Copied
<1>3. /\ more \in Seq(STRING) /\ Len(more) = Len(out) + 1
      /\ more[Len(out) + 1] = name /\ \A i \in 1..Len(out) : more[i] = out[i]
  BY <1>2, AppendProperties
<1>4. Before(el, k + 1) \in Nat /\ Before(el, (k + 3) + 1) = Before(el, k + 1) + 1
  <2>1. Before(el, k + 1) \in Nat /\ Before(el, (k + 1) + 1) = Before(el, k + 1) + 1
    BY <1>1, BeforeNext
  <2>2. Before(el, (k + 2) + 1) = Before(el, k + 2)
    BY <1>1, BeforeNext
  <2>3. Before(el, (k + 3) + 1) = Before(el, k + 3)
    BY <1>1, BeforeNext
  <2>4. (k + 1) + 1 = k + 2 /\ (k + 2) + 1 = k + 3
    OBVIOUS
  <2> QED BY <2>1, <2>2, <2>3, <2>4
<1>5. Len(more) = (k + 3) - 2 * Before(el, (k + 3) + 1)
  <2> DEFINE b == Before(el, k + 1)
             b3 == Before(el, (k + 3) + 1)
             n == Len(out)
             m == Len(more)
  <2>1. n \in Nat /\ b \in Nat /\ b3 = b + 1 /\ n = k - 2 * b /\ m = n + 1
    BY <1>2, <1>3, <1>4
  <2> HIDE DEF b, b3, n, m
  <2>2. m = (k + 3) - 2 * b3
    BY <2>1
  <2> QED BY <2>2 DEF b3, m
<1> HIDE DEF more
<1>6. ASSUME NEW h \in Holes(el), h <= k + 3
      PROVE  /\ h + 2 <= k + 3 /\ el[h+1] = "name" /\ el[h+2] = Close
             /\ Place(el, h) \in 1..Len(more) /\ more[Place(el, h)] = name
  <2>1. h \in Nat /\ (h <= k \/ h = k + 1)
    BY <1>1, <1>6
  <2>2. CASE h <= k
    <3>1. /\ h + 2 <= k /\ el[h+1] = "name" /\ el[h+2] = Close
          /\ Place(el, h) \in 1..Len(out) /\ out[Place(el, h)] = name
      BY <2>2 DEF Copied
    <3> QED BY <1>2, <1>3, <2>1, <3>1
  <2>3. CASE h = k + 1
    <3>1. Place(el, k + 1) = Len(out) + 1
      BY <1>2, <1>4 DEF Place
    <3>2. (k + 1) + 1 = k + 2 /\ (k + 1) + 2 = k + 3
      OBVIOUS
    <3> QED BY <1>2, <1>3, <2>3, <3>1, <3>2
  <2> QED BY <2>1, <2>2, <2>3
<1>7. ASSUME NEW j \in 1..(k + 3), j \notin Holes(el), j - 1 \notin Holes(el), j - 2 \notin Holes(el)
      PROVE  Place(el, j) \in 1..Len(more) /\ more[Place(el, j)] = el[j]
  <2>1. j \in 1..k
    <3>1. j # k + 1 /\ j - 1 # k + 1 /\ j - 2 # k + 1
      BY <1>1, <1>7
    <3> QED BY <3>1
  <2>2. Place(el, j) \in 1..Len(out) /\ out[Place(el, j)] = el[j]
    BY <1>7, <2>1 DEF Copied
  <2> QED BY <1>2, <1>3, <2>2
<1> QED BY <1>3, <1>5, <1>6, <1>7 DEF Copied, more

\* The state of the scan after k words, unless there was an error.
ScanOK(el, name, k, s) ==
  s.ok = TRUE =>
    /\ s.inside = FALSE => Copied(el, name, k, s.out)
    /\ s.inside = TRUE =>
         /\ k - Len(s.hole) \in 1..k
         /\ el[k - Len(s.hole)] = Open
         /\ \A i \in 1..Len(s.hole) : el[(k - Len(s.hole)) + i] = s.hole[i]
         /\ Copied(el, name, (k - Len(s.hole)) - 1, s.out)

\* A word is taken by the scan (the body of substitute_element's loop).
LEMMA ScanStep ==
  ASSUME NEW el \in Seq(STRING), NEW name \in STRING, NEW k \in Nat, k + 1 <= Len(el),
         NEW s \in ScanStates, ScanOK(el, name, k, s)
  PROVE  ScanOK(el, name, k + 1, Scan(s, el[k+1], name))
<1> DEFINE w == el[k+1]
           t == Scan(s, w, name)
<1>1. /\ Len(el) \in Nat /\ DOMAIN el = 1..Len(el) /\ w \in STRING
      /\ s.out \in Seq(STRING) /\ s.hole \in Seq(STRING) /\ Len(s.hole) \in Nat
      /\ s.ok \in BOOLEAN /\ s.inside \in BOOLEAN
  BY LenProperties DEF ScanStates
<1>2. CASE s.inside = FALSE /\ w # Open
  <2>1. t = Outside(Append(s.out, w), s.ok)
    BY <1>1, <1>2, ScanCases
  <2>2. t.ok = s.ok /\ t.inside = FALSE /\ t.out = Append(s.out, w)
    BY <2>1 DEF Outside
  <2> HIDE DEF t
  <2>3. ASSUME s.ok = TRUE PROVE Copied(el, name, k + 1, Append(s.out, w))
    <3>1. Copied(el, name, k, s.out)
      BY <1>2, <2>3 DEF ScanOK
    <3> QED BY <1>2, <3>1, CopyWord
  <2>4. ScanOK(el, name, k + 1, t)
    BY <2>2, <2>3 DEF ScanOK
  <2> QED BY <2>4 DEF t
<1>3. CASE s.inside = FALSE /\ w = Open
  <2>1. t = Inside(s.out, <<>>, s.ok)
    BY <1>1, <1>3, ScanCases
  <2>2. t.ok = s.ok /\ t.inside = TRUE /\ t.out = s.out /\ t.hole = <<>> /\ Len(t.hole) = 0
    <3>1. Len(<<>>) = 0
      BY EmptySeq
    <3> QED BY <2>1, <3>1 DEF Inside
  <2> HIDE DEF t
  <2>3. ASSUME s.ok = TRUE PROVE Copied(el, name, k, s.out)
    BY <1>3, <2>3 DEF ScanOK
  <2>4. (k + 1) - 0 = k + 1 /\ (k + 1) - 1 = k /\ k + 1 \in 1..(k + 1)
    OBVIOUS
  <2>5. /\ (k + 1) - Len(t.hole) = k + 1 /\ ((k + 1) - Len(t.hole)) - 1 = k
        /\ \A i \in 1..Len(t.hole) : el[(k + 1) + i] = t.hole[i]
    BY <2>2, <2>4
  <2>6. el[k+1] = Open
    BY <1>3
  <2>7. ScanOK(el, name, k + 1, t)
    BY <2>2, <2>3, <2>4, <2>5, <2>6 DEF ScanOK
  <2> QED BY <2>7 DEF t
<1>4. CASE s.inside = TRUE /\ w # Close
  <2>1. t = Inside(s.out, Append(s.hole, w), s.ok)
    BY <1>1, <1>4, ScanCases
  <2> DEFINE more == Append(s.hole, w)
             j == k - Len(s.hole)
  <2>2. t.ok = s.ok /\ t.inside = TRUE /\ t.out = s.out /\ t.hole = more
    BY <2>1 DEF Inside
  <2>3. /\ Len(more) = Len(s.hole) + 1 /\ more[Len(s.hole) + 1] = w
        /\ \A i \in 1..Len(s.hole) : more[i] = s.hole[i]
    BY <1>1, AppendProperties
  <2>4. j \in Int /\ (k + 1) - Len(more) = j /\ j + (Len(s.hole) + 1) = k + 1
    <3>1. Len(more) = Len(s.hole) + 1
      BY <2>3
    <3> DEFINE n == Len(s.hole)
    <3>2. n \in Nat /\ j = k - n
      BY <1>1
    <3> HIDE DEF more, t, n, j
    <3>3. j \in Int /\ (k + 1) - (n + 1) = j /\ j + (n + 1) = k + 1
      BY <3>2
    <3> QED BY <3>1, <3>3 DEF n
  <2> HIDE DEF t, more, j
  <2>5. ASSUME s.ok = TRUE
        PROVE  /\ j \in 1..(k + 1) /\ el[j] = Open
               /\ \A i \in 1..Len(more) : el[j + i] = more[i]
               /\ Copied(el, name, j - 1, s.out)
    <3>1. /\ j \in 1..k /\ el[j] = Open
          /\ \A i \in 1..Len(s.hole) : el[j + i] = s.hole[i]
          /\ Copied(el, name, j - 1, s.out)
      BY <1>4, <2>5 DEF ScanOK, j
    <3>2. ASSUME NEW i \in 1..Len(more) PROVE el[j + i] = more[i]
      <4>1. CASE i = Len(s.hole) + 1
        BY <2>3, <2>4, <4>1
      <4>2. CASE i # Len(s.hole) + 1
        <5>1. i \in 1..Len(s.hole)
          BY <1>1, <2>3, <4>2
        <5> QED BY <2>3, <3>1, <5>1
      <4> QED BY <4>1, <4>2
    <3> QED BY <3>1, <3>2
  <2>6. ScanOK(el, name, k + 1, t)
    BY <2>2, <2>4, <2>5 DEF ScanOK
  <2> QED BY <2>6 DEF t
<1>5. CASE s.inside = TRUE /\ w = Close
  <2> DEFINE b == s.ok /\ s.hole = <<"name">>
  <2>1. t = Outside(Append(s.out, name), b)
    BY <1>1, <1>5, ScanCases
  <2>2. t.ok = b /\ t.inside = FALSE /\ t.out = Append(s.out, name)
    <3> HIDE DEF b, t
    <3> QED BY <2>1 DEF Outside
  <2>3. ASSUME b = TRUE PROVE Copied(el, name, k + 1, Append(s.out, name))
    <3>1. s.ok = TRUE /\ s.hole = <<"name">>
      BY <1>1, <2>3
    <3>2. Len(s.hole) = 1 /\ s.hole[1] = "name"
      BY <3>1
    <3>3. /\ k - 1 \in 1..k /\ el[k - 1] = Open
          /\ \A i \in 1..1 : el[(k - 1) + i] = s.hole[i]
          /\ Copied(el, name, (k - 1) - 1, s.out)
      BY <1>5, <3>1, <3>2 DEF ScanOK
    <3>4. k - 2 \in Nat /\ (k - 1) - 1 = k - 2 /\ (k - 1) + 1 = k /\ 1 \in 1..1
          /\ (k - 2) + 1 = k - 1 /\ (k - 2) + 2 = k /\ (k - 2) + 3 = k + 1
      BY <3>3
    <3>5. el[k] = "name" /\ el[k+1] = Close
      BY <1>5, <3>2, <3>3, <3>4
    <3>6. Copied(el, name, (k - 2) + 3, Append(s.out, name))
      BY <3>3, <3>4, <3>5, FillHole
    <3> QED BY <3>4, <3>6
  <2> HIDE DEF b, t
  <2>4. ScanOK(el, name, k + 1, t)
    BY <2>2, <2>3 DEF ScanOK
  <2> QED BY <2>4 DEF t
<1> QED BY <1>1, <1>2, <1>3, <1>4, <1>5

\* What is copied to the end is what Substituted asks for.
LEMMA CopiedIsSubstituted ==
  ASSUME NEW el \in Seq(STRING), NEW name \in STRING, NEW out,
         Copied(el, name, Len(el), out)
  PROVE  Substituted(out, el, name)
<1>1. Len(el) \in Nat /\ DOMAIN el = 1..Len(el) /\ Holes(el) \subseteq 1..Len(el)
  BY LenProperties DEF Holes
<1>2. Len(out) = Len(el) - 2 * Cardinality(Holes(el))
  BY <1>1, BeforeNext DEF Copied
<1>3. ASSUME NEW j \in Holes(el)
      PROVE  /\ j + 2 \in DOMAIN el /\ el[j+1] = "name" /\ el[j+2] = Close
             /\ out[Place(el, j)] = name
  <2>1. j \in 1..Len(el)
    BY <1>1
  <2>2. /\ j + 2 <= Len(el) /\ el[j+1] = "name" /\ el[j+2] = Close
        /\ out[Place(el, j)] = name
    BY <2>1 DEF Copied
  <2> QED BY <1>1, <2>1, <2>2
<1>4. ASSUME NEW j \in DOMAIN el, {j, j - 1, j - 2} \cap Holes(el) = {}
      PROVE  out[Place(el, j)] = el[j]
  <2>1. j \in 1..Len(el) /\ j \notin Holes(el) /\ j - 1 \notin Holes(el) /\ j - 2 \notin Holes(el)
    BY <1>1, <1>4
  <2> QED BY <2>1 DEF Copied
<1> QED BY <1>2, <1>3, <1>4 DEF Substituted, Holes, Place, Before

\* An element that substitute_element accepts has been substituted: by induction
\* on its words.
LEMMA SubstituteElementCorrect ==
  ASSUME NEW el \in Seq(STRING), NEW name \in STRING, SubstituteElement(el, name).ok
  PROVE  /\ SubstituteElement(el, name).text \in Seq(STRING)
         /\ Substituted(SubstituteElement(el, name).text, el, name)
<1>1. PICK f : /\ Scanned(el, name, f)
               /\ SubstituteElement(el, name) =
                    [ok |-> f[Len(el)].ok /\ ~f[Len(el)].inside, text |-> f[Len(el)].out]
  BY SubstituteElementScans
<1>2. Len(el) \in Nat
  BY LenProperties
<1>3. \A k \in 0..Len(el) : f[k] \in ScanStates
  BY <1>1 DEF Scanned
<1> DEFINE S == {k \in Nat : k <= Len(el) => ScanOK(el, name, k, f[k])}
<1>4. 0 \in S
  <2>1. f[0].inside = FALSE /\ f[0].out = <<>>
    BY <1>1 DEF Scanned, Outside
  <2>2. Copied(el, name, 0, <<>>)
    <3>1. Before(el, 1) = 0 /\ 0 + 1 = 1
      BY <1>2, BeforeNext
    <3>2. Len(<<>>) = 0 /\ <<>> \in Seq(STRING)
      BY EmptySeq
    <3>3. Holes(el) \subseteq 1..Len(el)
      BY <1>2 DEF Holes
    <3> QED BY <1>2, <3>1, <3>2, <3>3 DEF Copied
  <2>3. ScanOK(el, name, 0, f[0])
    BY <2>1, <2>2 DEF ScanOK
  <2> QED BY <2>3
<1>5. ASSUME NEW k \in Nat, k \in S PROVE k + 1 \in S
  <2>1. CASE k + 1 <= Len(el)
    <3>1. k + 1 \in 1..Len(el) /\ (k + 1) - 1 = k /\ k \in 0..Len(el)
      BY <1>2, <2>1
    <3>2. f[k + 1] = Scan(f[k], el[k + 1], name)
      BY <1>1, <3>1 DEF Scanned
    <3>3. f[k] \in ScanStates /\ ScanOK(el, name, k, f[k])
      BY <1>2, <1>3, <1>5, <3>1
    <3>4. ScanOK(el, name, k + 1, f[k + 1])
      BY <2>1, <3>2, <3>3, ScanStep
    <3> QED BY <3>4
  <2>2. CASE ~(k + 1 <= Len(el))
    BY <2>2
  <2> QED BY <2>1, <2>2
<1>6. ScanOK(el, name, Len(el), f[Len(el)])
  <2>1. Nat \subseteq S
    <3> HIDE DEF S
    <3> QED BY <1>4, <1>5, SetInduction
  <2> QED BY <1>2, <2>1
<1>7. f[Len(el)].ok = TRUE /\ f[Len(el)].inside = FALSE
  <2> DEFINE e == f[Len(el)]
  <2>1. e.ok \in BOOLEAN /\ e.inside \in BOOLEAN
    BY <1>2, <1>3 DEF ScanStates
  <2>2. SubstituteElement(el, name) = [ok |-> e.ok /\ ~e.inside, text |-> e.out]
    BY <1>1
  <2> HIDE DEF e
  <2>3. e.ok /\ ~e.inside
    <3> DEFINE b == e.ok /\ ~e.inside
    <3>1. SubstituteElement(el, name) = [ok |-> b, text |-> e.out]
      BY <2>2, Zenon
    <3> HIDE DEF b
    <3>2. SubstituteElement(el, name).ok = b
      BY <3>1
    <3>3. b
      BY <3>2, Zenon
    <3> QED BY <3>3 DEF b
  <2>4. e.ok = TRUE /\ e.inside = FALSE
    BY <2>1, <2>3, Zenon
  <2> QED BY <2>4 DEF e
<1>8. Copied(el, name, Len(el), f[Len(el)].out)
  BY <1>6, <1>7 DEF ScanOK
<1>9. SubstituteElement(el, name).text = f[Len(el)].out
  BY <1>1
<1> QED BY <1>8, <1>9, CopiedIsSubstituted DEF Copied

\* resolve_spawn_argv, when it succeeds, gives a command that is not empty, and is
\* the template element by element.
LEMMA ResolvedArgv ==
  ASSUME NEW file \in Seq(Seq(STRING)), NEW name \in STRING,
         ResolveSpawnArgv(file, name).ok
  PROVE  /\ ResolveSpawnArgv(file, name).argv \in Seq(Seq(STRING))
         /\ ResolveSpawnArgv(file, name).argv # <<>>
         /\ Len(ResolveSpawnArgv(file, name).argv) = Len(file)
         /\ \A k \in DOMAIN ResolveSpawnArgv(file, name).argv :
              Substituted(ResolveSpawnArgv(file, name).argv[k], file[k], name)
<1> DEFINE text(i) == SubstituteElement(file[i], name).text
           texts == [i \in DOMAIN file |-> text(i)]
           parts == [i \in DOMAIN file |-> SubstituteElement(file[i], name)]
<1>1. /\ \A i \in DOMAIN file : parts[i].ok
      /\ file # <<>>
      /\ ResolveSpawnArgv(file, name) = [ok |-> TRUE, argv |-> [i \in DOMAIN file |-> parts[i].text]]
  BY DEF ResolveSpawnArgv, NoArgv
<1>2. Len(file) \in Nat /\ DOMAIN file = 1..Len(file) /\ Len(file) # 0
  BY <1>1, LenProperties, EmptySeq
<1>3. ASSUME NEW i \in DOMAIN file
      PROVE  text(i) \in Seq(STRING) /\ Substituted(text(i), file[i], name)
  <2>1. file[i] \in Seq(STRING) /\ SubstituteElement(file[i], name).ok
    BY <1>1
  <2> QED BY <2>1, SubstituteElementCorrect
<1> HIDE DEF text
<1>4. texts \in Seq(Seq(STRING)) /\ Len(texts) = Len(file) /\ DOMAIN texts = DOMAIN file
      /\ \A i \in DOMAIN file : texts[i] = text(i)
  BY <1>2, <1>3
<1>5. texts # <<>>
  BY <1>2, <1>4, EmptySeq
<1>6. ResolveSpawnArgv(file, name).argv = texts
  BY <1>1 DEF text
<1> HIDE DEF texts
<1> QED BY <1>3, <1>4, <1>5, <1>6

-----------------------------------------------------------------------------
(* The inductive invariant. *)

Bit(b) == IF b = TRUE THEN 1 ELSE 0

\* What the [spawn] section may hold; what has been done.
Templates == {NoTemplate} \cup Seq(Seq(STRING))
Effects   == ({"claim", "fork", "remove", "event", "attach"} \X Agents)
             \cup ({"write", "part"} \X Agents \X (1..2)) \cup ({"shutdown"} \X Boots)

ServerOK ==
  /\ daemon \in {"none", "up", "closing"} /\ build \in {"own", "older"}
  /\ boot \in Nat /\ starter \in BOOLEAN

\* Agents are numbered as they are made, and keep their names.
RegistryOK ==
  /\ made \in Nat
  /\ byName \in [Names -> 0..made] /\ byName[Self] = 0
  /\ nameOf \in [Agents -> STRING \cup {Unnamed}]
  /\ \A n \in Names : byName[n] # 0 => nameOf[byName[n]] = n
  /\ kind \in [Agents -> {"none", "spawned", "registered"}]
  /\ \A i \in Agents : kind[i] # "none" => i <= made
  /\ exited \subseteq 1..made /\ attached \subseteq 1..made

ProcessOK ==
  /\ pc \in [Clients -> {"idle", "start", "connect", "wait", "ask", "told", "launch",
                         "streaming", "gone?"}]
  /\ command \in [Clients -> Commands \cup {NoCommand}]
  /\ part \in [Clients -> 1..2]
  /\ conn \in [Clients -> 0..boot] /\ met \in [Clients -> 0..boot]
  /\ reply \in [Clients -> {"none", "ok", "denied"}]
  /\ template \in [Clients -> Templates]
  /\ argv \in [Clients -> Seq(Seq(STRING))]
  /\ outcome \in [Clients -> Outcomes]
  /\ effects \in [Clients -> SUBSET Effects]

\* Who may still make an agent; who may still launch a daemon in the first, in
\* the second half of its command.
Claiming == {c \in Clients : part[c] = 1 /\ pc[c] \in {"start", "connect", "wait", "ask"}}
First    == {c \in Clients : part[c] = 1 /\ pc[c] \in {"start", "connect"}}
Second   == {c \in Clients : IF part[c] = 1 THEN pc[c] # "idle" ELSE pc[c] \in {"start", "connect"}}
CountsOK ==
  /\ ran \in Nat /\ ran <= MaxCommands
  /\ IsFiniteSet(Second)
  /\ made + Cardinality(Claiming) <= ran
  /\ boot + Bit(starter) + Cardinality(First) + Cardinality(Second) <= 1 + 2 * ran

\* Where a command can be, and whose.
PlaceOK(c) ==
  /\ pc[c] = "idle" => part[c] = 1 /\ effects[c] = {} /\ argv[c] = <<>> /\ command[c] = NoCommand
  /\ pc[c] # "idle" => command[c] \in Commands
  /\ pc[c] = "launch" => Templated(c)
  /\ pc[c] = "streaming" => Request(c) = "attach"
  /\ pc[c] = "gone?" => Verb(c) \in {"stop", "restart"} /\ part[c] = 1
  /\ part[c] = 2 => \/ Verb(c) = "run" /\ How(c) = "attach"
                    \/ Verb(c) = "send" /\ How(c) = "two"
                    \/ Verb(c) = "restart" /\ pc[c] \in {"connect", "wait", "ask"}

\* A restart in its second half is not served by the daemon it found: that one is
\* going, gone, or refuses.
RestartOK(c) ==
  Verb(c) = "restart" /\ part[c] = 2 =>
    /\ pc[c] \in {"connect", "wait"} /\ daemon = "up" /\ build = "own" => boot > met[c]
    /\ pc[c] = "ask" => conn[c] > met[c]

\* What its first half has had done, and its second.
FirstDone(c) ==
  CASE Verb(c) \in {"run", "register"} -> \E i \in Agents : effects[c] = {<<"claim", i>>}
    [] Verb(c) = "rm"       -> \E i \in Agents : effects[c] = {<<"remove", i>>}
    [] Verb(c) = "send"     -> \E i \in Agents : effects[c] = {<<"write", i, 1>>}
    [] Verb(c) = "attach"   -> \E i \in Agents : effects[c] = {<<"attach", i>>}
    [] Verb(c) = "stop"     -> \E b \in Boots : effects[c] = {<<"shutdown", b>>}
    [] Verb(c) \in {"ls", "complete", "view", "cwd"} -> effects[c] = {}
    [] OTHER -> TRUE
BothDone(c) ==
  CASE Verb(c) = "run"  -> \E i, j \in Agents : effects[c] = {<<"claim", i>>, <<"attach", j>>}
    [] Verb(c) = "send" -> \E i, j \in Agents : effects[c] = {<<"write", i, 1>>, <<"write", j, 2>>}
    [] OTHER -> TRUE
\* What a refusal of its first half, or of its second, may have left behind.
RefusedFirst(c) ==
  \/ effects[c] = {}
  \/ Verb(c) = "run" /\ \E i \in Agents : effects[c] = {<<"fork", i>>}
  \/ Verb(c) = "send" /\ \E i \in Agents : effects[c] = {<<"part", i, 1>>}
RefusedSecond(c) ==
  \/ FirstDone(c)
  \/ Verb(c) = "send" /\ \E i, j \in Agents : effects[c] = {<<"write", i, 1>>, <<"part", j, 2>>}
EffectsOK(c) ==
  /\ part[c] = 1 /\ pc[c] \in {"idle", "start", "connect", "wait", "ask"} => effects[c] = {}
  /\ pc[c] = "told" /\ reply[c] = "denied" =>
       (part[c] = 1 => RefusedFirst(c)) /\ (part[c] = 2 => RefusedSecond(c))
  /\ part[c] = 1 /\ (pc[c] \in {"launch", "streaming", "gone?"} \/ (pc[c] = "told" /\ reply[c] = "ok")) => FirstDone(c)
  /\ part[c] = 2 /\ pc[c] \in {"start", "connect", "wait", "ask"} => FirstDone(c)
  /\ part[c] = 2 /\ (pc[c] = "streaming" \/ (pc[c] = "told" /\ reply[c] = "ok")) => BothDone(c)
  /\ pc[c] = "told" => reply[c] \in {"ok", "denied"}

\* On whom: an agent that was made, and for all but `clean` of its name.
AimedOK(c) ==
  \A e \in effects[c] : e[1] # "shutdown" =>
    /\ e[2] \in 1..made
    /\ \/ nameOf[e[2]] = Name(c)
       \/ e[1] = "remove" /\ Verb(c) = "clean" /\ e[2] \in exited

\* The [spawn] command.
ArgvOK(c) ==
  /\ AsConfigured(c)
  /\ Verb(c) = "run" /\ How(c) = "spawn" /\ pc[c] \notin {"idle", "start"} => argv[c] # <<>>

Inv ==
  /\ ServerOK /\ RegistryOK /\ ProcessOK /\ CountsOK
  /\ \A c \in Clients : PlaceOK(c) /\ RestartOK(c) /\ EffectsOK(c) /\ AimedOK(c) /\ ArgvOK(c)

-----------------------------------------------------------------------------
(* What a step leaves alone. *)

\* The daemon found by a restart does not come back.
ServerGrows ==
  /\ boot' \in Nat /\ boot' >= boot
  /\ daemon' = "up" /\ build' = "own" => boot' > boot \/ (daemon = "up" /\ build = "own")
\* Agents are not forgotten.
RegistryGrows ==
  /\ made' \in Nat /\ made' >= made
  /\ exited \subseteq exited'
  /\ \A i \in 1..made : nameOf'[i] = nameOf[i]
Rests(d) ==
  /\ pc'[d] = pc[d] /\ part'[d] = part[d] /\ command'[d] = command[d]
  /\ conn'[d] = conn[d] /\ met'[d] = met[d] /\ reply'[d] = reply[d]
  /\ template'[d] = template[d] /\ argv'[d] = argv[d] /\ effects'[d] = effects[d]

ClientOK(c) == PlaceOK(c) /\ RestartOK(c) /\ EffectsOK(c) /\ AimedOK(c) /\ ArgvOK(c)

\* A client that rests keeps its part of the invariant while the daemons only move
\* on and agents are not forgotten.
LEMMA RestsKept ==
  ASSUME Inv, ServerGrows, RegistryGrows, NEW d \in Clients, Rests(d)
  PROVE  ClientOK(d)'
<1>1. PlaceOK(d) /\ RestartOK(d) /\ EffectsOK(d) /\ AimedOK(d) /\ ArgvOK(d)
  BY DEF Inv
<1>2. PlaceOK(d)'
  BY <1>1 DEF PlaceOK, Rests, Verb, How, Request, Templated
<1>3. RestartOK(d)'
  <2>1. boot \in Nat /\ met[d] \in 0..boot
    BY DEF Inv, ServerOK, ProcessOK
  <2> QED BY <1>1, <2>1 DEF RestartOK, Rests, Verb, ServerGrows
<1>4. EffectsOK(d)'
  BY <1>1 DEF EffectsOK, Rests, Verb, FirstDone, BothDone, RefusedFirst, RefusedSecond
<1>5. AimedOK(d)'
  <2>1. made \in Nat
    BY DEF Inv, RegistryOK
  <2>2. SUFFICES ASSUME NEW e \in effects[d], e[1] # "shutdown"
                 PROVE  /\ e[2] \in 1..made'
                        /\ \/ nameOf'[e[2]] = Name(d)
                           \/ e[1] = "remove" /\ Verb(d) = "clean" /\ e[2] \in exited'
    BY DEF AimedOK, Rests, Verb, Name
  <2>3. /\ e[2] \in 1..made
        /\ \/ nameOf[e[2]] = Name(d)
           \/ e[1] = "remove" /\ Verb(d) = "clean" /\ e[2] \in exited
    BY <1>1, <2>2 DEF AimedOK
  <2> QED BY <2>1, <2>3 DEF RegistryGrows
<1>6. ArgvOK(d)'
  BY <1>1 DEF ArgvOK, AsConfigured, Rests, Verb, How, Name
<1> QED BY <1>2, <1>3, <1>4, <1>5, <1>6 DEF ClientOK

\* A part of a finite set counts no more than the whole.
LEMMA SubsetCounts ==
  ASSUME NEW S, IsFiniteSet(S), NEW T \in SUBSET S
  PROVE  /\ IsFiniteSet(T) /\ Cardinality(S) \in Nat /\ Cardinality(T) \in Nat
         /\ Cardinality(T) <= Cardinality(S)
         /\ \A x \in S : x \notin T => Cardinality(T) + 1 <= Cardinality(S)
<1>1. IsFiniteSet(T) /\ Cardinality(S) \in Nat /\ Cardinality(T) \in Nat /\ Cardinality(T) <= Cardinality(S)
  BY FS_Subset, FS_CardinalityType
<1>2. ASSUME NEW x \in S, x \notin T PROVE Cardinality(T) + 1 <= Cardinality(S)
  BY <1>1, <1>2, FS_Subset
<1> QED BY <1>1, <1>2

\* The counts of those who may still do something.
LEMMA CountTypes ==
  ASSUME CountsOK
  PROVE  /\ IsFiniteSet(Second) /\ IsFiniteSet(First) /\ IsFiniteSet(Claiming)
         /\ Cardinality(Second) \in Nat /\ Cardinality(First) \in Nat /\ Cardinality(Claiming) \in Nat
<1>1. First \subseteq Second /\ Claiming \subseteq Second
  BY DEF First, Second, Claiming
<1> QED BY <1>1, SubsetCounts DEF CountsOK

\* A step of one client that brings it no nearer to the beginning.
LEMMA CountsFall ==
  ASSUME CountsOK, NEW c \in Clients,
         \A d \in Clients : d # c => pc'[d] = pc[d] /\ part'[d] = part[d],
         c \in Claiming' => c \in Claiming,
         c \in First' => c \in First,
         c \in Second' => c \in Second
  PROVE  /\ IsFiniteSet(Second')
         /\ Cardinality(Second') \in Nat /\ Cardinality(First') \in Nat /\ Cardinality(Claiming') \in Nat
         /\ Cardinality(Second') <= Cardinality(Second)
         /\ Cardinality(First') <= Cardinality(First)
         /\ Cardinality(Claiming') <= Cardinality(Claiming)
         /\ c \in First /\ c \notin First' => Cardinality(First') + 1 <= Cardinality(First)
         /\ c \in Second /\ c \notin Second' => Cardinality(Second') + 1 <= Cardinality(Second)
         /\ c \in Claiming /\ c \notin Claiming' => Cardinality(Claiming') + 1 <= Cardinality(Claiming)
<1>1. Claiming' \subseteq Claiming
  BY DEF Claiming
<1>2. First' \subseteq First
  BY DEF First
<1>3. Second' \subseteq Second
  BY DEF Second
<1> QED BY <1>1, <1>2, <1>3, CountTypes, SubsetCounts

\* ... and makes and launches nothing.
LEMMA CountsKept ==
  ASSUME CountsOK, NEW c \in Clients,
         \A d \in Clients : d # c => pc'[d] = pc[d] /\ part'[d] = part[d],
         c \in Claiming' => c \in Claiming,
         c \in First' => c \in First,
         c \in Second' => c \in Second,
         UNCHANGED <<made, boot, starter, ran>>, made \in Nat, boot \in Nat
  PROVE  CountsOK'
<1> DEFINE n1 == Cardinality(Claiming)
           n2 == Cardinality(First)
           n3 == Cardinality(Second)
           m1 == Cardinality(Claiming')
           m2 == Cardinality(First')
           m3 == Cardinality(Second')
<1>1. /\ n1 \in Nat /\ n2 \in Nat /\ n3 \in Nat /\ m1 \in Nat /\ m2 \in Nat /\ m3 \in Nat
      /\ m1 <= n1 /\ m2 <= n2 /\ m3 <= n3 /\ IsFiniteSet(Second')
  BY CountsFall, CountTypes
<1>2. /\ ran \in Nat /\ ran <= MaxCommands /\ made + n1 <= ran
      /\ boot + Bit(starter) + n2 + n3 <= 1 + 2 * ran
  BY DEF CountsOK
<1>3. Bit(starter)' = Bit(starter) /\ Bit(starter) \in Nat
  BY DEF Bit
<1> HIDE DEF n1, n2, n3, m1, m2, m3
<1>4. made' + m1 <= ran' /\ boot' + Bit(starter)' + m2 + m3 <= 1 + 2 * ran'
  BY <1>1, <1>2, <1>3
<1>5. ran' \in Nat /\ ran' <= MaxCommands
  BY <1>2
<1> QED BY <1>1, <1>4, <1>5 DEF CountsOK, m1, m2, m3

\* Entries are removed, processes exit, attachments come and go.
LEMMA RegistryKept ==
  ASSUME RegistryOK, UNCHANGED <<nameOf, kind, made>>,
         byName' \in [Names -> 0..made], \A n \in Names : byName'[n] = 0 \/ byName'[n] = byName[n],
         exited \subseteq exited', exited' \subseteq 1..made, attached' \subseteq 1..made
  PROVE  RegistryOK' /\ RegistryGrows
<1>1. RegistryGrows
  BY DEF RegistryOK, RegistryGrows
<1>2. byName'[Self] = 0
  BY CommandsAssumption DEF RegistryOK
<1>3. \A n \in Names : byName'[n] # 0 => nameOf'[byName'[n]] = n
  BY DEF RegistryOK
<1>4. RegistryOK'
  BY <1>2, <1>3 DEF RegistryOK
<1> QED BY <1>1, <1>4

\* ... and when the registry is left alone.
LEMMA RegistryStays ==
  ASSUME RegistryOK, UNCHANGED registry
  PROVE  RegistryOK' /\ RegistryGrows
BY RegistryKept DEF RegistryOK, registry

\* One client steps, the others rest: what there is to show of a step.
LEMMA ActorStep ==
  ASSUME Inv, NEW c \in Clients, ServerGrows, RegistryGrows,
         \A d \in Clients : d # c => Rests(d),
         ServerOK', RegistryOK', ProcessOK', CountsOK', ClientOK(c)'
  PROVE  Inv'
<1>1. ASSUME NEW d \in Clients PROVE ClientOK(d)'
  BY RestsKept
<1> QED BY <1>1 DEF Inv, ClientOK

\* A step of one client that does not touch the daemon, and the registry at most
\* as it does in passing.
LEMMA FinishStep ==
  ASSUME Inv, NEW c \in Clients, NEW how \in Outcomes, Finish(c, how),
         UNCHANGED server, made' = made, RegistryGrows, RegistryOK'
  PROVE  Inv'
<1>1. /\ pc' = [pc EXCEPT ![c] = "idle"]
      /\ command' = [command EXCEPT ![c] = NoCommand]
      /\ part' = [part EXCEPT ![c] = 1]
      /\ conn' = [conn EXCEPT ![c] = 0] /\ met' = [met EXCEPT ![c] = 0]
      /\ reply' = [reply EXCEPT ![c] = "none"]
      /\ template' = [template EXCEPT ![c] = NoTemplate]
      /\ argv' = [argv EXCEPT ![c] = <<>>]
      /\ effects' = [effects EXCEPT ![c] = {}]
      /\ ran' = ran /\ boot' = boot /\ starter' = starter /\ daemon' = daemon /\ build' = build
  BY DEF Finish, Goto, server
<1>2. \E h \in Outcomes : outcome' = [outcome EXCEPT ![c] = h]
  BY DEF Finish, Outcomes
<1>3. ServerOK /\ ProcessOK /\ CountsOK
  BY DEF Inv
<1>4. \A d \in Clients : d # c => Rests(d)
  BY <1>1, <1>3 DEF Rests, ProcessOK
<1>5. /\ pc'[c] = "idle" /\ part'[c] = 1 /\ command'[c] = NoCommand
      /\ argv'[c] = <<>> /\ effects'[c] = {} /\ conn'[c] = 0 /\ met'[c] = 0
  BY <1>1, <1>3 DEF ProcessOK
<1>6. ServerOK' /\ ServerGrows
  BY <1>1, <1>3 DEF ServerOK, ServerGrows
<1>7. ProcessOK'
  BY <1>1, <1>2, <1>3, EmptySeq DEF ProcessOK, ServerOK, Templates
<1>8. CountsOK'
  <2>1. c \notin Claiming' /\ c \notin First' /\ c \notin Second'
    BY <1>5 DEF Claiming, First, Second
  <2>2. \A d \in Clients : d # c => pc'[d] = pc[d] /\ part'[d] = part[d]
    BY <1>4 DEF Rests
  <2>3. boot \in Nat /\ made \in Nat
    BY DEF Inv, ServerOK, RegistryOK
  <2> QED BY <1>1, <1>3, <2>1, <2>2, <2>3, CountsKept
<1>9. ClientOK(c)'
  <2>1. PlaceOK(c)'
    BY <1>5 DEF PlaceOK
  <2>2. RestartOK(c)'
    BY <1>5 DEF RestartOK
  <2>3. EffectsOK(c)'
    BY <1>5 DEF EffectsOK
  <2>4. AimedOK(c)'
    BY <1>5 DEF AimedOK
  <2>5. ArgvOK(c)'
    BY <1>5 DEF ArgvOK, AsConfigured
  <2> QED BY <2>1, <2>2, <2>3, <2>4, <2>5 DEF ClientOK
<1> QED BY <1>4, <1>6, <1>7, <1>8, <1>9, ActorStep

\* The answer was good, and leads on within the command.
LEMMA MoveStep ==
  ASSUME Inv, NEW c \in Clients, NEW s \in {"launch", "streaming", "gone?"}, Move(c, s),
         pc[c] = "told", reply[c] = "ok", UNCHANGED <<server, registry>>,
         s = "launch" => Templated(c),
         s = "streaming" => Request(c) = "attach",
         s = "gone?" => Verb(c) \in {"stop", "restart"}
  PROVE  Inv'
<1>1. /\ pc' = [pc EXCEPT ![c] = s]
      /\ UNCHANGED <<command, part, conn, reply, template, argv, effects, met, outcome, ran>>
      /\ UNCHANGED <<daemon, build, boot, starter, byName, nameOf, kind, exited, attached, made>>
  BY DEF Move, Goto, asking, server, registry
<1>2. ServerOK /\ RegistryOK /\ ProcessOK /\ CountsOK /\ ClientOK(c)
  BY DEF Inv, ClientOK
<1>3. \A d \in Clients : d # c => Rests(d)
  BY <1>1, <1>2 DEF Rests, ProcessOK
<1>4. pc'[c] = s
  BY <1>1, <1>2 DEF ProcessOK
<1>5. ServerOK' /\ ServerGrows
  BY <1>1, <1>2 DEF ServerOK, ServerGrows
<1>6. RegistryOK' /\ RegistryGrows
  BY <1>1, <1>2 DEF RegistryOK, RegistryGrows
<1>7. ProcessOK'
  BY <1>1, <1>2 DEF ProcessOK
<1>8. CountsOK'
  <2>2. \A d \in Clients : d # c => pc'[d] = pc[d] /\ part'[d] = part[d]
    BY <1>3 DEF Rests
  <2>3. boot \in Nat /\ made \in Nat
    BY <1>2 DEF ServerOK, RegistryOK
  <2>1. c \notin Claiming' /\ c \notin First' /\ (c \in Second' => c \in Second)
    BY <1>1, <1>4 DEF Claiming, First, Second
  <2> QED BY <1>1, <1>2, <2>1, <2>2, <2>3, CountsKept
<1>9. ClientOK(c)'
  <2>1. part[c] \in 1..2 /\ (part[c] = 2 => Verb(c) # "restart")
    BY <1>2 DEF ProcessOK, ClientOK, PlaceOK
  <2>2. PlaceOK(c)'
    <3>1. Verb(c) \in {"stop", "restart"} => part[c] = 1
      BY <1>2, <2>1 DEF ClientOK, PlaceOK
    <3> QED BY <1>1, <1>2, <1>4, <2>1, <3>1 DEF ClientOK, PlaceOK, Templated, Request, Verb, How
  <2>3. RestartOK(c)'
    BY <1>1, <2>1 DEF RestartOK, Verb
  <2>4. EffectsOK(c)'
    <3>1. s \in {"launch", "gone?"} => part[c] = 1
      BY <1>2, <2>1 DEF ClientOK, PlaceOK, Templated, Request, Verb
    <3>2. (part[c] = 1 => FirstDone(c)) /\ (part[c] = 2 => BothDone(c))
      BY <1>2 DEF ClientOK, EffectsOK
    <3>3. FirstDone(c)' <=> FirstDone(c)
      BY <1>1 DEF FirstDone, Verb
    <3>4. BothDone(c)' <=> BothDone(c)
      BY <1>1 DEF BothDone, Verb
    <3> QED BY <1>1, <1>4, <2>1, <3>1, <3>2, <3>3, <3>4 DEF EffectsOK
  <2>5. AimedOK(c)'
    BY <1>1, <1>2 DEF ClientOK, AimedOK, Verb, Name
  <2>6. ArgvOK(c)'
    BY <1>1, <1>2, <1>4 DEF ClientOK, ArgvOK, AsConfigured, Verb, Name, How
  <2> QED BY <2>2, <2>3, <2>4, <2>5, <2>6 DEF ClientOK
<1> QED BY <1>3, <1>5, <1>6, <1>7, <1>8, <1>9, ActorStep

\* The second half of a command begins.
LEMMA SecondPartStep ==
  ASSUME Inv, NEW c \in Clients, NEW s \in {"start", "connect"}, SecondPart(c, s),
         pc[c] # "idle", part[c] = 1, FirstDone(c), UNCHANGED <<server, registry>>,
         \/ Verb(c) = "run" /\ How(c) = "attach"
         \/ Verb(c) = "send" /\ How(c) = "two"
         \/ Verb(c) = "restart" /\ s = "connect" /\ ~(daemon = "up" /\ build = "own")
  PROVE  Inv'
<1>1. /\ pc' = [pc EXCEPT ![c] = s] /\ part' = [part EXCEPT ![c] = 2]
      /\ UNCHANGED <<command, conn, reply, template, argv, effects, met, outcome, ran>>
      /\ UNCHANGED <<daemon, build, boot, starter, byName, nameOf, kind, exited, attached, made>>
  BY DEF SecondPart, Goto, server, registry
<1>2. ServerOK /\ RegistryOK /\ ProcessOK /\ CountsOK /\ ClientOK(c)
  BY DEF Inv, ClientOK
<1>3. \A d \in Clients : d # c => Rests(d)
  BY <1>1, <1>2 DEF Rests, ProcessOK
<1>4. pc'[c] = s /\ part'[c] = 2
  BY <1>1, <1>2 DEF ProcessOK
<1>5. ServerOK' /\ ServerGrows
  BY <1>1, <1>2 DEF ServerOK, ServerGrows
<1>6. RegistryOK' /\ RegistryGrows
  BY <1>1, <1>2 DEF RegistryOK, RegistryGrows
<1>7. ProcessOK'
  BY <1>1, <1>2 DEF ProcessOK
<1>8. CountsOK'
  <2>1. \A d \in Clients : d # c => pc'[d] = pc[d] /\ part'[d] = part[d]
    BY <1>3 DEF Rests
  <2>2. boot \in Nat /\ made \in Nat
    BY <1>2 DEF ServerOK, RegistryOK
  <2>3. c \notin Claiming' /\ c \notin First' /\ c \in Second
    BY <1>1, <1>4 DEF Claiming, First, Second
  <2> QED BY <1>1, <1>2, <2>1, <2>2, <2>3, CountsKept
<1>9. ClientOK(c)'
  <2>1. PlaceOK(c)'
    BY <1>1, <1>2, <1>4 DEF ClientOK, PlaceOK, Verb, How
  <2>2. RestartOK(c)'
    BY <1>1, <1>4 DEF RestartOK, Verb
  <2>3. EffectsOK(c)'
    BY <1>1, <1>4 DEF EffectsOK, FirstDone, Verb
  <2>4. AimedOK(c)'
    BY <1>1, <1>2 DEF ClientOK, AimedOK, Verb, Name
  <2>5. ArgvOK(c)'
    BY <1>1, <1>2, <1>4 DEF ClientOK, ArgvOK, AsConfigured, Verb, Name, How
  <2> QED BY <2>1, <2>2, <2>3, <2>4, <2>5 DEF ClientOK
<1> QED BY <1>3, <1>5, <1>6, <1>7, <1>8, <1>9, ActorStep

\* A request is answered.
LEMMA AnswerStep ==
  ASSUME Inv, NEW c \in Clients, NEW what \in {"ok", "denied"}, NEW done \in SUBSET Effects,
         pc[c] = "ask", Answer(c, what, done), part[c] = 2 => Verb(c) # "restart",
         ServerOK', ServerGrows, RegistryOK', RegistryGrows, UNCHANGED <<boot, starter>>,
         made' = made \/ (made' = made + 1 /\ part[c] = 1),
         what = "denied" => (part[c] = 1 => RefusedFirst(c)') /\ (part[c] = 2 => RefusedSecond(c)'),
         what = "ok" => (part[c] = 1 => FirstDone(c)') /\ (part[c] = 2 => BothDone(c)'),
         \A e \in done : e[1] # "shutdown" =>
           /\ e[2] \in 1..made'
           /\ \/ nameOf'[e[2]] = Name(c)
              \/ e[1] = "remove" /\ Verb(c) = "clean" /\ e[2] \in exited'
  PROVE  Inv'
<1>1. /\ pc' = [pc EXCEPT ![c] = "told"] /\ reply' = [reply EXCEPT ![c] = what]
      /\ effects' = [effects EXCEPT ![c] = @ \cup done]
      /\ UNCHANGED <<command, part, conn, template, argv, met, outcome, ran>>
  BY DEF Answer, Goto
<1>2. ServerOK /\ RegistryOK /\ ProcessOK /\ CountsOK /\ ClientOK(c)
  BY DEF Inv, ClientOK
<1>3. \A d \in Clients : d # c => Rests(d)
  BY <1>1, <1>2 DEF Rests, ProcessOK
<1>4. pc'[c] = "told" /\ reply'[c] = what /\ effects'[c] = effects[c] \cup done
  BY <1>1, <1>2 DEF ProcessOK
<1>5. ProcessOK'
  BY <1>1, <1>2 DEF ProcessOK
<1>6. CountsOK'
  <2>1. \A d \in Clients : d # c => pc'[d] = pc[d] /\ part'[d] = part[d]
    BY <1>3 DEF Rests
  <2>2. boot \in Nat /\ made \in Nat
    BY <1>2 DEF ServerOK, RegistryOK
  <2>3. c \notin Claiming' /\ c \notin First' /\ (c \in Second' => c \in Second)
        /\ (part[c] = 1 => c \in Claiming)
    BY <1>1, <1>4 DEF Claiming, First, Second
  <2>4. CASE made' = made
    BY <1>1, <1>2, <2>1, <2>2, <2>3, <2>4, CountsKept
  <2>5. CASE made' = made + 1 /\ part[c] = 1
    <3> DEFINE n1 == Cardinality(Claiming)
               n2 == Cardinality(First)
               n3 == Cardinality(Second)
               m1 == Cardinality(Claiming')
               m2 == Cardinality(First')
               m3 == Cardinality(Second')
    <3>1. /\ n1 \in Nat /\ n2 \in Nat /\ n3 \in Nat /\ m1 \in Nat /\ m2 \in Nat /\ m3 \in Nat
          /\ m1 + 1 <= n1 /\ m2 <= n2 /\ m3 <= n3 /\ IsFiniteSet(Second')
      BY <1>2, <2>1, <2>3, <2>5, CountsFall, CountTypes
    <3>2. /\ ran \in Nat /\ ran <= MaxCommands /\ made + n1 <= ran
          /\ boot + Bit(starter) + n2 + n3 <= 1 + 2 * ran
      BY <1>2 DEF CountsOK
    <3>3. Bit(starter)' = Bit(starter) /\ Bit(starter) \in Nat
      BY DEF Bit
    <3> HIDE DEF n1, n2, n3, m1, m2, m3
    <3>4. made' + m1 <= ran' /\ boot' + Bit(starter)' + m2 + m3 <= 1 + 2 * ran'
      BY <1>1, <2>2, <2>5, <3>1, <3>2, <3>3
    <3>5. ran' \in Nat /\ ran' <= MaxCommands
      BY <1>1, <3>2
    <3> QED BY <3>1, <3>4, <3>5 DEF CountsOK, m1, m2, m3
  <2> QED BY <2>4, <2>5
<1>7. ClientOK(c)'
  <2>1. PlaceOK(c)'
    BY <1>1, <1>2, <1>4 DEF ClientOK, PlaceOK, Verb, How
  <2>2. RestartOK(c)'
    BY <1>1 DEF RestartOK, Verb
  <2>3. EffectsOK(c)'
    <3>1. part[c] \in 1..2
      BY <1>2 DEF ProcessOK
    <3> QED BY <1>1, <1>4, <3>1 DEF EffectsOK
  <2>4. AimedOK(c)'
    <3>1. made \in Nat
      BY <1>2 DEF RegistryOK
    <3>2. SUFFICES ASSUME NEW e \in effects[c] \cup done, e[1] # "shutdown"
                   PROVE  /\ e[2] \in 1..made'
                          /\ \/ nameOf'[e[2]] = Name(c)
                             \/ e[1] = "remove" /\ Verb(c) = "clean" /\ e[2] \in exited'
      BY <1>1, <1>4 DEF AimedOK, Verb, Name
    <3>3. CASE e \in done
      BY <3>2, <3>3
    <3>4. CASE e \in effects[c]
      <4>1. /\ e[2] \in 1..made
            /\ \/ nameOf[e[2]] = Name(c)
               \/ e[1] = "remove" /\ Verb(c) = "clean" /\ e[2] \in exited
        BY <1>2, <3>2, <3>4 DEF ClientOK, AimedOK
      <4> QED BY <3>1, <4>1 DEF RegistryGrows
    <3> QED BY <3>2, <3>3, <3>4
  <2>5. ArgvOK(c)'
    BY <1>1, <1>2, <1>4 DEF ClientOK, ArgvOK, AsConfigured, Verb, Name, How
  <2> QED BY <2>1, <2>2, <2>3, <2>4, <2>5 DEF ClientOK
<1> QED BY <1>3, <1>5, <1>6, <1>7, ActorStep

-----------------------------------------------------------------------------
(* The process, up to its connection. *)

\* A command starts; a restart notes the daemon it finds (main.rs, daemon.rs).
LEMMA StartStep ==
  ASSUME Inv, NEW c \in Clients, NEW cmd \in Commands, Start(c, cmd)
  PROVE  Inv'
<1>1. /\ pc[c] = "idle" /\ ran < MaxCommands
      /\ pc' = [pc EXCEPT ![c] = "start"]
      /\ command' = [command EXCEPT ![c] = cmd]
      /\ outcome' = [outcome EXCEPT ![c] = "none"]
      /\ met' = [met EXCEPT ![c] = IF cmd.verb = "restart" /\ daemon # "none" THEN boot ELSE 0]
      /\ ran' = ran + 1
      /\ UNCHANGED <<part, conn, reply, template, argv, effects>>
      /\ UNCHANGED <<daemon, build, boot, starter, byName, nameOf, kind, exited, attached, made>>
  BY DEF Start, Goto, server, registry
<1>2. ServerOK /\ RegistryOK /\ ProcessOK /\ CountsOK /\ ClientOK(c)
  BY DEF Inv, ClientOK
<1>3. \A d \in Clients : d # c => Rests(d)
  BY <1>1, <1>2 DEF Rests, ProcessOK
<1>4. pc'[c] = "start" /\ command'[c] = cmd
  BY <1>1, <1>2 DEF ProcessOK
<1>5. part[c] = 1 /\ effects[c] = {} /\ argv[c] = <<>>
  BY <1>1, <1>2 DEF ClientOK, PlaceOK
<1>6. ServerOK' /\ ServerGrows
  BY <1>1, <1>2 DEF ServerOK, ServerGrows
<1>7. RegistryOK' /\ RegistryGrows
  BY <1>1, <1>2 DEF RegistryOK, RegistryGrows
<1>8. ProcessOK'
  BY <1>1, <1>2 DEF ProcessOK, ServerOK, Outcomes
<1>9. CountsOK'
  <2>1. \A d \in Clients : d # c => pc'[d] = pc[d] /\ part'[d] = part[d]
    BY <1>3 DEF Rests
  <2>2. c \notin Claiming /\ c \notin First /\ c \notin Second
    BY <1>1, <1>5 DEF Claiming, First, Second
  <2>3. Claiming' = Claiming \cup {c}
    BY <1>1, <1>4, <1>5, <2>1 DEF Claiming
  <2>4. First' = First \cup {c}
    BY <1>1, <1>4, <1>5, <2>1 DEF First
  <2>5. Second' = Second \cup {c}
    BY <1>1, <1>4, <1>5, <2>1 DEF Second
  <2>6. /\ IsFiniteSet(Second')
        /\ Cardinality(Claiming') = Cardinality(Claiming) + 1
        /\ Cardinality(First') = Cardinality(First) + 1
        /\ Cardinality(Second') = Cardinality(Second) + 1
    BY <1>2, <2>2, <2>3, <2>4, <2>5, CountTypes, FS_AddElement
  <2>7. /\ Cardinality(Claiming) \in Nat /\ Cardinality(First) \in Nat /\ Cardinality(Second) \in Nat
        /\ made \in Nat /\ boot \in Nat /\ Bit(starter) \in Nat /\ Bit(starter)' = Bit(starter)
    BY <1>1, <1>2, CountTypes DEF ServerOK, RegistryOK, Bit
  <2>8. /\ ran \in Nat /\ made + Cardinality(Claiming) <= ran
        /\ boot + Bit(starter) + Cardinality(First) + Cardinality(Second) <= 1 + 2 * ran
    BY <1>2 DEF CountsOK
  <2>9. ran' <= MaxCommands
    BY <1>1, <2>8, CommandsAssumption
  <2> HIDE DEF Bit
  <2>10. made' + Cardinality(Claiming') <= ran'
    BY <1>1, <2>6, <2>7, <2>8
  <2>11. boot' + Bit(starter)' + Cardinality(First') + Cardinality(Second') <= 1 + 2 * ran'
    BY <1>1, <2>6, <2>7, <2>8
  <2> QED BY <1>1, <2>6, <2>8, <2>9, <2>10, <2>11 DEF CountsOK
<1>10. ClientOK(c)'
  <2>1. PlaceOK(c)'
    BY <1>1, <1>4, <1>5 DEF PlaceOK
  <2>2. RestartOK(c)'
    BY <1>1, <1>4, <1>5 DEF RestartOK
  <2>3. EffectsOK(c)'
    BY <1>1, <1>4, <1>5 DEF EffectsOK
  <2>4. AimedOK(c)'
    BY <1>1, <1>5 DEF AimedOK
  <2>5. ArgvOK(c)'
    BY <1>1, <1>4, <1>5 DEF ArgvOK, AsConfigured
  <2> QED BY <2>1, <2>2, <2>3, <2>4, <2>5 DEF ClientOK
<1> QED BY <1>3, <1>6, <1>7, <1>8, <1>9, <1>10, ActorStep

\* What Load and Connect leave alone.
LEMMA QuietStep ==
  ASSUME Inv, NEW c \in Clients, NEW s \in {"connect", "ask", "wait"},
         pc[c] \in {"start", "connect", "wait"}, pc' = [pc EXCEPT ![c] = s],
         s = "connect" => pc[c] = "start",
         \A d \in Clients : d # c => Rests(d),
         UNCHANGED <<command, part, reply, effects, met, outcome, ran>>,
         UNCHANGED <<daemon, build, boot, byName, nameOf, kind, exited, attached, made>>
  PROVE  /\ ServerOK /\ RegistryOK /\ ProcessOK /\ CountsOK /\ ClientOK(c)
         /\ pc'[c] = s /\ ServerGrows /\ RegistryOK' /\ RegistryGrows
         /\ starter' = starter => CountsOK'
         /\ PlaceOK(c)' /\ EffectsOK(c)' /\ AimedOK(c)'
<1>1. ServerOK /\ RegistryOK /\ ProcessOK /\ CountsOK /\ ClientOK(c)
  BY DEF Inv, ClientOK
<1>2. pc'[c] = s
  BY <1>1 DEF ProcessOK
<1>3. ServerGrows /\ RegistryOK' /\ RegistryGrows
  BY <1>1 DEF ServerOK, ServerGrows, RegistryOK, RegistryGrows
<1>4. ASSUME starter' = starter PROVE CountsOK'
  <2>1. \A d \in Clients : d # c => pc'[d] = pc[d] /\ part'[d] = part[d]
    BY DEF Rests
  <2>2. (c \in Claiming' => c \in Claiming) /\ (c \in First' => c \in First) /\ (c \in Second' => c \in Second)
    BY <1>2 DEF Claiming, First, Second
  <2>3. boot \in Nat /\ made \in Nat
    BY <1>1 DEF ServerOK, RegistryOK
  <2> QED BY <1>1, <1>4, <2>1, <2>2, <2>3, CountsKept
<1>5. PlaceOK(c)'
  BY <1>1, <1>2 DEF ClientOK, PlaceOK, Verb, How
<1>6. EffectsOK(c)'
  <2>1. FirstDone(c)' <=> FirstDone(c)
    BY DEF FirstDone, Verb
  <2> QED BY <1>1, <1>2, <2>1 DEF ClientOK, EffectsOK
<1>7. AimedOK(c)'
  BY <1>1 DEF ClientOK, AimedOK, Verb, Name
<1> QED BY <1>1, <1>2, <1>3, <1>4, <1>5, <1>6, <1>7

\* The name is checked, the file is read, the template resolved (run.rs, attach.rs).
LEMMA LoadStep ==
  ASSUME Inv, NEW c \in Clients, NEW file \in Configs, Load(c, file)
  PROVE  Inv'
<1>1. pc[c] = "start" /\ UNCHANGED <<server, registry>>
  BY DEF Load
<1>2. CASE \E how \in Outcomes : Finish(c, how)
  <2>1. RegistryOK' /\ RegistryGrows /\ made' = made
    BY <1>1 DEF Inv, RegistryOK, RegistryGrows, registry
  <2> QED BY <1>1, <1>2, <2>1, FinishStep
<1>3. CASE /\ Provides(c, file) /\ pc' = [pc EXCEPT ![c] = "connect"]
           /\ template' = [template EXCEPT ![c] = IF Templated(c) THEN file.template ELSE @]
           /\ argv' = [argv EXCEPT ![c] =
                IF Templated(c) THEN ResolveSpawnArgv(file.template, Name(c)).argv ELSE @]
           /\ UNCHANGED <<command, part, conn, reply, effects, met, outcome, ran>>
  <2>1. UNCHANGED <<daemon, build, boot, starter, byName, nameOf, kind, exited, attached, made>>
    BY <1>1 DEF server, registry
  <2>2. ServerOK /\ ProcessOK /\ ClientOK(c)
    BY DEF Inv, ClientOK
  <2>3. \A d \in Clients : d # c => Rests(d)
    BY <1>3, <2>2 DEF Rests, ProcessOK
  <2>4. /\ pc'[c] = "connect" /\ ServerGrows /\ RegistryOK' /\ RegistryGrows
        /\ CountsOK' /\ PlaceOK(c)' /\ EffectsOK(c)' /\ AimedOK(c)'
    BY <1>1, <1>3, <2>1, <2>3, QuietStep
  <2>5. ServerOK'
    BY <2>1, <2>2 DEF ServerOK
  <2>6. Name(c) \in STRING
    BY <1>1, <2>2, CommandsAssumption DEF ClientOK, PlaceOK, Name
  <2>7. ASSUME Templated(c)
        PROVE  /\ file.template \in Seq(Seq(STRING)) /\ argv'[c] \in Seq(Seq(STRING)) /\ argv'[c] # <<>>
               /\ Len(argv'[c]) = Len(file.template) /\ template'[c] = file.template
               /\ \A k \in DOMAIN argv'[c] : Substituted(argv'[c][k], file.template[k], Name(c))
    <3>1. /\ file.template # NoTemplate /\ ResolveSpawnArgv(file.template, Name(c)).ok
          /\ template'[c] = file.template
          /\ argv'[c] = ResolveSpawnArgv(file.template, Name(c)).argv
      <4>1. file.template # NoTemplate /\ ResolveSpawnArgv(file.template, Name(c)).ok
        BY <1>3, <2>7 DEF Provides, Templated
      <4>2. template'[c] = file.template
        BY <1>3, <2>2, <2>7 DEF ProcessOK
      <4>3. argv'[c] = ResolveSpawnArgv(file.template, Name(c)).argv
        BY <1>3, <2>2, <2>7 DEF ProcessOK
      <4> QED BY <4>1, <4>2, <4>3
    <3>2. file.template \in Seq(Seq(STRING))
      BY <3>1, CommandsAssumption
    <3> QED BY <2>6, <3>1, <3>2, ResolvedArgv
  <2>8. ~Templated(c) => argv' = argv /\ template' = template
    BY <1>3, <2>2 DEF ProcessOK
  <2>9. ProcessOK'
    <3>1. argv' \in [Clients -> Seq(Seq(STRING))] /\ template' \in [Clients -> Templates]
      BY <1>3, <2>2, <2>7 DEF ProcessOK, Templates
    <3> QED BY <1>3, <2>1, <2>2, <3>1 DEF ProcessOK
  <2>10. RestartOK(c)'
    BY <1>1, <1>3, <2>2 DEF ClientOK, PlaceOK, RestartOK, Verb
  <2>11. ArgvOK(c)'
    <3>1. CASE Templated(c)
      <4>1. AsConfigured(c)'
        BY <1>3, <2>7, <3>1 DEF AsConfigured, Name
      <4> QED BY <2>7, <3>1, <4>1 DEF ArgvOK
    <3>2. CASE ~Templated(c)
      <4>1. ~(Verb(c) = "run" /\ How(c) = "spawn")
        BY <2>2, <3>2 DEF ClientOK, PlaceOK, Templated, Request
      <4>2. AsConfigured(c)'
        BY <1>3, <2>2, <2>8, <3>2 DEF ClientOK, ArgvOK, AsConfigured, Name
      <4> QED BY <1>3, <4>1, <4>2 DEF ArgvOK, Verb, How
    <3> QED BY <3>1, <3>2
  <2>12. ClientOK(c)'
    BY <2>4, <2>10, <2>11 DEF ClientOK
  <2> QED BY <2>3, <2>4, <2>5, <2>9, <2>12, ActorStep
<1> QED BY <1>1, <1>2, <1>3 DEF Load, Goto, Outcomes

\* A daemon of this build answers; one that answers the second half of a restart
\* is not the one it found.
LEMMA ConnectStep ==
  ASSUME Inv, NEW c \in Clients, Connect(c)
  PROVE  Inv'
<1>1. /\ pc[c] \in {"connect", "wait"} /\ daemon = "up" /\ build = "own"
      /\ pc' = [pc EXCEPT ![c] = "ask"] /\ conn' = [conn EXCEPT ![c] = boot]
      /\ UNCHANGED <<command, part, reply, template, argv, effects, met, outcome, ran>>
      /\ UNCHANGED <<daemon, build, boot, starter, byName, nameOf, kind, exited, attached, made>>
  BY DEF Connect, Goto, server, registry
<1>2. ServerOK /\ ProcessOK /\ ClientOK(c)
  BY DEF Inv, ClientOK
<1>3. \A d \in Clients : d # c => Rests(d)
  BY <1>1, <1>2 DEF Rests, ProcessOK
<1>4. /\ pc'[c] = "ask" /\ ServerGrows /\ RegistryOK' /\ RegistryGrows
      /\ CountsOK' /\ PlaceOK(c)' /\ EffectsOK(c)' /\ AimedOK(c)'
  BY <1>1, <1>3, QuietStep
<1>5. ServerOK'
  BY <1>1, <1>2 DEF ServerOK
<1>6. ProcessOK'
  BY <1>1, <1>2 DEF ProcessOK, ServerOK
<1>7. RestartOK(c)'
  BY <1>1, <1>2, <1>4 DEF ClientOK, RestartOK, Verb, ProcessOK
<1>8. ArgvOK(c)'
  BY <1>1, <1>2 DEF ClientOK, ArgvOK, AsConfigured, Verb, Name, How
<1>9. ClientOK(c)'
  BY <1>4, <1>7, <1>8 DEF ClientOK
<1> QED BY <1>3, <1>4, <1>5, <1>6, <1>9, ActorStep

\* The process ends, and nobody else has done anything.
LEMMA EndStep ==
  ASSUME Inv, NEW c \in Clients, NEW how \in Outcomes, Finish(c, how), UNCHANGED <<server, registry>>
  PROVE  Inv'
<1>1. RegistryOK' /\ RegistryGrows /\ made' = made
  BY DEF Inv, RegistryOK, RegistryGrows, registry
<1> QED BY <1>1, FinishStep

\* A refused or reset connection ends the command, or begins the second half of a
\* restart: no daemon of this build is up, so the one it found is not.
LEMMA HandshakeFailsStep ==
  ASSUME Inv, NEW c \in Clients, NEW how \in Outcomes, HandshakeFails(c, how),
         pc[c] \in {"connect", "wait"}, ~(daemon = "up" /\ build = "own"), UNCHANGED <<server, registry>>
  PROVE  Inv'
<1>1. CASE Verb(c) = "restart" /\ part[c] = 1
  <2>1. SecondPart(c, "connect")
    BY <1>1 DEF HandshakeFails
  <2>2. FirstDone(c)
    BY <1>1 DEF FirstDone
  <2> QED BY <1>1, <2>1, <2>2, SecondPartStep
<1>2. CASE ~(Verb(c) = "restart" /\ part[c] = 1)
  BY <1>2, EndStep DEF HandshakeFails
<1> QED BY <1>1, <1>2

\* A daemon is launched: at most once in the first half of a command, and once in
\* its second.
LEMMA SpawnDaemonStep ==
  ASSUME Inv, NEW c \in Clients, SpawnDaemon(c)
  PROVE  Inv'
<1>1. /\ pc[c] = "connect" /\ daemon # "up" /\ starter' = TRUE
      /\ pc' = [pc EXCEPT ![c] = "wait"]
      /\ UNCHANGED <<command, part, conn, reply, template, argv, effects, met, outcome, ran>>
      /\ UNCHANGED <<daemon, build, boot, byName, nameOf, kind, exited, attached, made>>
  BY DEF SpawnDaemon, Move, Goto, asking, registry
<1>2. ServerOK /\ RegistryOK /\ ProcessOK /\ CountsOK /\ ClientOK(c)
  BY DEF Inv, ClientOK
<1>3. \A d \in Clients : d # c => Rests(d)
  BY <1>1, <1>2 DEF Rests, ProcessOK
<1>4. /\ pc'[c] = "wait" /\ ServerGrows /\ RegistryOK' /\ RegistryGrows
      /\ PlaceOK(c)' /\ EffectsOK(c)' /\ AimedOK(c)'
  BY <1>1, <1>3, QuietStep
<1>5. ServerOK'
  BY <1>1, <1>2 DEF ServerOK
<1>6. ProcessOK'
  BY <1>1, <1>2 DEF ProcessOK, ServerOK
<1>7. CountsOK'
  <2> DEFINE n1 == Cardinality(Claiming)
             n2 == Cardinality(First)
             n3 == Cardinality(Second)
             m1 == Cardinality(Claiming')
             m2 == Cardinality(First')
             m3 == Cardinality(Second')
  <2>1. \A d \in Clients : d # c => pc'[d] = pc[d] /\ part'[d] = part[d]
    BY <1>3 DEF Rests
  <2>2. /\ c \in Claiming' => c \in Claiming
        /\ c \notin First' /\ (c \in Second' => c \in Second)
    BY <1>1, <1>4 DEF Claiming, First, Second
  <2>3. part[c] = 1 => c \in First
    BY <1>1 DEF First
  <2>4. part[c] # 1 => c \in Second /\ c \notin Second'
    BY <1>1, <1>4 DEF Second
  <2>5. /\ n1 \in Nat /\ n2 \in Nat /\ n3 \in Nat /\ m1 \in Nat /\ m2 \in Nat /\ m3 \in Nat
        /\ m1 <= n1 /\ m2 <= n2 /\ m3 <= n3 /\ IsFiniteSet(Second')
    BY <1>2, <2>1, <2>2, CountsFall, CountTypes
  <2>6. m2 + 1 <= n2 \/ m3 + 1 <= n3
    <3>1. CASE part[c] = 1
      BY <1>2, <2>1, <2>2, <2>3, <3>1, CountsFall
    <3>2. CASE part[c] # 1
      BY <1>2, <2>1, <2>2, <2>4, <3>2, CountsFall
    <3> QED BY <3>1, <3>2
  <2>7. /\ ran \in Nat /\ ran <= MaxCommands /\ made + n1 <= ran
        /\ boot + Bit(starter) + n2 + n3 <= 1 + 2 * ran
    BY <1>2 DEF CountsOK
  <2>8. Bit(starter)' = 1 /\ Bit(starter) \in Nat /\ boot \in Nat /\ made \in Nat
    BY <1>1, <1>2 DEF Bit, ServerOK, RegistryOK
  <2> HIDE DEF n1, n2, n3, m1, m2, m3
  <2>9. made' + m1 <= ran' /\ boot' + Bit(starter)' + m2 + m3 <= 1 + 2 * ran'
    BY <1>1, <2>5, <2>6, <2>7, <2>8
  <2>10. ran' \in Nat /\ ran' <= MaxCommands
    BY <1>1, <2>7
  <2> QED BY <2>5, <2>9, <2>10 DEF CountsOK, m1, m2, m3
<1>8. RestartOK(c)'
  BY <1>1, <1>2, <1>4 DEF ClientOK, RestartOK, Verb
<1>9. ArgvOK(c)'
  BY <1>1, <1>2 DEF ClientOK, ArgvOK, AsConfigured, Verb, Name, How
<1>10. ClientOK(c)'
  BY <1>4, <1>8, <1>9 DEF ClientOK
<1> QED BY <1>3, <1>4, <1>5, <1>6, <1>7, <1>10, ActorStep

-----------------------------------------------------------------------------
(* The process, from its answer on. *)

\* What follows an answer.
LEMMA ToldStep ==
  ASSUME Inv, NEW c \in Clients, Told(c)
  PROVE  Inv'
<1>1. pc[c] = "told" /\ UNCHANGED <<server, registry>>
  BY DEF Told
<1>2. CASE reply[c] # "ok"
  <2>1. Finish(c, "denied")
    BY <1>2 DEF Told
  <2> QED BY <1>1, <2>1, EndStep DEF Outcomes
<1>3. CASE reply[c] = "ok"
  <2>1. GoOn(c)
    BY <1>3 DEF Told
  <2>2. ClientOK(c) /\ part[c] \in 1..2
    BY DEF Inv, ClientOK, ProcessOK
  <2>3. part[c] = 1 => FirstDone(c)
    BY <1>1, <1>3, <2>2 DEF ClientOK, EffectsOK
  <2>4. CASE Templated(c)
    <3>1. Move(c, "launch")
      BY <2>1, <2>4 DEF GoOn, Templated, Request
    <3> QED BY <1>1, <1>3, <2>4, <3>1, MoveStep
  <2>5. CASE ~Templated(c) /\ Request(c) = "run" /\ How(c) = "attach"
    <3>1. SecondPart(c, "start")
      BY <2>1, <2>5 DEF GoOn, Templated, Request
    <3>2. part[c] = 1 /\ Verb(c) = "run"
      BY <2>2, <2>5 DEF Request
    <3> QED BY <1>1, <2>3, <2>5, <3>1, <3>2, SecondPartStep
  <2>6. CASE ~Templated(c) /\ Request(c) = "attach"
    <3>1. Move(c, "streaming")
      BY <2>1, <2>6 DEF GoOn, Templated, Request
    <3> QED BY <1>1, <1>3, <2>6, <3>1, MoveStep
  <2>7. CASE ~Templated(c) /\ Verb(c) = "send" /\ How(c) = "two" /\ part[c] = 1
    <3>1. SecondPart(c, "connect")
      BY <2>1, <2>7 DEF GoOn, Request
    <3> QED BY <1>1, <2>3, <2>7, <3>1, SecondPartStep
  <2>8. CASE ~Templated(c) /\ Verb(c) \in {"stop", "restart"}
    <3>1. Move(c, "gone?")
      BY <2>1, <2>8 DEF GoOn, Request
    <3> QED BY <1>1, <1>3, <2>8, <3>1, MoveStep
  <2>9. CASE /\ ~Templated(c) /\ ~(Request(c) = "run" /\ How(c) = "attach") /\ Request(c) # "attach"
             /\ ~(Verb(c) = "send" /\ How(c) = "two" /\ part[c] = 1) /\ Verb(c) \notin {"stop", "restart"}
    <3>1. Finish(c, "ok")
      BY <2>1, <2>9 DEF GoOn
    <3> QED BY <1>1, <3>1, EndStep DEF Outcomes
  <2> QED BY <2>4, <2>5, <2>6, <2>7, <2>8, <2>9
<1> QED BY <1>2, <1>3

\* The end of an attachment.
LEMMA LeaveStep ==
  ASSUME Inv, NEW c \in Clients, Leave(c)
  PROVE  Inv'
<1>1. /\ Finish(c, "ok") /\ attached' \subseteq attached
      /\ UNCHANGED server /\ UNCHANGED <<byName, nameOf, kind, exited, made>>
  BY DEF Leave
<1>2. RegistryOK' /\ RegistryGrows
  BY <1>1 DEF Inv, RegistryOK, RegistryGrows
<1> QED BY <1>1, <1>2, FinishStep DEF Outcomes

\* The daemon that was told to stop no longer answers: a restart goes on.
LEMMA WaitForSocketGoneStep ==
  ASSUME Inv, NEW c \in Clients, WaitForSocketGone(c)
  PROVE  Inv'
<1>1. pc[c] = "gone?" /\ daemon # "up" /\ UNCHANGED <<server, registry>>
  BY DEF WaitForSocketGone
<1>2. CASE Verb(c) = "restart"
  <2>1. SecondPart(c, "connect")
    BY <1>2 DEF WaitForSocketGone
  <2>2. part[c] = 1
    BY <1>1 DEF Inv, PlaceOK
  <2>3. FirstDone(c)
    BY <1>2 DEF FirstDone
  <2> QED BY <1>1, <1>2, <2>1, <2>2, <2>3, SecondPartStep
<1>3. CASE Verb(c) # "restart"
  <2>1. Finish(c, "ok")
    BY <1>3 DEF WaitForSocketGone
  <2> QED BY <1>1, <2>1, EndStep DEF Outcomes
<1> QED BY <1>2, <1>3

-----------------------------------------------------------------------------
(* The daemon answers. *)

\* Nobody asks without being connected; only run has a second half that asks for
\* something else.
LEMMA AskedVerb ==
  ASSUME Inv, NEW c \in Clients, NEW verbs, Asked(c, verbs)
  PROVE  /\ pc[c] = "ask" /\ part[c] \in 1..2 /\ PlaceOK(c)
         /\ \/ Verb(c) \in verbs /\ (part[c] = 2 => Verb(c) # "run")
            \/ Verb(c) = "run" /\ part[c] = 2 /\ "attach" \in verbs
         /\ part[c] = 1 => effects[c] = {}
         /\ part[c] = 2 => FirstDone(c)
BY DEF Asked, Request, Inv, PlaceOK, ProcessOK, EffectsOK

\* What an answer leaves of its client.
LEMMA Answered ==
  ASSUME Inv, NEW c \in Clients, NEW what, NEW done, Answer(c, what, done)
  PROVE  /\ effects'[c] = effects[c] \cup done /\ Verb(c)' = Verb(c) /\ Name(c)' = Name(c)
         /\ part'[c] = part[c]
BY DEF Answer, Inv, ProcessOK, Verb, Name

\* A denial leaves what was done before.
LEMMA DenyStep ==
  ASSUME Inv, NEW c \in Clients, pc[c] = "ask", Deny(c), part[c] = 2 => Verb(c) # "restart"
  PROVE  Inv'
<1>1. Answer(c, "denied", {}) /\ UNCHANGED <<server, registry>>
  BY DEF Deny
<1>2. ServerOK' /\ ServerGrows /\ RegistryOK' /\ RegistryGrows /\ UNCHANGED <<boot, starter>> /\ made' = made
  BY <1>1 DEF Inv, ServerOK, ServerGrows, RegistryOK, RegistryGrows, server, registry
<1>3. effects'[c] = effects[c] /\ Verb(c)' = Verb(c)
  BY <1>1 DEF Answer, Inv, ProcessOK, Verb
<1>4. (part[c] = 1 => RefusedFirst(c)') /\ (part[c] = 2 => RefusedSecond(c)')
  <2>1. (part[c] = 1 => effects[c] = {}) /\ (part[c] = 2 => FirstDone(c))
    BY DEF Inv, EffectsOK
  <2> QED BY <1>3, <2>1 DEF RefusedFirst, RefusedSecond, FirstDone, Agents, Boots
<1>5. {} \in SUBSET Effects
  OBVIOUS
<1> QED BY <1>1, <1>2, <1>4, <1>5, AnswerStep

\* An answer that leaves the registry as it is.
LEMMA OkStep ==
  ASSUME Inv, NEW c \in Clients, NEW done \in SUBSET Effects,
         pc[c] = "ask", Answer(c, "ok", done), part[c] = 2 => Verb(c) # "restart",
         UNCHANGED <<server, registry>>,
         part[c] = 1 => FirstDone(c)', part[c] = 2 => BothDone(c)',
         \A e \in done : e[1] # "shutdown" => e[2] \in 1..made /\ nameOf[e[2]] = Name(c)
  PROVE  Inv'
<1>1. ServerOK' /\ ServerGrows /\ RegistryOK' /\ RegistryGrows /\ UNCHANGED <<boot, starter>>
      /\ made' = made /\ nameOf' = nameOf
  BY DEF Inv, ServerOK, ServerGrows, RegistryOK, RegistryGrows, server, registry
<1> QED BY <1>1, AnswerStep

\* The agents fit in their numbers: each was made by a command of its own.
LEMMA MadeBound ==
  ASSUME Inv
  PROVE  made \in Nat /\ made <= MaxCommands /\ 1..made \subseteq Agents
<1>1. /\ Cardinality(Claiming) \in Nat /\ ran \in Nat /\ made + Cardinality(Claiming) <= ran
      /\ ran <= MaxCommands /\ made \in Nat /\ MaxCommands \in Nat
  BY CountTypes, CommandsAssumption DEF Inv, CountsOK, RegistryOK
<1>2. made <= MaxCommands
  BY <1>1
<1> QED BY <1>1, <1>2 DEF Agents

\* An agent found by its name.
LEMMA TargetFound ==
  ASSUME Inv, NEW c \in Clients, Target(c) # 0
  PROVE  /\ Name(c) \in Names /\ Target(c) = byName[Name(c)] /\ Name(c) # Self
         /\ Target(c) \in 1..made /\ Target(c) \in Agents /\ nameOf[Target(c)] = Name(c)
<1>1. Name(c) \in Names /\ Target(c) = byName[Name(c)]
  BY DEF Target
<1>2. /\ made \in Nat /\ byName \in [Names -> 0..made] /\ byName[Self] = 0
      /\ \A n \in Names : byName[n] # 0 => nameOf[byName[n]] = n
  BY DEF Inv, RegistryOK
<1>3. Name(c) # Self /\ nameOf[Target(c)] = Name(c)
  BY <1>1, <1>2
<1>4. Target(c) \in 1..made
  BY <1>1, <1>2
<1> QED BY <1>1, <1>3, <1>4, MadeBound

\* A command that has made no agent yet may make one.
LEMMA NextAgent ==
  ASSUME Inv, NEW c \in Clients, pc[c] = "ask", part[c] = 1
  PROVE  made + 1 \in Agents
<1>1. RegistryOK /\ CountsOK
  BY DEF Inv
<1>2. c \in Claiming
  BY DEF Claiming
<1>3. Cardinality(Claiming) \in Nat /\ Cardinality(Claiming) # 0
  BY <1>1, <1>2, CountTypes, FS_EmptySet
<1>4. made \in Nat /\ ran \in Nat /\ made + Cardinality(Claiming) <= ran /\ ran <= MaxCommands
  BY <1>1 DEF RegistryOK, CountsOK
<1> QED BY <1>3, <1>4, CommandsAssumption DEF Agents

\* handle_run and handle_register: a new agent, by a command that has made none.
LEMMA ClaimStep ==
  ASSUME Inv, NEW c \in Clients, Claim(c)
  PROVE  Inv'
<1>1. /\ Asked(c, {"run", "register"}) /\ Name(c) \in Names \ {Self} /\ Target(c) = 0
      /\ made' = made + 1
      /\ byName' = [byName EXCEPT ![Name(c)] = made']
      /\ nameOf' = [nameOf EXCEPT ![made'] = Name(c)]
      /\ kind' = [kind EXCEPT ![made'] = IF Verb(c) = "run" THEN "spawned" ELSE "registered"]
      /\ Answer(c, "ok", {<<"claim", made'>>})
      /\ UNCHANGED <<daemon, build, boot, starter, exited, attached>>
  BY DEF Claim, Register, server
<1>2. pc[c] = "ask" /\ Verb(c) \in {"run", "register"} /\ part[c] = 1 /\ effects[c] = {}
  BY <1>1, AskedVerb DEF PlaceOK
<1>3. ServerOK /\ RegistryOK /\ CountsOK
  BY DEF Inv
<1>4. made' \in Agents
  BY <1>1, <1>2, NextAgent
<1>5. made \in Nat /\ made' \in Nat
  BY <1>1, <1>3 DEF RegistryOK
<1>6. Name(c) \in STRING
  BY <1>1, CommandsAssumption
<1>7. RegistryOK'
  <2>1. byName' \in [Names -> 0..made'] /\ byName'[Self] = 0
    BY <1>1, <1>3, <1>5, CommandsAssumption DEF RegistryOK
  <2>2. nameOf' \in [Agents -> STRING \cup {Unnamed}] /\ kind' \in [Agents -> {"none", "spawned", "registered"}]
    BY <1>1, <1>3, <1>4, <1>6 DEF RegistryOK
  <2>3. \A n \in Names : byName'[n] # 0 => nameOf'[byName'[n]] = n
    <3>1. SUFFICES ASSUME NEW n \in Names, byName'[n] # 0 PROVE nameOf'[byName'[n]] = n
      OBVIOUS
    <3>2. CASE n = Name(c)
      BY <1>1, <1>3, <1>4, <3>2 DEF RegistryOK
    <3>3. CASE n # Name(c)
      <4>1. byName'[n] = byName[n] /\ byName[n] \in 1..made
        BY <1>1, <1>3, <1>5, <3>1, <3>3 DEF RegistryOK
      <4>2. nameOf'[byName[n]] = nameOf[byName[n]]
        BY <1>1, <1>3, <1>5, <4>1 DEF RegistryOK
      <4> QED BY <1>3, <4>1, <4>2 DEF RegistryOK
    <3> QED BY <3>2, <3>3
  <2>4. \A i \in Agents : kind'[i] # "none" => i <= made'
    BY <1>1, <1>3, <1>5 DEF RegistryOK, Agents
  <2>5. exited' \subseteq 1..made' /\ attached' \subseteq 1..made'
    BY <1>1, <1>3, <1>5 DEF RegistryOK
  <2> QED BY <1>5, <2>1, <2>2, <2>3, <2>4, <2>5 DEF RegistryOK
<1>8. RegistryGrows
  BY <1>1, <1>3, <1>5 DEF RegistryGrows, RegistryOK
<1>9. ServerOK' /\ ServerGrows
  BY <1>1, <1>3 DEF ServerOK, ServerGrows
<1>10. {<<"claim", made'>>} \in SUBSET Effects
  BY <1>4 DEF Effects
<1>11. FirstDone(c)'
  <2>1. effects'[c] = {<<"claim", made'>>} /\ Verb(c)' = Verb(c)
    BY <1>1, <1>2, Answered
  <2> QED BY <1>2, <1>4, <2>1 DEF FirstDone, Agents
<1>12. nameOf'[made'] = Name(c)
  BY <1>1, <1>3, <1>4 DEF RegistryOK
<1> HIDE DEF Agents
<1>13. \A e \in {<<"claim", made'>>} : e[2] \in 1..made' /\ nameOf'[e[2]] = Name(c)
  BY <1>1, <1>5, <1>12
<1> QED BY <1>1, <1>2, <1>7, <1>8, <1>9, <1>10, <1>11, <1>13, AnswerStep

\* handle_run, when it has forked and fails: a process that no name leads to.
LEMMA ClaimStrandsStep ==
  ASSUME Inv, NEW c \in Clients, ClaimStrands(c)
  PROVE  Inv'
<1>1. /\ Asked(c, {"run"}) /\ Name(c) \in Names
      /\ made' = made + 1
      /\ nameOf' = [nameOf EXCEPT ![made'] = Name(c)]
      /\ kind' = [kind EXCEPT ![made'] = "spawned"]
      /\ Answer(c, "denied", {<<"fork", made'>>})
      /\ UNCHANGED <<daemon, build, boot, starter, byName, exited, attached>>
  BY DEF ClaimStrands, server
<1>2. pc[c] = "ask" /\ Verb(c) = "run" /\ part[c] = 1 /\ effects[c] = {}
  BY <1>1, AskedVerb
<1>3. ServerOK /\ RegistryOK
  BY DEF Inv
<1>4. made' \in Agents
  BY <1>1, <1>2, NextAgent
<1>5. made \in Nat /\ made' \in Nat
  BY <1>1, <1>3 DEF RegistryOK
<1>6. Name(c) \in STRING
  BY <1>1, CommandsAssumption
<1>7. RegistryOK'
  <2>1. byName' \in [Names -> 0..made'] /\ byName'[Self] = 0
    BY <1>1, <1>3, <1>5, CommandsAssumption DEF RegistryOK
  <2>2. nameOf' \in [Agents -> STRING \cup {Unnamed}] /\ kind' \in [Agents -> {"none", "spawned", "registered"}]
    BY <1>1, <1>3, <1>4, <1>6 DEF RegistryOK
  <2>3. \A n \in Names : byName'[n] # 0 => nameOf'[byName'[n]] = n
    <3>1. SUFFICES ASSUME NEW n \in Names, byName'[n] # 0 PROVE nameOf'[byName'[n]] = n
      OBVIOUS
    <3>2. byName'[n] = byName[n] /\ byName[n] \in 1..made
      BY <1>1, <1>3, <1>5, <3>1 DEF RegistryOK
    <3>3. nameOf'[byName[n]] = nameOf[byName[n]]
      BY <1>1, <1>3, <1>5, <3>2 DEF RegistryOK
    <3> QED BY <1>3, <3>2, <3>3 DEF RegistryOK
  <2>4. \A i \in Agents : kind'[i] # "none" => i <= made'
    BY <1>1, <1>3, <1>5 DEF RegistryOK, Agents
  <2>5. exited' \subseteq 1..made' /\ attached' \subseteq 1..made'
    BY <1>1, <1>3, <1>5 DEF RegistryOK
  <2> QED BY <1>5, <2>1, <2>2, <2>3, <2>4, <2>5 DEF RegistryOK
<1>8. RegistryGrows
  BY <1>1, <1>3, <1>5 DEF RegistryGrows, RegistryOK
<1>9. ServerOK' /\ ServerGrows
  BY <1>1, <1>3 DEF ServerOK, ServerGrows
<1>10. {<<"fork", made'>>} \in SUBSET Effects
  BY <1>4 DEF Effects
<1>11. RefusedFirst(c)'
  <2>1. effects'[c] = {<<"fork", made'>>} /\ Verb(c)' = Verb(c)
    BY <1>1, <1>2, Answered
  <2> QED BY <1>2, <1>4, <2>1 DEF RefusedFirst, Agents
<1>12. nameOf'[made'] = Name(c)
  BY <1>1, <1>3, <1>4 DEF RegistryOK
<1> HIDE DEF Agents
<1>13. \A e \in {<<"fork", made'>>} : e[2] \in 1..made' /\ nameOf'[e[2]] = Name(c)
  BY <1>1, <1>5, <1>12
<1> QED BY <1>1, <1>2, <1>7, <1>8, <1>9, <1>10, <1>11, <1>13, AnswerStep

\* handle_rm: the agent of the name.
LEMMA RmStep ==
  ASSUME Inv, NEW c \in Clients, Rm(c)
  PROVE  Inv'
<1>1. /\ Asked(c, {"rm"}) /\ Target(c) # 0
      /\ byName' = [byName EXCEPT ![Name(c)] = 0]
      /\ exited' = exited \cup {Target(c)}
      /\ Answer(c, "ok", {<<"remove", Target(c)>>})
      /\ UNCHANGED <<daemon, build, boot, starter, nameOf, kind, attached, made>>
  BY DEF Rm, server
<1>2. pc[c] = "ask" /\ Verb(c) = "rm" /\ part[c] = 1 /\ effects[c] = {}
  BY <1>1, AskedVerb DEF PlaceOK
<1>3. ServerOK /\ RegistryOK
  BY DEF Inv
<1>4. Target(c) \in 1..made /\ Target(c) \in Agents /\ nameOf[Target(c)] = Name(c)
  BY <1>1, TargetFound
<1>5. RegistryOK' /\ RegistryGrows
  <2>1. byName' \in [Names -> 0..made] /\ \A n \in Names : byName'[n] = 0 \/ byName'[n] = byName[n]
    <3>1. made \in Nat /\ byName \in [Names -> 0..made] /\ byName' = [byName EXCEPT ![Name(c)] = 0]
      BY <1>1, <1>3 DEF RegistryOK
    <3>2. 0 \in 0..made
      BY <3>1
    <3>3. byName' \in [Names -> 0..made]
      BY <3>1, <3>2
    <3>4. ASSUME NEW n \in Names PROVE byName'[n] = 0 \/ byName'[n] = byName[n]
      BY <3>1
    <3> QED BY <3>3, <3>4
  <2>2. exited' \subseteq 1..made /\ attached' \subseteq 1..made /\ exited \subseteq exited'
    BY <1>1, <1>3, <1>4 DEF RegistryOK
  <2> QED BY <1>1, <1>3, <2>1, <2>2, RegistryKept
<1>6. ServerOK' /\ ServerGrows
  BY <1>1, <1>3 DEF ServerOK, ServerGrows
<1>7. {<<"remove", Target(c)>>} \in SUBSET Effects
  BY <1>4 DEF Effects
<1>8. FirstDone(c)'
  <2>1. effects'[c] = {<<"remove", Target(c)>>} /\ Verb(c)' = Verb(c)
    BY <1>1, <1>2, Answered
  <2> QED BY <1>2, <1>4, <2>1 DEF FirstDone, Agents
<1>9. \A e \in {<<"remove", Target(c)>>} : e[2] \in 1..made' /\ nameOf'[e[2]] = Name(c)
  BY <1>1, <1>4
<1> QED BY <1>1, <1>2, <1>5, <1>6, <1>7, <1>8, <1>9, AnswerStep

\* handle_clean: agents that have exited.
LEMMA CleanStep ==
  ASSUME Inv, NEW c \in Clients, Clean(c)
  PROVE  Inv'
<1>1. /\ Asked(c, {"clean"})
      /\ UNCHANGED <<daemon, build, boot, starter, nameOf, kind, exited, attached, made>>
  BY DEF Clean, server
<1>2. PICK swept \in SUBSET exited :
        /\ byName' = [n \in Names |-> IF byName[n] \in swept THEN 0 ELSE byName[n]]
        /\ Answer(c, "ok", {<<"remove", i>> : i \in swept})
  <2> DEFINE swept == {i \in exited : byName[nameOf[i]] = i}
  <2>1. swept \in SUBSET exited
    OBVIOUS
  <2> QED BY <2>1 DEF Clean
<1> DEFINE done == {<<"remove", i>> : i \in swept}
<1>3. pc[c] = "ask" /\ Verb(c) = "clean" /\ part[c] = 1
  BY <1>1, AskedVerb DEF PlaceOK
<1>4. ServerOK /\ RegistryOK
  BY DEF Inv
<1>5. RegistryOK' /\ RegistryGrows
  <2>1. made \in Nat /\ byName \in [Names -> 0..made]
    BY <1>4 DEF RegistryOK
  <2>2. byName' \in [Names -> 0..made] /\ \A n \in Names : byName'[n] = 0 \/ byName'[n] = byName[n]
    <3>1. byName' = [n \in Names |-> IF byName[n] \in swept THEN 0 ELSE byName[n]]
      BY <1>2
    <3>2. ASSUME NEW n \in Names
          PROVE  byName'[n] \in 0..made /\ (byName'[n] = 0 \/ byName'[n] = byName[n])
      BY <2>1, <3>1
    <3> QED BY <3>1, <3>2
  <2>3. exited' \subseteq 1..made /\ attached' \subseteq 1..made
    BY <1>1, <1>4 DEF RegistryOK
  <2> QED BY <1>1, <1>4, <2>2, <2>3, RegistryKept
<1>6. ServerOK' /\ ServerGrows
  BY <1>1, <1>4 DEF ServerOK, ServerGrows
<1>7. \A e \in done : e[1] = "remove" /\ e[2] \in 1..made /\ e[2] \in exited
  <2>1. \A i \in swept : i \in 1..made /\ i \in exited
    BY <1>2, <1>4 DEF RegistryOK
  <2>2. \A e \in done : \E i \in swept : e = <<"remove", i>>
    OBVIOUS
  <2> QED BY <2>1, <2>2
<1>8. done \in SUBSET Effects
  <2>1. swept \subseteq 1..made
    BY <1>2, <1>4 DEF RegistryOK
  <2>2. swept \subseteq Agents
    BY <2>1, MadeBound
  <2> QED BY <2>2 DEF Effects
<1>9. FirstDone(c)'
  <2>1. Verb(c)' = Verb(c)
    BY <1>2, Answered
  <2> QED BY <1>3, <2>1 DEF FirstDone
<1>10. Answer(c, "ok", done)
  BY <1>2
<1>11. \A e \in done : e[2] \in 1..made' /\ e[1] = "remove" /\ e[2] \in exited'
  BY <1>1, <1>7
<1> HIDE DEF done
<1> QED BY <1>1, <1>3, <1>5, <1>6, <1>8, <1>9, <1>10, <1>11, AnswerStep

\* view, ls and the others only look.
LEMMA LookStep ==
  ASSUME Inv, NEW c \in Clients, Look(c)
  PROVE  Inv'
<1>1. /\ Asked(c, {"ls", "complete"}) \/ Asked(c, {"view", "cwd"})
      /\ Answer(c, "ok", {}) /\ UNCHANGED <<server, registry>>
  BY DEF Look
<1>2. pc[c] = "ask" /\ Verb(c) \in {"ls", "complete", "view", "cwd"} /\ part[c] = 1 /\ effects[c] = {}
  BY <1>1, AskedVerb DEF PlaceOK
<1>3. FirstDone(c)'
  <2>1. effects'[c] = {} /\ Verb(c)' = Verb(c)
    BY <1>1, <1>2, Answered
  <2> QED BY <1>2, <2>1 DEF FirstDone
<1>4. {} \in SUBSET Effects
  OBVIOUS
<1> QED BY <1>1, <1>2, <1>3, <1>4, OkStep

\* handle_send: the first half, or the second after the first.
LEMMA SendStep ==
  ASSUME Inv, NEW c \in Clients, Send(c)
  PROVE  Inv'
<1> DEFINE done == {<<"write", Target(c), part[c]>>}
<1>1. /\ Asked(c, {"send"}) /\ Target(c) # 0
      /\ Answer(c, "ok", done) /\ UNCHANGED <<server, registry>>
  BY DEF Send, Spawned
<1>2. /\ pc[c] = "ask" /\ Verb(c) = "send" /\ part[c] \in 1..2
      /\ part[c] = 1 => effects[c] = {}
      /\ part[c] = 2 => FirstDone(c)
  BY <1>1, AskedVerb
<1>3. Target(c) \in 1..made /\ Target(c) \in Agents /\ nameOf[Target(c)] = Name(c)
  BY <1>1, TargetFound
<1>4. done \in SUBSET Effects
  BY <1>2, <1>3 DEF Effects
<1>5. effects'[c] = effects[c] \cup done /\ Verb(c)' = Verb(c)
  BY <1>1, Answered
<1>6. ASSUME part[c] = 1 PROVE FirstDone(c)'
  <2>1. effects'[c] = {<<"write", Target(c), 1>>}
    BY <1>2, <1>5, <1>6
  <2> QED BY <1>2, <1>3, <1>5, <2>1 DEF FirstDone, Agents
<1>7. ASSUME part[c] = 2 PROVE BothDone(c)'
  <2>1. PICK i \in Agents : effects[c] = {<<"write", i, 1>>}
    BY <1>2, <1>7 DEF FirstDone
  <2>2. effects'[c] = {<<"write", i, 1>>, <<"write", Target(c), 2>>}
    BY <1>5, <1>7, <2>1
  <2> QED BY <1>2, <1>3, <1>5, <2>2 DEF BothDone, Agents
<1>8. \A e \in done : e[2] \in 1..made /\ nameOf[e[2]] = Name(c)
  BY <1>3
<1> HIDE DEF done
<1> QED BY <1>1, <1>2, <1>4, <1>6, <1>7, <1>8, OkStep

\* A write that fails may have written a part of its half.
LEMMA SendFailsStep ==
  ASSUME Inv, NEW c \in Clients, SendFails(c)
  PROVE  Inv'
<1> DEFINE all == {<<"part", Target(c), part[c]>>}
<1>1. PICK done \in {{}, all} : Answer(c, "denied", done)
  BY DEF SendFails
<1>2. Asked(c, {"send"}) /\ Target(c) # 0 /\ UNCHANGED <<server, registry>>
  BY DEF SendFails, Spawned
<1>3. /\ pc[c] = "ask" /\ Verb(c) = "send" /\ part[c] \in 1..2
      /\ part[c] = 1 => effects[c] = {}
      /\ part[c] = 2 => FirstDone(c)
  BY <1>2, AskedVerb
<1>4. CASE done = {}
  BY <1>1, <1>2, <1>3, <1>4, DenyStep DEF Deny
<1>5. CASE done = all
  <2>1. Target(c) \in 1..made /\ Target(c) \in Agents /\ nameOf[Target(c)] = Name(c)
    BY <1>2, TargetFound
  <2>2. all \in SUBSET Effects
    BY <1>3, <2>1 DEF Effects
  <2>3. effects'[c] = effects[c] \cup all /\ Verb(c)' = Verb(c)
    BY <1>1, <1>5, Answered
  <2>4. ASSUME part[c] = 1 PROVE RefusedFirst(c)'
    <3>1. effects'[c] = {<<"part", Target(c), 1>>}
      BY <1>3, <2>3, <2>4
    <3> QED BY <1>3, <2>1, <2>3, <3>1 DEF RefusedFirst, Agents
  <2>5. ASSUME part[c] = 2 PROVE RefusedSecond(c)'
    <3>1. PICK i \in Agents : effects[c] = {<<"write", i, 1>>}
      BY <1>3, <2>5 DEF FirstDone
    <3>2. effects'[c] = {<<"write", i, 1>>, <<"part", Target(c), 2>>}
      BY <2>3, <2>5, <3>1
    <3> QED BY <1>3, <2>1, <2>3, <3>2 DEF RefusedSecond, Agents
  <2>6. \A e \in all : e[2] \in 1..made /\ nameOf[e[2]] = Name(c)
    BY <2>1
  <2>7. ServerOK' /\ ServerGrows /\ RegistryOK' /\ RegistryGrows /\ UNCHANGED <<boot, starter>>
        /\ made' = made /\ nameOf' = nameOf
    BY <1>2 DEF Inv, ServerOK, ServerGrows, RegistryOK, RegistryGrows, server, registry
  <2>8. Answer(c, "denied", all)
    BY <1>1, <1>5
  <2> HIDE DEF all
  <2> QED BY <1>3, <2>2, <2>4, <2>5, <2>6, <2>7, <2>8, AnswerStep
<1> QED BY <1>1, <1>4, <1>5

\* handle_event.
LEMMA EventStep ==
  ASSUME Inv, NEW c \in Clients, Event(c)
  PROVE  Inv'
<1>1. Asked(c, {"event"}) /\ UNCHANGED <<server, registry>>
  BY DEF Event
<1>2. pc[c] = "ask" /\ Verb(c) = "event" /\ part[c] = 1 /\ effects[c] = {}
  BY <1>1, AskedVerb DEF PlaceOK
<1>3. CASE Target(c) = 0
  <2>1. Deny(c)
    BY <1>3 DEF Event, Deny
  <2> QED BY <1>2, <2>1, DenyStep
<1>4. CASE Target(c) # 0
  <2> DEFINE done == {<<"event", Target(c)>>}
  <2>1. Answer(c, "ok", done)
    BY <1>4 DEF Event
  <2>2. Target(c) \in 1..made /\ Target(c) \in Agents /\ nameOf[Target(c)] = Name(c)
    BY <1>4, TargetFound
  <2>3. done \in SUBSET Effects
    BY <2>2 DEF Effects
  <2>4. Verb(c)' = Verb(c)
    BY <2>1, Answered
  <2>5. FirstDone(c)'
    BY <1>2, <2>4 DEF FirstDone
  <2>6. \A e \in done : e[2] \in 1..made /\ nameOf[e[2]] = Name(c)
    BY <2>2
  <2> HIDE DEF done
  <2> QED BY <1>1, <1>2, <2>1, <2>3, <2>5, <2>6, OkStep
<1> QED BY <1>3, <1>4

\* handle_attach, asked by attach, or by run once its agent is made.
LEMMA AttachStep ==
  ASSUME Inv, NEW c \in Clients, Attach(c)
  PROVE  Inv'
<1> DEFINE done == {<<"attach", Target(c)>>}
<1>1. /\ Asked(c, {"attach"}) /\ Target(c) # 0
      /\ attached' = attached \cup {Target(c)}
      /\ Answer(c, "ok", done)
      /\ UNCHANGED <<daemon, build, boot, starter, byName, nameOf, kind, exited, made>>
  BY DEF Attach, Spawned, server
<1>2. /\ pc[c] = "ask" /\ part[c] \in 1..2
      /\ (Verb(c) = "attach" /\ part[c] = 1) \/ (Verb(c) = "run" /\ part[c] = 2)
      /\ part[c] = 1 => effects[c] = {}
      /\ part[c] = 2 => FirstDone(c)
  BY <1>1, AskedVerb DEF PlaceOK
<1>3. ServerOK /\ RegistryOK
  BY DEF Inv
<1>4. Target(c) \in 1..made /\ Target(c) \in Agents /\ nameOf[Target(c)] = Name(c)
  BY <1>1, TargetFound
<1>5. RegistryOK' /\ RegistryGrows
  <2>1. byName' \in [Names -> 0..made] /\ exited' \subseteq 1..made /\ attached' \subseteq 1..made
    BY <1>1, <1>3, <1>4 DEF RegistryOK
  <2> QED BY <1>1, <1>3, <2>1, RegistryKept
<1>6. ServerOK' /\ ServerGrows
  BY <1>1, <1>3 DEF ServerOK, ServerGrows
<1>7. done \in SUBSET Effects
  BY <1>4 DEF Effects
<1>8. effects'[c] = effects[c] \cup done /\ Verb(c)' = Verb(c)
  BY <1>1, Answered
<1>9. ASSUME part[c] = 1 PROVE FirstDone(c)'
  <2>1. effects'[c] = {<<"attach", Target(c)>>}
    BY <1>2, <1>8, <1>9
  <2> QED BY <1>2, <1>4, <1>8, <1>9, <2>1 DEF FirstDone, Agents
<1>10. ASSUME part[c] = 2 PROVE BothDone(c)'
  <2>1. PICK i \in Agents : effects[c] = {<<"claim", i>>}
    BY <1>2, <1>10 DEF FirstDone
  <2>2. effects'[c] = {<<"claim", i>>, <<"attach", Target(c)>>}
    BY <1>8, <2>1
  <2> QED BY <1>2, <1>4, <1>8, <1>10, <2>2 DEF BothDone, Agents
<1>11. \A e \in done : e[2] \in 1..made' /\ nameOf'[e[2]] = Name(c)
  BY <1>1, <1>4
<1> HIDE DEF done
<1> QED BY <1>1, <1>2, <1>5, <1>6, <1>7, <1>9, <1>10, <1>11, AnswerStep

\* The daemons that were fit in their numbers: no command starts more than two.
LEMMA BootBound ==
  ASSUME Inv
  PROVE  boot \in Boots /\ ran \in 0..MaxCommands
<1>1. /\ Cardinality(First) \in Nat /\ Cardinality(Second) \in Nat /\ ran \in Nat /\ ran <= MaxCommands
      /\ boot + Bit(starter) + Cardinality(First) + Cardinality(Second) <= 1 + 2 * ran
      /\ Bit(starter) \in Nat /\ boot \in Nat /\ MaxCommands \in Nat
  BY CountTypes, CommandsAssumption DEF Inv, CountsOK, ServerOK, Bit
<1> HIDE DEF Bit
<1>2. boot <= 1 + 2 * ran
  BY <1>1
<1> QED BY <1>1, <1>2 DEF Boots

\* handle_shutdown.
LEMMA ShutdownStep ==
  ASSUME Inv, NEW c \in Clients, Shutdown(c)
  PROVE  Inv'
<1> DEFINE done == {<<"shutdown", boot>>}
<1>1. /\ Asked(c, {"stop", "restart"}) /\ part[c] = 1 /\ daemon' = "closing"
      /\ Answer(c, "ok", done)
      /\ UNCHANGED <<build, boot, starter, byName, nameOf, kind, exited, attached, made>>
  BY DEF Shutdown, registry
<1>2. pc[c] = "ask" /\ Verb(c) \in {"stop", "restart"} /\ effects[c] = {}
  BY <1>1, AskedVerb
<1>3. ServerOK /\ RegistryOK
  BY DEF Inv
<1>4. RegistryOK' /\ RegistryGrows
  BY <1>1, <1>3 DEF RegistryOK, RegistryGrows
<1>5. ServerOK' /\ ServerGrows
  BY <1>1, <1>3 DEF ServerOK, ServerGrows
<1>6. boot \in Boots
  BY BootBound
<1>7. done \in SUBSET Effects
  BY <1>6 DEF Effects
<1>8. FirstDone(c)'
  <2>1. effects'[c] = {<<"shutdown", boot>>} /\ Verb(c)' = Verb(c)
    BY <1>1, <1>2, Answered
  <2> QED BY <1>2, <1>6, <2>1 DEF FirstDone, Boots
<1>9. \A e \in done : e[1] = "shutdown"
  OBVIOUS
<1> HIDE DEF done
<1> QED BY <1>1, <1>2, <1>4, <1>5, <1>7, <1>8, <1>9, AnswerStep

\* Every answer of the daemon keeps the invariant.
LEMMA ServeStep ==
  ASSUME Inv, NEW c \in Clients, Serve(c)
  PROVE  Inv'
<1>1. CASE ClaimDenied(c)
  BY <1>1, AskedVerb, DenyStep DEF ClaimDenied
<1>2. CASE RmDenied(c)
  BY <1>2, AskedVerb, DenyStep DEF RmDenied
<1>3. CASE LookDenied(c)
  BY <1>3, AskedVerb, DenyStep DEF LookDenied
<1>4. CASE SendDenied(c)
  BY <1>4, AskedVerb, DenyStep DEF SendDenied
<1>5. CASE AttachDenied(c)
  BY <1>5, AskedVerb, DenyStep DEF AttachDenied
<1>6. CASE ShutdownDenied(c)
  BY <1>6, AskedVerb, DenyStep DEF ShutdownDenied
<1> QED BY <1>1, <1>2, <1>3, <1>4, <1>5, <1>6, ClaimStep, RmStep, CleanStep, LookStep, SendStep,
           ClaimStrandsStep, SendFailsStep, EventStep, AttachStep, ShutdownStep DEF Serve

-----------------------------------------------------------------------------
(* The daemon's life, and the world. *)

\* No client steps.
LEMMA WorldStep ==
  ASSUME Inv, UNCHANGED process, ServerOK', ServerGrows, RegistryOK', RegistryGrows,
         made' = made, boot' + Bit(starter)' <= boot + Bit(starter)
  PROVE  Inv'
<1>1. UNCHANGED <<pc, command, part, conn, reply, template, argv, effects, met, outcome, ran>>
  BY DEF process, asking
<1>2. ServerOK /\ ProcessOK /\ CountsOK
  BY DEF Inv
<1>3. ASSUME NEW d \in Clients PROVE ClientOK(d)'
  BY <1>1, RestsKept DEF Rests
<1>4. ProcessOK'
  <2>1. 0..boot \subseteq 0..boot'
    BY <1>2 DEF ServerOK, ServerGrows
  <2>2. conn' \in [Clients -> 0..boot'] /\ met' \in [Clients -> 0..boot']
    BY <1>1, <1>2, <2>1 DEF ProcessOK
  <2> QED BY <1>1, <1>2, <2>2 DEF ProcessOK
<1>5. CountsOK'
  <2>1. Claiming' = Claiming /\ First' = First /\ Second' = Second
    BY <1>1 DEF Claiming, First, Second
  <2>2. /\ Cardinality(First) \in Nat /\ Cardinality(Second) \in Nat /\ ran \in Nat
        /\ boot \in Nat /\ boot' \in Nat /\ Bit(starter) \in Nat /\ Bit(starter)' \in Nat
        /\ boot + Bit(starter) + Cardinality(First) + Cardinality(Second) <= 1 + 2 * ran
    BY <1>2, CountTypes DEF CountsOK, ServerOK, Bit
  <2> HIDE DEF Bit
  <2>3. boot' + Bit(starter)' + Cardinality(First) + Cardinality(Second) <= 1 + 2 * ran
    BY <2>2
  <2> QED BY <1>1, <1>2, <2>1, <2>3 DEF CountsOK
<1> QED BY <1>3, <1>4, <1>5 DEF Inv, ClientOK

\* A daemon comes up or leaves, stops or dies; an agent exits.
LEMMA DaemonSteps ==
  ASSUME Inv, DaemonUp \/ DaemonLeaves \/ Exit \/ \E i \in Agents : AgentExits(i)
  PROVE  Inv'
<1>1. ServerOK /\ RegistryOK
  BY DEF Inv
<1>2. CASE DaemonUp
  <2>1. /\ starter = TRUE /\ starter' = FALSE /\ daemon' = "up" /\ build' = "own" /\ boot' = boot + 1
        /\ UNCHANGED <<byName, nameOf, kind, exited, attached, made, process>>
    BY <1>1, <1>2 DEF DaemonUp, registry, ServerOK
  <2>2. ServerOK' /\ ServerGrows /\ RegistryOK' /\ RegistryGrows
    <3>1. ServerOK' /\ ServerGrows
      <4>1. boot \in Nat /\ boot' = boot + 1
        BY <1>1, <2>1 DEF ServerOK
      <4>2. boot' \in Nat /\ boot' > boot /\ boot' >= boot
        BY <4>1
      <4>3. starter' \in BOOLEAN
        BY <2>1
      <4> QED BY <2>1, <4>2, <4>3 DEF ServerOK, ServerGrows
    <3> QED BY <1>1, <2>1, <3>1, RegistryStays DEF registry
  <2>3. boot' + Bit(starter)' <= boot + Bit(starter)
    BY <1>1, <2>1 DEF ServerOK, Bit
  <2> QED BY <2>1, <2>2, <2>3, WorldStep
<1>3. CASE DaemonLeaves
  <2>1. /\ starter = TRUE /\ starter' = FALSE
        /\ UNCHANGED <<daemon, build, boot, byName, nameOf, kind, exited, attached, made, process>>
    BY <1>1, <1>3 DEF DaemonLeaves, registry, ServerOK
  <2>2. ServerOK' /\ ServerGrows /\ RegistryOK' /\ RegistryGrows
    <3>1. ServerOK' /\ ServerGrows
      <4>1. /\ daemon' \in {"none", "up", "closing"} /\ build' \in {"own", "older"}
            /\ boot' \in Nat /\ starter' \in BOOLEAN
        BY <1>1, <2>1 DEF ServerOK
      <4>2. boot' >= boot
        BY <1>1, <2>1 DEF ServerOK
      <4> QED BY <2>1, <4>1, <4>2 DEF ServerOK, ServerGrows
    <3> QED BY <1>1, <2>1, <3>1, RegistryStays DEF registry
  <2>3. boot' + Bit(starter)' <= boot + Bit(starter)
    BY <1>1, <2>1 DEF ServerOK, Bit
  <2> QED BY <2>1, <2>2, <2>3, WorldStep
<1>4. CASE Exit
  <2>1. /\ daemon' = "none" /\ byName' = [n \in Names |-> 0]
        /\ exited' = exited \cup {i \in 1..made : kind[i] = "spawned"} /\ attached' = {}
        /\ UNCHANGED <<build, boot, starter, nameOf, kind, made, process>>
    BY <1>4 DEF Exit
  <2>2. ServerOK' /\ ServerGrows
    BY <1>1, <2>1 DEF ServerOK, ServerGrows
  <2>3. RegistryOK' /\ RegistryGrows
    <3>1. made \in Nat /\ exited \subseteq 1..made
      BY <1>1 DEF RegistryOK
    <3>2. byName' \in [Names -> 0..made] /\ \A n \in Names : byName'[n] = 0
      BY <2>1, <3>1
    <3> QED BY <1>1, <2>1, <3>1, <3>2, RegistryKept
  <2>4. boot' + Bit(starter)' <= boot + Bit(starter)
    BY <1>1, <2>1 DEF ServerOK, Bit
  <2> QED BY <2>1, <2>2, <2>3, <2>4, WorldStep
<1>5. CASE \E i \in Agents : AgentExits(i)
  <2>1. PICK i \in Agents : AgentExits(i)
    BY <1>5
  <2>2. /\ kind[i] = "spawned" /\ exited' = exited \cup {i}
        /\ UNCHANGED <<daemon, build, boot, starter, byName, nameOf, kind, attached, made, process>>
    BY <2>1 DEF AgentExits, server
  <2>3. i \in 1..made
    BY <1>1, <2>2 DEF RegistryOK, Agents
  <2>4. ServerOK' /\ ServerGrows /\ RegistryOK' /\ RegistryGrows
    <3>1. ServerOK' /\ ServerGrows
      BY <1>1, <2>2 DEF ServerOK, ServerGrows
    <3>2. /\ byName' \in [Names -> 0..made] /\ exited' \subseteq 1..made
          /\ attached' \subseteq 1..made /\ exited \subseteq exited'
      BY <1>1, <2>2, <2>3 DEF RegistryOK
    <3> QED BY <1>1, <2>2, <3>1, <3>2, RegistryKept
  <2>5. boot' + Bit(starter)' <= boot + Bit(starter)
    BY <1>1, <2>2 DEF ServerOK, Bit
  <2> QED BY <2>2, <2>4, <2>5, WorldStep
<1> QED BY <1>2, <1>3, <1>4, <1>5

\* Every step keeps the invariant.
LEMMA NextInv == Inv /\ [Next]_vars => Inv'
<1> SUFFICES ASSUME Inv, [Next]_vars PROVE Inv'
  OBVIOUS
<1>1. CASE UNCHANGED vars
  <2>1. UNCHANGED <<server, registry, process>>
    BY <1>1 DEF vars
  <2>2. ServerOK' /\ ServerGrows /\ RegistryOK' /\ RegistryGrows /\ made' = made
        /\ boot' + Bit(starter)' <= boot + Bit(starter)
    <3>1. ServerOK' /\ ServerGrows
      BY <2>1 DEF Inv, ServerOK, ServerGrows, server
    <3>2. made' = made /\ boot' + Bit(starter)' <= boot + Bit(starter)
      BY <2>1 DEF Inv, ServerOK, server, registry, Bit
    <3> QED BY <2>1, <3>1, <3>2, RegistryStays DEF Inv
  <2> QED BY <2>1, <2>2, WorldStep
<1>2. ASSUME NEW c \in Clients, ClientStep(c) PROVE Inv'
  <2>1. CASE \E file \in Configs : Load(c, file)
    BY <2>1, LoadStep
  <2>2. CASE Mismatch(c)
    BY <2>2, HandshakeFailsStep DEF Mismatch, Outcomes
  <2>3. CASE Reset(c)
    BY <2>3, HandshakeFailsStep DEF Reset, Outcomes
  <2>4. CASE ConnectNoSpawn(c)
    BY <2>4, HandshakeFailsStep DEF ConnectNoSpawn, Outcomes
  <2>5. CASE Restarted(c)
    BY <2>5, EndStep DEF Restarted, Outcomes
  <2>6. CASE Lost(c)
    BY <2>6, EndStep DEF Lost, Outcomes
  <2>7. CASE \E found \in BOOLEAN : Launch(c, found)
    BY <2>7, EndStep DEF Launch, Outcomes
  <2> QED BY <1>2, <2>1, <2>2, <2>3, <2>4, <2>5, <2>6, <2>7, ConnectStep, SpawnDaemonStep,
             ToldStep, WaitForSocketGoneStep DEF ClientStep
<1>3. ASSUME NEW c \in Clients, GiveUp(c) PROVE Inv'
  BY <1>3, EndStep DEF GiveUp, Outcomes
<1> QED BY <1>1, <1>2, <1>3, ServeStep, LeaveStep, StartStep, DaemonSteps DEF Next

\* It holds at first.
LEMMA InitInv == Init => Inv
<1> SUFFICES ASSUME Init PROVE Inv
  OBVIOUS
<1>1. /\ daemon \in {"none", "up"} /\ build \in {"own", "older"} /\ boot \in 0..1
      /\ starter = FALSE
  <2>1. PICK b \in Builds : /\ daemon = IF b = "none" THEN "none" ELSE "up"
                            /\ build = IF b = "older" THEN "older" ELSE "own"
                            /\ boot = IF b = "none" THEN 0 ELSE 1
    BY DEF Init
  <2>2. starter = FALSE
    BY DEF Init
  <2>3. daemon \in {"none", "up"} /\ build \in {"own", "older"} /\ boot \in 0..1
    BY <2>1
  <2> QED BY <2>2, <2>3
<1>2. ServerOK /\ RegistryOK
  <2>1. starter \in BOOLEAN
    BY <1>1
  <2>2. ServerOK
    BY <1>1, <2>1 DEF ServerOK
  <2>3. /\ made = 0 /\ byName = [n \in Names |-> 0]
        /\ kind = [i \in Agents |-> "none"] /\ exited = {} /\ attached = {}
    BY DEF Init
  <2>4. RegistryOK
    <3>1. 0 \in 0..made /\ Self \in Names
      BY <2>3, CommandsAssumption
    <3>2. \A n \in Names : byName[n] = 0
      BY <2>3
    <3>3. byName \in [Names -> 0..made] /\ byName[Self] = 0
      BY <2>3, <3>1, <3>2
    <3>4. nameOf \in [Agents -> STRING \cup {Unnamed}]
      <4>1. nameOf = [i \in Agents |-> Unnamed]
        BY DEF Init, Unnamed
      <4> QED BY <4>1
    <3>5. kind \in [Agents -> {"none", "spawned", "registered"}]
      BY <2>3
    <3>6. \A i \in Agents : kind[i] = "none"
      BY <2>3
    <3> QED BY <2>3, <3>2, <3>3, <3>4, <3>5, <3>6 DEF RegistryOK
  <2> QED BY <2>2, <2>4
<1>3. ProcessOK
  <2>1. 0 \in 0..boot
    BY <1>1
  <2>2. argv \in [Clients -> Seq(Seq(STRING))] /\ template \in [Clients -> Templates]
    BY EmptySeq DEF Init, Templates
  <2>3. /\ pc = [c \in Clients |-> "idle"] /\ command = [c \in Clients |-> NoCommand]
        /\ part = [c \in Clients |-> 1] /\ conn = [c \in Clients |-> 0] /\ met = [c \in Clients |-> 0]
        /\ reply = [c \in Clients |-> "none"] /\ outcome = [c \in Clients |-> "none"]
        /\ effects = [c \in Clients |-> {}]
    BY DEF Init
  <2> QED BY <2>1, <2>2, <2>3 DEF ProcessOK, Outcomes
<1>4. CountsOK
  <2>1. Claiming = {} /\ First = {} /\ Second = {}
    BY DEF Init, Claiming, First, Second
  <2>2. ran = 0 /\ made = 0 /\ boot \in 0..1 /\ Bit(starter) = 0
    BY <1>1 DEF Init, Bit
  <2> QED BY <2>1, <2>2, FS_EmptySet, CommandsAssumption DEF CountsOK
<1>5. ASSUME NEW c \in Clients PROVE ClientOK(c)
  <2>1. /\ pc[c] = "idle" /\ part[c] = 1 /\ command[c] = NoCommand /\ effects[c] = {} /\ argv[c] = <<>>
    BY DEF Init
  <2>2. PlaceOK(c) /\ RestartOK(c) /\ EffectsOK(c) /\ AimedOK(c)
    BY <2>1 DEF PlaceOK, RestartOK, EffectsOK, AimedOK
  <2>3. ArgvOK(c)
    BY <2>1 DEF ArgvOK, AsConfigured
  <2> QED BY <2>2, <2>3 DEF ClientOK
<1> QED BY <1>1, <1>2, <1>3, <1>4, <1>5 DEF Inv, ClientOK

\* It always holds.
LEMMA Invariant == Spec => []Inv
BY InitInv, NextInv, PTL DEF Spec

-----------------------------------------------------------------------------
(* What the invariant implies. *)

\* The counts of the invariant bound the agents and the daemons as TypeOK says.
LEMMA InvTypeOK == Inv => TypeOK
<1> SUFFICES ASSUME Inv PROVE TypeOK
  OBVIOUS
<1>1. ServerOK /\ RegistryOK /\ ProcessOK /\ made \in 0..MaxCommands /\ 1..made \subseteq Agents
  BY MadeBound DEF Inv
<1>2. boot \in Boots /\ ran \in 0..MaxCommands /\ 0..boot \subseteq Boots
  BY BootBound, CommandsAssumption DEF Boots
<1>3. /\ byName \in [Names -> {0} \cup Agents] /\ byName[Self] = 0
      /\ \A n \in Names : byName[n] # 0 => nameOf[byName[n]] = n /\ byName[n] <= made
  <2>1. byName \in [Names -> 0..made] /\ byName[Self] = 0 /\ 0..made = {0} \cup 1..made
    BY <1>1 DEF RegistryOK
  <2>2. \A n \in Names : byName[n] # 0 => nameOf[byName[n]] = n
    BY <1>1 DEF RegistryOK
  <2>3. \A n \in Names : byName[n] <= made /\ byName[n] \in {0} \cup Agents
    BY <1>1, <2>1
  <2> QED BY <2>1, <2>2, <2>3
<1>4. exited \subseteq Agents /\ attached \subseteq Agents
  BY <1>1 DEF RegistryOK
<1>5. conn \in [Clients -> Boots] /\ met \in [Clients -> Boots]
  BY <1>1, <1>2 DEF ProcessOK
<1>6. /\ daemon \in {"none", "up", "closing"} /\ build \in {"own", "older"} /\ starter \in BOOLEAN
      /\ kind \in [Agents -> {"none", "spawned", "registered"}]
  BY <1>1 DEF ServerOK, RegistryOK
<1>7. /\ pc \in [Clients -> {"idle", "start", "connect", "wait", "ask", "told", "launch",
                             "streaming", "gone?"}]
      /\ part \in [Clients -> 1..2] /\ reply \in [Clients -> {"none", "ok", "denied"}]
      /\ outcome \in [Clients -> Outcomes]
  BY <1>1 DEF ProcessOK
<1> QED BY <1>1, <1>2, <1>3, <1>4, <1>5, <1>6, <1>7 DEF TypeOK

\* How a command can end, and where it is then.
Refused(c) == pc[c] \in {"start", "connect", "wait"} /\ outcome'[c] \in {"refused", "mismatch", "nodaemon", "lost", "late"}
Denied(c)  == pc[c] = "told" /\ reply[c] # "ok" /\ outcome'[c] = "denied"
Broken(c)  == \/ pc[c] \in {"ask", "told"} /\ outcome'[c] = "lost"
              \/ pc[c] = "gone?" /\ outcome'[c] = "late"
              \/ pc[c] = "launch" /\ outcome'[c] = "exec"
Over(c) ==
  /\ outcome'[c] = "ok"
  /\ \/ pc[c] \in {"streaming", "launch"}
     \/ pc[c] = "gone?" /\ Verb(c) # "restart"
     \/ pc[c] = "ask" /\ Verb(c) = "restart" /\ part[c] = 2
     \/ /\ pc[c] = "told" /\ reply[c] = "ok" /\ Verb(c) \notin {"stop", "restart"}
        /\ ~(Verb(c) = "run" /\ part[c] = 1 /\ How(c) \in {"attach", "spawn"})
        /\ Request(c) # "attach"
        /\ ~(Verb(c) = "send" /\ How(c) = "two" /\ part[c] = 1)

\* What a finished process reports.
LEMMA Finished ==
  ASSUME Inv, NEW c \in Clients, NEW how, Finish(c, how)
  PROVE  outcome'[c] = IF Silent(c) THEN "ok" ELSE how
BY DEF Inv, ProcessOK, Finish

\* A step that takes one client to a place of its own leaves the others at theirs.
LEMMA OnlyOne ==
  ASSUME Inv, NEW c \in Clients, NEW x, NEW s, pc' = [pc EXCEPT ![x] = s],
         pc[c] # "idle", pc'[c] = "idle"
  PROVE  x = c /\ s = "idle"
BY DEF Inv, ProcessOK

\* The ends of a command, by the place it ends at: whatever step it is, its report
\* and its place fit together.
LEMMA HowItEnds ==
  ASSUME Inv, Next, NEW c \in Clients, pc[c] # "idle", pc'[c] = "idle"
  PROVE  /\ Silent(c) => outcome'[c] = "ok"
         /\ Silent(c) \/ Refused(c) \/ Denied(c) \/ Broken(c) \/ Over(c)
<1> DEFINE Ended == /\ Silent(c) => outcome'[c] = "ok"
                    /\ Silent(c) \/ Refused(c) \/ Denied(c) \/ Broken(c) \/ Over(c)
<1>1. ASSUME NEW d \in Clients, NEW how \in Outcomes, Finish(d, how)
      PROVE  d = c /\ outcome'[c] = (IF Silent(c) THEN "ok" ELSE how)
  <2>1. pc' = [pc EXCEPT ![d] = "idle"]
    BY <1>1 DEF Finish, Goto
  <2>2. d = c
    BY <2>1, OnlyOne
  <2> QED BY <1>1, <2>2, Finished
<1>2. ASSUME NEW d \in Clients, NEW s, s # "idle", Move(d, s) \/ SecondPart(d, s) \/ Goto(d, s) PROVE FALSE
  <2>1. pc' = [pc EXCEPT ![d] = s]
    BY <1>2 DEF Move, SecondPart, Goto
  <2> QED BY <1>2, <2>1, OnlyOne
<1>3. ASSUME NEW d \in Clients, ClientStep(d) PROVE Ended
  <2>1. CASE \E file \in Configs : Load(d, file)
    <3>1. PICK file \in Configs : Load(d, file)
      BY <2>1
    <3>2. pc[d] = "start"
      BY <3>1 DEF Load
    <3>3. CASE Goto(d, "connect")
      BY <1>2, <3>3
    <3>4. CASE Finish(d, "refused")
      BY <1>1, <3>2, <3>4 DEF Outcomes, Refused
    <3>5. CASE Verb(d) = "event" /\ Finish(d, "ok")
      BY <1>1, <3>5 DEF Outcomes, Silent
    <3> QED BY <3>1, <3>3, <3>4, <3>5 DEF Load
  <2>2. CASE Connect(d)
    BY <1>2, <2>2 DEF Connect
  <2>3. ASSUME NEW how \in {"mismatch", "lost", "nodaemon"}, HandshakeFails(d, how),
               pc[d] \in {"connect", "wait"}
        PROVE  Ended
    <3>1. CASE SecondPart(d, "connect")
      BY <1>2, <3>1
    <3>2. CASE Finish(d, how)
      BY <1>1, <2>3, <3>2 DEF Outcomes, Refused
    <3> QED BY <2>3, <3>1, <3>2 DEF HandshakeFails
  <2>4. CASE Mismatch(d) \/ Reset(d) \/ ConnectNoSpawn(d)
    BY <2>3, <2>4 DEF Mismatch, Reset, ConnectNoSpawn
  <2>5. CASE SpawnDaemon(d)
    BY <1>2, <2>5 DEF SpawnDaemon
  <2>6. CASE Restarted(d)
    BY <1>1, <2>6 DEF Restarted, Outcomes, Over
  <2>7. CASE Told(d)
    <3>1. pc[d] = "told"
      BY <2>7 DEF Told
    <3>2. CASE reply[d] # "ok"
      BY <1>1, <2>7, <3>1, <3>2 DEF Told, Outcomes, Denied
    <3>3. CASE reply[d] = "ok"
      <4>1. GoOn(d)
        BY <2>7, <3>3 DEF Told
      <4>2. ASSUME NEW s \in {"launch", "streaming", "gone?"}, Move(d, s) PROVE FALSE
        BY <1>2, <4>2
      <4>3. ASSUME NEW s \in {"start", "connect"}, SecondPart(d, s) PROVE FALSE
        BY <1>2, <4>3
      <4>4. /\ Finish(d, "ok") /\ ~Templated(d) /\ ~(Request(d) = "run" /\ How(d) = "attach")
            /\ Request(d) # "attach" /\ Verb(d) \notin {"stop", "restart"}
            /\ ~(Verb(d) = "send" /\ How(d) = "two" /\ part[d] = 1)
        BY <4>1, <4>2, <4>3 DEF GoOn
      <4>5. ~(Verb(d) = "run" /\ part[d] = 1 /\ How(d) \in {"attach", "spawn"})
        BY <4>4 DEF Templated, Request
      <4> QED BY <1>1, <3>1, <3>3, <4>4, <4>5 DEF Outcomes, Over
    <3> QED BY <3>2, <3>3
  <2>8. CASE Lost(d)
    BY <1>1, <2>8 DEF Lost, Outcomes, Broken
  <2>9. CASE WaitForSocketGone(d)
    <3>1. pc[d] = "gone?"
      BY <2>9 DEF WaitForSocketGone
    <3>2. CASE Verb(d) = "restart"
      BY <1>2, <2>9, <3>2 DEF WaitForSocketGone
    <3>3. CASE Verb(d) # "restart"
      BY <1>1, <2>9, <3>1, <3>3 DEF WaitForSocketGone, Outcomes, Over
    <3> QED BY <3>2, <3>3
  <2>10. CASE \E found \in BOOLEAN : Launch(d, found)
    <3>1. pc[d] = "launch" /\ (Finish(d, "ok") \/ Finish(d, "exec"))
      BY <2>10 DEF Launch
    <3> QED BY <1>1, <3>1 DEF Outcomes, Over, Broken
  <2> QED BY <1>3, <2>1, <2>2, <2>4, <2>5, <2>6, <2>7, <2>8, <2>9, <2>10 DEF ClientStep
<1>4. ASSUME NEW d \in Clients, GiveUp(d) PROVE Ended
  <2>1. pc[d] \in {"wait", "gone?"} /\ Finish(d, "late") /\ "late" \in Outcomes
    BY <1>4 DEF GiveUp, Outcomes
  <2>2. d = c /\ outcome'[c] = (IF Silent(c) THEN "ok" ELSE "late")
    BY <1>1, <2>1
  <2>3. CASE Silent(c)
    BY <2>2, <2>3
  <2>4. CASE ~Silent(c)
    <3>1. pc[c] \in {"wait", "gone?"} /\ outcome'[c] = "late"
      BY <2>1, <2>2, <2>4
    <3>2. Refused(c) \/ Broken(c)
      BY <3>1 DEF Refused, Broken
    <3> QED BY <2>4, <3>2
  <2> QED BY <2>3, <2>4
<1>5. ASSUME NEW d \in Clients, Leave(d) PROVE Ended
  BY <1>1, <1>5 DEF Leave, Outcomes, Over
<1>6. ASSUME NEW d \in Clients, NEW cmd \in Commands, Start(d, cmd) PROVE FALSE
  BY <1>2, <1>6 DEF Start
<1>7. UNCHANGED process => FALSE
  BY DEF process
<1>8. ASSUME DaemonUp \/ DaemonLeaves \/ Exit \/ \E i \in Agents : AgentExits(i) PROVE FALSE
  BY <1>7, <1>8 DEF DaemonUp, DaemonLeaves, Exit, AgentExits
<1>9. ASSUME NEW d \in Clients, Serve(d) PROVE FALSE
  <2>1. ASSUME NEW what, NEW done, Answer(d, what, done) PROVE FALSE
    BY <1>2, <2>1 DEF Answer
  <2> QED BY <1>9, <2>1 DEF Serve, Claim, Register, ClaimDenied, ClaimStrands, Deny, Rm, RmDenied,
          Clean, Look, LookDenied, Send, SendDenied, SendFails, Event, Attach, AttachDenied,
          Shutdown, ShutdownDenied
<1> HIDE DEF Ended
<1>10. PICK d \in Clients : \/ ClientStep(d) \/ GiveUp(d) \/ Leave(d)
                         \/ \E cmd \in Commands : Start(d, cmd)
  BY <1>8, <1>9 DEF Next
<1>11. Ended
  <2>1. ~\E cmd \in Commands : Start(d, cmd)
    BY <1>6
  <2> QED BY <1>3, <1>4, <1>5, <1>10, <2>1
<1> QED BY <1>11 DEF Ended

\* Every variable keeps its type; the registry maps a name to an agent of that name,
\* and never "self" (validate_agent_name); a command makes at most one agent and
\* starts at most two daemons, so MaxCommands bounds both (client/*.rs).
THEOREM TypeCorrect == Spec => []TypeOK
BY Invariant, InvTypeOK, PTL

\* An end is a step of the specification.
LEMMA EndIsAStep ==
  ASSUME Inv, [Next]_vars, NEW c \in Clients, pc[c] # "idle", pc'[c] = "idle"
  PROVE  Next
BY DEF vars, process

\* `daemon restart` (client/daemon.rs, restart) reports success only when the daemon
\* it ends up connected to came up after the one it found, however many clients
\* stop, start and kill daemons meanwhile.
THEOREM RestartsReplace == Spec => RestartReplaces
<1> DEFINE Replaced(c) == Verb(c) = "restart" /\ Ends(c, {"ok"}) => conn[c] > met[c]
<1>1. ASSUME Inv, [Next]_vars, NEW c \in Clients PROVE Replaced(c)
  <2>1. SUFFICES ASSUME Verb(c) = "restart", Ends(c, {"ok"}) PROVE conn[c] > met[c]
    OBVIOUS
  <2>2. pc[c] # "idle" /\ pc'[c] = "idle" /\ outcome'[c] = "ok"
    BY <2>1 DEF Ends
  <2>3. Over(c)
    <3>1. ~Silent(c)
      BY <2>1 DEF Silent
    <3>2. Next
      BY <1>1, <2>2, EndIsAStep
    <3>3. ~Refused(c) /\ ~Denied(c) /\ ~Broken(c)
      BY <2>2 DEF Refused, Denied, Broken
    <3> QED BY <1>1, <2>2, <3>1, <3>2, <3>3, HowItEnds
  <2>4. PlaceOK(c) /\ RestartOK(c)
    BY <1>1 DEF Inv
  <2>5. pc[c] \notin {"streaming", "launch"}
    BY <2>1, <2>4 DEF PlaceOK, Templated, Request
  <2>6. pc[c] = "ask" /\ part[c] = 2
    BY <2>1, <2>3, <2>5 DEF Over
  <2> QED BY <2>1, <2>4, <2>6 DEF RestartOK
<1>2. Inv /\ [Next]_vars => [\A c \in Clients : Replaced(c)]_vars
  BY <1>1
<1> QED BY <1>2, Invariant, PTL DEF Spec, RestartReplaces

\* The kinds of the effects, and how many, when there is one,
LEMMA OneKind ==
  ASSUME NEW S, NEW e, S = {e}
  PROVE  {x[1] : x \in S} = {e[1]} /\ Cardinality(S) = 1
BY FS_Singleton

\* ... of a pair,
LEMMA PairCounts ==
  ASSUME NEW e, NEW f, e # f
  PROVE  Cardinality({e, f}) = 2
<1>1. IsFiniteSet({f}) /\ Cardinality({f}) = 1 /\ {e, f} = {f} \cup {e}
  BY FS_Singleton
<1>2. Cardinality({e, f}) = 1 + 1
  BY <1>1, FS_AddElement
<1> QED BY <1>2

\* ... when there are two,
LEMMA TwoKinds ==
  ASSUME NEW S, NEW e, NEW f, S = {e, f}, e # f
  PROVE  {x[1] : x \in S} = {e[1], f[1]} /\ Cardinality(S) = 2
BY PairCounts

\* ... and none.
LEMMA NoKinds ==
  ASSUME NEW S, S = {}
  PROVE  {x[1] : x \in S} = {} /\ Cardinality(S) = 0
BY FS_EmptySet

\* At every place where a command can end well, all it promises has been done, once.
LEMMA KeptAtTheEnd ==
  ASSUME Inv, NEW c \in Clients, pc[c] # "idle",
         Verb(c) \notin {"restart", "event", "clean"},
         Over(c) \/ Verb(c) = "complete"
  PROVE  Kept(c)
<1>1. PlaceOK(c) /\ EffectsOK(c) /\ ArgvOK(c) /\ part[c] \in 1..2 /\ command[c] \in Commands
  BY DEF Inv, ProcessOK, PlaceOK
<1>2. Verb(c) \in Verbs /\ How(c) \in HowsOf(Verb(c))
  BY <1>1, CommandsAssumption DEF Verb, How
<1>3. How(c) = "two" => Verb(c) = "send"
  BY <1>2 DEF HowsOf
<1>4. How(c) = "spawn" => Verb(c) = "run"
  BY <1>2 DEF HowsOf
<1>5. ASSUME Verb(c) # "send", NEW k, Promise(c) = {k}, NEW e, effects[c] = {e}, e[1] = k,
             How(c) = "spawn" => argv[c] # <<>>
      PROVE  Kept(c)
  <2>1. {x[1] : x \in effects[c]} = {k} /\ Cardinality(effects[c]) = 1
    BY <1>5, OneKind
  <2>2. Cardinality(Promise(c)) = 1
    BY <1>5, FS_Singleton
  <2> QED BY <1>3, <1>5, <2>1, <2>2 DEF Kept
<1>6. CASE Verb(c) \in {"ls", "complete", "view", "cwd"}
  <2>1. part[c] = 1
    BY <1>1, <1>6 DEF PlaceOK
  <2>2. effects[c] = {}
    <3>1. pc[c] # "gone?"
      BY <1>1, <1>6 DEF PlaceOK
    <3>2. FirstDone(c) => effects[c] = {}
      BY <1>6 DEF FirstDone
    <3>3. pc[c] \in {"idle", "start", "connect", "wait", "ask", "told", "launch", "streaming", "gone?"}
      BY DEF Inv, ProcessOK
    <3>4. RefusedFirst(c) => effects[c] = {}
      BY <1>6 DEF RefusedFirst
    <3> QED BY <1>1, <2>1, <3>1, <3>2, <3>3, <3>4 DEF EffectsOK
  <2>3. Promise(c) = {}
    BY <1>6 DEF Promise
  <2> QED BY <1>3, <1>4, <1>6, <2>2, <2>3, NoKinds DEF Kept
<1>7. ASSUME Over(c), Verb(c) \notin {"ls", "complete", "view", "cwd"} PROVE Kept(c)
  <2>1. \/ pc[c] = "streaming" \/ pc[c] = "launch" \/ pc[c] = "gone?"
        \/ pc[c] = "told" /\ reply[c] = "ok"
    BY <1>7 DEF Over
  <2>2. (part[c] = 1 => FirstDone(c)) /\ (part[c] = 2 => BothDone(c))
    BY <1>1, <1>7, <2>1 DEF EffectsOK, PlaceOK, Over, Request, Templated
  <2>3. CASE Verb(c) = "run" /\ part[c] = 1
    <3>1. How(c) # "attach"
      BY <1>1, <1>7, <2>3 DEF PlaceOK, Over, Request, Templated
    <3>2. Promise(c) = {"claim"}
      BY <2>3, <3>1 DEF Promise
    <3>3. How(c) = "spawn" => argv[c] # <<>>
      BY <1>1, <2>1, <2>3 DEF ArgvOK
    <3>4. PICK i \in Agents : effects[c] = {<<"claim", i>>}
      BY <2>2, <2>3 DEF FirstDone
    <3> QED BY <1>5, <2>3, <3>2, <3>3, <3>4
  <2>4. CASE Verb(c) = "run" /\ part[c] = 2
    <3>1. How(c) = "attach"
      BY <1>1, <2>4 DEF PlaceOK
    <3>2. Promise(c) = {"claim", "attach"}
      BY <2>4, <3>1 DEF Promise
    <3>3. PICK i, j \in Agents : effects[c] = {<<"claim", i>>, <<"attach", j>>}
      BY <2>2, <2>4 DEF BothDone
    <3>4. {x[1] : x \in effects[c]} = {"claim", "attach"} /\ Cardinality(effects[c]) = 2
      BY <3>3, TwoKinds
    <3>5. Cardinality(Promise(c)) = 2
      <4>1. "claim" # "attach"
        OBVIOUS
      <4>2. Cardinality({"claim", "attach"}) = 2
        BY <4>1, PairCounts
      <4> QED BY <3>2, <4>2
    <3> QED BY <1>3, <2>4, <3>1, <3>2, <3>4, <3>5 DEF Kept
  <2>5. CASE Verb(c) = "send" /\ part[c] = 1
    <3>1. How(c) # "two"
      BY <1>1, <1>7, <2>5 DEF PlaceOK, Over, Request, Templated
    <3>2. Promise(c) = {"write"} /\ Cardinality(Promise(c)) = 1
      BY <2>5, FS_Singleton DEF Promise
    <3>3. PICK i \in Agents : effects[c] = {<<"write", i, 1>>}
      BY <2>2, <2>5 DEF FirstDone
    <3>4. {x[1] : x \in effects[c]} = {"write"} /\ Cardinality(effects[c]) = 1
      BY <3>3, OneKind
    <3> QED BY <1>4, <2>5, <3>1, <3>2, <3>4 DEF Kept
  <2>6. CASE Verb(c) = "send" /\ part[c] = 2
    <3>1. How(c) = "two"
      BY <1>1, <2>6 DEF PlaceOK
    <3>2. Promise(c) = {"write"} /\ Cardinality(Promise(c)) = 1
      BY <2>6, FS_Singleton DEF Promise
    <3>3. PICK i, j \in Agents : effects[c] = {<<"write", i, 1>>, <<"write", j, 2>>}
      BY <2>2, <2>6 DEF BothDone
    <3>4. {x[1] : x \in effects[c]} = {"write"} /\ Cardinality(effects[c]) = 2
      BY <3>3, TwoKinds
    <3> QED BY <1>4, <2>6, <3>1, <3>2, <3>4 DEF Kept
  <2>7. CASE Verb(c) \in {"register", "rm", "attach", "stop"}
    <3>1. part[c] = 1 /\ How(c) # "spawn"
      BY <1>1, <1>4, <2>7 DEF PlaceOK
    <3>2. CASE Verb(c) = "register"
      <4>1. Promise(c) = {"claim"} /\ \E i \in Agents : effects[c] = {<<"claim", i>>}
        BY <2>2, <3>1, <3>2 DEF Promise, FirstDone
      <4> QED BY <1>5, <2>7, <3>1, <4>1
    <3>3. CASE Verb(c) = "rm"
      <4>1. Promise(c) = {"remove"} /\ \E i \in Agents : effects[c] = {<<"remove", i>>}
        BY <2>2, <3>1, <3>3 DEF Promise, FirstDone
      <4> QED BY <1>5, <2>7, <3>1, <4>1
    <3>4. CASE Verb(c) = "attach"
      <4>1. Promise(c) = {"attach"} /\ \E i \in Agents : effects[c] = {<<"attach", i>>}
        BY <2>2, <3>1, <3>4 DEF Promise, FirstDone
      <4> QED BY <1>5, <2>7, <3>1, <4>1
    <3>5. CASE Verb(c) = "stop"
      <4>1. Promise(c) = {"shutdown"} /\ \E b \in Boots : effects[c] = {<<"shutdown", b>>}
        BY <2>2, <3>1, <3>5 DEF Promise, FirstDone
      <4> QED BY <1>5, <2>7, <3>1, <4>1
    <3> QED BY <2>7, <3>2, <3>3, <3>4, <3>5
  <2> QED BY <1>1, <1>2, <1>7, <2>3, <2>4, <2>5, <2>6, <2>7 DEF Verbs
<1> QED BY <1>6, <1>7

\* No traces among deeds of a whole request.
LEMMA NoTraces ==
  ASSUME NEW c \in Clients, \A e \in effects[c] : e[1] \notin {"fork", "part"}
  PROVE  Traces(c) = {} /\ Deeds(c) = effects[c]
BY DEF Traces, Deeds

\* The first half of a command that has two has done one thing.
LEMMA OneDeed ==
  ASSUME NEW c \in Clients, FirstDone(c), Verb(c) \in {"run", "send"}
  PROVE  Traces(c) = {} /\ Cardinality(Deeds(c)) = 1 /\ Cardinality(effects[c]) = 1
<1>1. CASE Verb(c) = "run"
  <2>1. PICK i \in Agents : effects[c] = {<<"claim", i>>}
    BY <1>1 DEF FirstDone
  <2>2. Traces(c) = {} /\ Deeds(c) = effects[c]
    BY <2>1, NoTraces
  <2> QED BY <2>1, <2>2, FS_Singleton
<1>2. CASE Verb(c) = "send"
  <2>1. PICK i \in Agents : effects[c] = {<<"write", i, 1>>}
    BY <1>2 DEF FirstDone
  <2>2. Traces(c) = {} /\ Deeds(c) = effects[c]
    BY <2>1, NoTraces
  <2> QED BY <2>1, <2>2, FS_Singleton
<1> QED BY <1>1, <1>2

\* Nothing has been done.
LEMMA NoDeed ==
  ASSUME NEW c \in Clients, effects[c] = {}
  PROVE  Traces(c) = {} /\ Cardinality(Deeds(c)) = 0 /\ Cardinality(effects[c]) = 0
BY NoKinds, NoTraces

\* Before a request is answered, what is done is the half before it.
LEMMA BeforeItIsAnswered ==
  ASSUME Inv, NEW c \in Clients, pc[c] \in {"start", "connect", "wait", "ask"},
         Verb(c) # "restart"
  PROVE  /\ Cardinality(Deeds(c)) = part[c] - 1 /\ Traces(c) = {}
         /\ Cardinality(effects[c]) = part[c] - 1
<1>1. PlaceOK(c) /\ EffectsOK(c) /\ part[c] \in 1..2
  BY DEF Inv, ProcessOK
<1>2. CASE part[c] = 1
  BY <1>1, <1>2, NoDeed DEF EffectsOK
<1>3. CASE part[c] = 2
  <2>1. FirstDone(c) /\ Verb(c) \in {"run", "send"}
    BY <1>1, <1>3 DEF EffectsOK, PlaceOK
  <2> QED BY <1>3, <2>1, OneDeed
<1> QED BY <1>1, <1>2, <1>3

\* A request that is refused adds at most a trace.
LEMMA WhenItIsRefused ==
  ASSUME Inv, NEW c \in Clients, pc[c] = "told", reply[c] # "ok"
  PROVE  /\ Cardinality(Deeds(c)) = part[c] - 1 /\ Cardinality(Traces(c)) <= 1
         /\ Cardinality(effects[c]) \in {part[c] - 1, part[c]}
<1>1. PlaceOK(c) /\ EffectsOK(c) /\ part[c] \in 1..2
  BY DEF Inv, ProcessOK
<1>2. Cardinality({}) = 0
  BY FS_EmptySet
<1>3. (part[c] = 1 => RefusedFirst(c)) /\ (part[c] = 2 => RefusedSecond(c))
  BY <1>1 DEF EffectsOK
<1>4. CASE part[c] = 1
  <2>1. ASSUME NEW e, effects[c] = {e}, e[1] \in {"fork", "part"}
        PROVE  Traces(c) = {e} /\ Deeds(c) = {} /\ Cardinality(effects[c]) = 1
    BY <2>1, OneKind DEF Traces, Deeds
  <2>2. CASE effects[c] = {}
    BY <1>2, <1>4, <2>2, NoDeed
  <2>3. ASSUME NEW i \in Agents, effects[c] = {<<"fork", i>>} \/ effects[c] = {<<"part", i, 1>>}
        PROVE  /\ Cardinality(Deeds(c)) = 0 /\ Cardinality(Traces(c)) = 1
               /\ Cardinality(effects[c]) = 1
    BY <1>2, <2>1, <2>3, FS_Singleton
  <2> QED BY <1>3, <1>4, <2>2, <2>3 DEF RefusedFirst
<1>5. CASE part[c] = 2
  <2>1. Verb(c) \in {"run", "send"}
    BY <1>1, <1>5 DEF PlaceOK
  <2>2. CASE FirstDone(c)
    BY <1>2, <1>5, <2>1, <2>2, OneDeed
  <2>3. ASSUME NEW i \in Agents, NEW j \in Agents,
               effects[c] = {<<"write", i, 1>>, <<"part", j, 2>>}
        PROVE  /\ Cardinality(Deeds(c)) = 1 /\ Cardinality(Traces(c)) = 1
               /\ Cardinality(effects[c]) = 2
    <3>1. Traces(c) = {<<"part", j, 2>>} /\ Deeds(c) = {<<"write", i, 1>>}
      BY <2>3 DEF Traces, Deeds
    <3> DEFINE e == <<"write", i, 1>>
               f == <<"part", j, 2>>
    <3>2. effects[c] = {e, f} /\ e # f
      BY <2>3
    <3>3. Cardinality(Deeds(c)) = 1 /\ Cardinality(Traces(c)) = 1
      BY <3>1, FS_Singleton
    <3> HIDE DEF e, f
    <3>4. Cardinality({e, f}) = 2
      BY <3>2, PairCounts
    <3> QED BY <3>2, <3>3, <3>4
  <2> QED BY <1>3, <1>5, <2>2, <2>3 DEF RefusedSecond
<1> QED BY <1>1, <1>4, <1>5

\* A request that was done adds one deed, or is one that only looks.
LEMMA WhenItIsDone ==
  ASSUME Inv, NEW c \in Clients, pc[c] = "told", reply[c] = "ok",
         Verb(c) \notin {"restart", "clean", "event"}
  PROVE  Cardinality(effects[c]) \in {part[c] - 1, part[c]}
<1>1. PlaceOK(c) /\ EffectsOK(c) /\ part[c] \in 1..2 /\ command[c] \in Commands
  BY DEF Inv, ProcessOK, PlaceOK
<1>2. Verb(c) \in Verbs
  BY <1>1, CommandsAssumption DEF Verb
<1>3. CASE part[c] = 1
  <2>1. FirstDone(c)
    BY <1>1, <1>3 DEF EffectsOK
  <2>2. effects[c] = {} \/ \E e : effects[c] = {e}
    BY <1>2, <2>1 DEF FirstDone, Verbs
  <2>3. CASE effects[c] = {}
    BY <1>3, <2>3, NoDeed
  <2>4. ASSUME NEW e, effects[c] = {e} PROVE Cardinality(effects[c]) = 1
    BY <2>4, OneKind
  <2> QED BY <1>3, <2>2, <2>3, <2>4
<1>4. CASE part[c] = 2
  <2>1. BothDone(c) /\ Verb(c) \in {"run", "send"}
    BY <1>1, <1>4 DEF EffectsOK, PlaceOK
  <2>2. CASE Verb(c) = "run"
    <3>1. PICK i, j \in Agents : effects[c] = {<<"claim", i>>, <<"attach", j>>}
      BY <2>1, <2>2 DEF BothDone
    <3> DEFINE e == <<"claim", i>>
               f == <<"attach", j>>
    <3>2. effects[c] = {e, f} /\ e # f
      BY <3>1
    <3> HIDE DEF e, f
    <3>3. Cardinality({e, f}) = 2
      BY <3>2, PairCounts
    <3> QED BY <1>4, <3>2, <3>3
  <2>3. CASE Verb(c) = "send"
    <3>1. PICK i, j \in Agents : effects[c] = {<<"write", i, 1>>, <<"write", j, 2>>}
      BY <2>1, <2>3 DEF BothDone
    <3> DEFINE e == <<"write", i, 1>>
               f == <<"write", j, 2>>
    <3>2. effects[c] = {e, f} /\ e # f
      BY <3>1
    <3> HIDE DEF e, f
    <3>3. Cardinality({e, f}) = 2
      BY <3>2, PairCounts
    <3> QED BY <1>4, <3>2, <3>3
  <2> QED BY <2>1, <2>2, <2>3
<1> QED BY <1>1, <1>3, <1>4

\* Whoever starts the [spawn] command has made the agent and done nothing else.
LEMMA AtLaunch ==
  ASSUME Inv, NEW c \in Clients, pc[c] = "launch"
  PROVE  {e[1] : e \in effects[c]} = {"claim"}
<1>1. PlaceOK(c) /\ EffectsOK(c) /\ part[c] \in 1..2
  BY DEF Inv, ProcessOK
<1>2. Verb(c) = "run" /\ part[c] = 1
  BY <1>1 DEF PlaceOK, Templated, Request
<1>3. PICK i \in Agents : effects[c] = {<<"claim", i>>}
  BY <1>1, <1>2 DEF EffectsOK, FirstDone
<1> QED BY <1>3, OneKind

\* What a command reports is what was done (client/*.rs, run.rs; server.rs), for any
\* number of commands at once, whatever daemons come and go between their requests.
\* Success: all that it promises, once, on agents of its name, with the [spawn]
\* command that the loaded template gives.  A refusal: the half that was refused has
\* left at most a trace, a process without an entry or a piece of the text.  A
\* request that was not asked: not even that.  A daemon that was lost: this request
\* was carried out once, or not at all.
THEOREM WhatIsReportedIsDone == Spec => ReportsAreTrue
<1> DEFINE Right(c) == AsConfigured(c) /\ \A e \in effects[c] : Aimed(c, e)
           KeptIt(c) == Ends(c, {"ok"}) /\ Verb(c) \notin {"restart", "event", "clean"} => Kept(c)
           Traced(c) == Ends(c, {"denied"}) =>
             Cardinality(Deeds(c)) = part[c] - 1 /\ Cardinality(Traces(c)) <= 1
           Unasked(c) == Ends(c, {"refused", "nodaemon", "mismatch"}) /\ Verb(c) # "restart" =>
             Cardinality(Deeds(c)) = part[c] - 1 /\ Traces(c) = {}
           Unanswered(c) == Ends(c, {"late"}) /\ Verb(c) \notin {"stop", "restart"} =>
             Cardinality(Deeds(c)) = part[c] - 1 /\ Traces(c) = {}
           Claimed(c) == Ends(c, {"exec"}) => {e[1] : e \in effects[c]} = {"claim"}
           Once(c) == Ends(c, {"lost"}) /\ Verb(c) \notin {"restart", "clean"} =>
             Cardinality(effects[c]) \in {part[c] - 1, part[c]}
           Reported(c) == /\ KeptIt(c) /\ Traced(c) /\ Unasked(c) /\ Unanswered(c)
                          /\ Claimed(c) /\ Once(c)
<1>1. ASSUME Inv, NEW c \in Clients PROVE Right(c)
  <2>1. AsConfigured(c) /\ AimedOK(c) /\ effects[c] \subseteq Effects
    BY <1>1 DEF Inv, ArgvOK, ProcessOK
  <2>2. ASSUME NEW e \in effects[c] PROVE Aimed(c, e)
    BY <2>1 DEF AimedOK, Aimed
  <2> QED BY <2>1, <2>2
<1>2. ASSUME Inv, [Next]_vars, NEW c \in Clients PROVE Reported(c)
  <2>1. ASSUME NEW how, Ends(c, how)
        PROVE  /\ pc[c] # "idle" /\ outcome'[c] \in how
               /\ Silent(c) => outcome'[c] = "ok"
               /\ Silent(c) \/ Refused(c) \/ Denied(c) \/ Broken(c) \/ Over(c)
    BY <1>2, <2>1, HowItEnds, EndIsAStep DEF Ends
  <2>2. KeptIt(c)
    <3>1. SUFFICES ASSUME Ends(c, {"ok"}), Verb(c) \notin {"restart", "event", "clean"}
                   PROVE  Kept(c)
      OBVIOUS
    <3>2. pc[c] # "idle" /\ (Silent(c) \/ Over(c))
      BY <2>1, <3>1 DEF Refused, Denied, Broken
    <3> QED BY <1>2, <3>1, <3>2, KeptAtTheEnd DEF Silent
  <2>3. Traced(c)
    <3>1. SUFFICES ASSUME Ends(c, {"denied"})
                   PROVE  Cardinality(Deeds(c)) = part[c] - 1 /\ Cardinality(Traces(c)) <= 1
      OBVIOUS
    <3>2. Denied(c)
      BY <2>1, <3>1 DEF Refused, Broken, Over
    <3> QED BY <1>2, <3>2, WhenItIsRefused DEF Denied
  <2>4. Unasked(c)
    <3>1. SUFFICES ASSUME Ends(c, {"refused", "nodaemon", "mismatch"}), Verb(c) # "restart"
                   PROVE  Cardinality(Deeds(c)) = part[c] - 1 /\ Traces(c) = {}
      OBVIOUS
    <3>2. Refused(c)
      BY <2>1, <3>1 DEF Denied, Broken, Over
    <3> QED BY <1>2, <3>1, <3>2, BeforeItIsAnswered DEF Refused
  <2>5. Unanswered(c)
    <3>1. SUFFICES ASSUME Ends(c, {"late"}), Verb(c) \notin {"stop", "restart"}
                   PROVE  Cardinality(Deeds(c)) = part[c] - 1 /\ Traces(c) = {}
      OBVIOUS
    <3>2. PlaceOK(c)
      BY <1>2 DEF Inv
    <3>3. Refused(c)
      BY <2>1, <3>1, <3>2 DEF Denied, Broken, Over, PlaceOK
    <3> QED BY <1>2, <3>1, <3>3, BeforeItIsAnswered DEF Refused
  <2>6. Claimed(c)
    <3>1. SUFFICES ASSUME Ends(c, {"exec"}) PROVE {e[1] : e \in effects[c]} = {"claim"}
      OBVIOUS
    <3>2. pc[c] = "launch"
      BY <2>1, <3>1 DEF Refused, Denied, Broken, Over
    <3> QED BY <1>2, <3>2, AtLaunch
  <2>7. Once(c)
    <3>1. SUFFICES ASSUME Ends(c, {"lost"}), Verb(c) \notin {"restart", "clean"}
                   PROVE  Cardinality(effects[c]) \in {part[c] - 1, part[c]}
      OBVIOUS
    <3>2. pc[c] \in {"start", "connect", "wait", "ask", "told"} /\ ~Silent(c)
      BY <2>1, <3>1 DEF Refused, Denied, Broken, Over
    <3>3. CASE pc[c] # "told"
      BY <1>2, <3>1, <3>2, <3>3, BeforeItIsAnswered
    <3>4. CASE pc[c] = "told" /\ reply[c] # "ok"
      BY <1>2, <3>4, WhenItIsRefused
    <3>5. CASE pc[c] = "told" /\ reply[c] = "ok"
      <4>1. Verb(c) # "event"
        BY <3>2 DEF Silent
      <4> QED BY <1>2, <3>1, <3>5, <4>1, WhenItIsDone
    <3> QED BY <3>2, <3>3, <3>4, <3>5
  <2> HIDE DEF KeptIt, Traced, Unasked, Unanswered, Claimed, Once
  <2> QED BY <2>2, <2>3, <2>4, <2>5, <2>6, <2>7
<1> HIDE DEF Right, Reported
<1>3. Inv /\ [Next]_vars => [\A c \in Clients : Right(c) /\ Reported(c)]_vars
  BY <1>1, <1>2
<1>4. (\A c \in Clients : Right(c) /\ Reported(c))
      <=> \A c \in Clients :
            /\ AsConfigured(c) /\ \A e \in effects[c] : Aimed(c, e)
            /\ Ends(c, {"ok"}) /\ Verb(c) \notin {"restart", "event", "clean"} => Kept(c)
            /\ Ends(c, {"denied"}) =>
                 Cardinality(Deeds(c)) = part[c] - 1 /\ Cardinality(Traces(c)) <= 1
            /\ Ends(c, {"refused", "nodaemon", "mismatch"}) /\ Verb(c) # "restart" =>
                 Cardinality(Deeds(c)) = part[c] - 1 /\ Traces(c) = {}
            /\ Ends(c, {"late"}) /\ Verb(c) \notin {"stop", "restart"} =>
                 Cardinality(Deeds(c)) = part[c] - 1 /\ Traces(c) = {}
            /\ Ends(c, {"exec"}) => {e[1] : e \in effects[c]} = {"claim"}
            /\ Ends(c, {"lost"}) /\ Verb(c) \notin {"restart", "clean"} =>
                 Cardinality(effects[c]) \in {part[c] - 1, part[c]}
  BY DEF Right, Reported
<1> QED BY <1>3, <1>4, Invariant, PTL DEF Spec, ReportsAreTrue

=============================================================================

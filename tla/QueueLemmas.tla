----------------------------- MODULE QueueLemmas -----------------------------
(***************************************************************************)
(* Facts about first-in first-out queues written as sequences, used for    *)
(* the task queue of the pool and the completion vector of the loop, about *)
(* buffers that hold a stretch of a stream, about how many threads are in  *)
(* a given state, and induction and recursion - over the natural numbers,  *)
(* over texts by their size - in a form that has sets for predicates.      *)
(***************************************************************************)
EXTENDS Naturals, Sequences, FiniteSets, SequenceTheorems, FiniteSetTheorems,
        WellFoundedInduction, FiniteSetsExt, TLAPS

\* Appending to the second half of a sequence is appending to the whole: what
\* `push` does to a queue, seen from its history.
LEMMA AppendRight ==
  ASSUME NEW S, NEW s \in Seq(S), NEW t \in Seq(S), NEW e \in S
  PROVE  s \o Append(t, e) = Append(s \o t, e)
<1>1. <<e>> \in Seq(S)
  OBVIOUS
<1>2. Append(t, e) = t \o <<e>>
  BY AppendIsConcat
<1>3. s \o t \in Seq(S)
  BY ConcatProperties
<1>4. Append(s \o t, e) = (s \o t) \o <<e>>
  BY <1>3, AppendIsConcat
<1>5. QED
  BY <1>1, <1>2, <1>4, ConcatAssociative

\* Moving the head of a queue to the end of what was taken before leaves the
\* whole unchanged: what `pop` does to a queue, seen from its history.
LEMMA MoveHead ==
  ASSUME NEW S, NEW s \in Seq(S), NEW t \in Seq(S), t # <<>>
  PROVE  Append(s, Head(t)) \o Tail(t) = s \o t
<1>1. Head(t) \in S /\ Tail(t) \in Seq(S) /\ <<Head(t)>> \in Seq(S)
  BY HeadTailProperties
<1>2. t = <<Head(t)>> \o Tail(t)
  <2>1. /\ Len(t) \in Nat \ {0}
        /\ Len(Tail(t)) = Len(t) - 1
        /\ \A i \in 1 .. Len(Tail(t)) : Tail(t)[i] = t[i + 1]
    BY EmptySeq, HeadTailProperties
  <2>2. /\ <<Head(t)>> \o Tail(t) \in Seq(S)
        /\ Len(<<Head(t)>> \o Tail(t)) = 1 + Len(Tail(t))
        /\ \A i \in 1 .. 1 + Len(Tail(t)) : (<<Head(t)>> \o Tail(t))[i] =
              IF i <= 1 THEN Head(t) ELSE Tail(t)[i - 1]
    BY <1>1, ConcatProperties
  <2>3. \A i \in 1 .. Len(t) : t[i] = (<<Head(t)>> \o Tail(t))[i]
    BY <2>1, <2>2
  <2>4. QED
    BY <2>1, <2>2, <2>3, SeqEqual
<1>3. Append(s, Head(t)) = s \o <<Head(t)>>
  BY <1>1, AppendIsConcat
<1>4. QED
  BY <1>1, <1>2, <1>3, ConcatAssociative

\* An element of a sequence is in it after an append, and so is the new one.
LEMMA RangeOfAppend ==
  ASSUME NEW S, NEW s \in Seq(S), NEW e \in S
  PROVE  {Append(s, e)[i] : i \in DOMAIN Append(s, e)} = {s[i] : i \in DOMAIN s} \cup {e}
<1> DEFINE a == Append(s, e)
<1>1. /\ DOMAIN s = 1 .. Len(s)
      /\ DOMAIN a = 1 .. Len(s) + 1
      /\ Len(s) \in Nat
  BY AppendProperties, LenProperties
<1>2. /\ \A i \in 1 .. Len(s) : a[i] = s[i]
      /\ a[Len(s) + 1] = e
  BY AppendProperties
<1> HIDE DEF a
<1>3. {a[i] : i \in 1 .. Len(s) + 1} = {s[i] : i \in 1 .. Len(s)} \cup {e}
  BY <1>1, <1>2
<1>4. QED
  BY <1>1, <1>3 DEF a

-----------------------------------------------------------------------------
(* A buffer b that holds a stretch of a stream t, from behind t[k] on.      *)

LEMMA Stretch ==
  ASSUME NEW S, NEW t \in Seq(S), NEW k \in Nat, NEW q \in Nat, k <= q, q <= Len(t)
  PROVE  /\ SubSeq(t, k + 1, q) \in Seq(S) /\ Len(SubSeq(t, k + 1, q)) = q - k
         /\ \A i \in 1 .. q - k : SubSeq(t, k + 1, q)[i] = t[k + i]
<1> DEFINE m == SubSeq(t, k + 1, q)
<1>1. \A i \in k + 1 .. q : t[i] \in S
  <2>1. \A i \in k + 1 .. q : i \in 1 .. Len(t)
    BY LenProperties
  <2> QED
    BY <2>1, ElementOfSeq
<1>2. /\ m \in Seq(S) /\ Len(m) = IF k + 1 <= q THEN q - (k + 1) + 1 ELSE 0
      /\ \A i \in 1 .. q - (k + 1) + 1 : m[i] = t[(k + 1) + i - 1]
  BY <1>1, SubSeqProperties
<1>3. q - (k + 1) + 1 = q - k /\ \A i \in Nat : (k + 1) + i - 1 = k + i
  OBVIOUS
<1> HIDE DEF m
<1>4. \A i \in 1 .. q - k : m[i] = t[k + i]
  <2> SUFFICES ASSUME NEW i \in 1 .. q - k PROVE m[i] = t[k + i]
    OBVIOUS
  <2>1. m[i] = t[(k + 1) + i - 1]
    BY <1>2, <1>3
  <2>2. (k + 1) + i - 1 = k + i
    OBVIOUS
  <2> QED
    BY <2>1, <2>2
<1> QED
  BY <1>2, <1>3, <1>4 DEF m

\* The stretch that follows is appended.
LEMMA StretchGrows ==
  ASSUME NEW S, NEW t \in Seq(S), NEW b \in Seq(S), NEW k \in Nat, NEW r \in Nat, NEW q \in Nat,
         r = k + Len(b), r <= q, q <= Len(t), \A i \in 1 .. Len(b) : b[i] = t[k + i],
         NEW d, d = b \o SubSeq(t, r + 1, q)
  PROVE  /\ d \in Seq(S) /\ Len(d) = q - k
         /\ \A i \in 1 .. Len(d) : d[i] = t[k + i]
         /\ \A i \in 1 .. Len(b) : i \in 1 .. Len(d) /\ d[i] = b[i]
<1> DEFINE m == SubSeq(t, r + 1, q)
           n == Len(b)
<1>1. m \in Seq(S) /\ Len(m) = q - r /\ \A i \in 1 .. q - r : m[i] = t[r + i]
  BY Stretch
<1>2. d \in Seq(S) /\ Len(d) = n + Len(m)
      /\ \A i \in 1 .. n + Len(m) : d[i] = IF i <= n THEN b[i] ELSE m[i - n]
  BY <1>1, ConcatProperties
<1>3. n \in Nat
  BY LenProperties
<1> HIDE DEF m, n
<1>4. Len(d) = q - k /\ n + Len(m) = q - k
  BY <1>1, <1>2, <1>3 DEF n
<1>5. \A i \in 1 .. q - k : d[i] = t[k + i]
  <2> SUFFICES ASSUME NEW i \in 1 .. q - k PROVE d[i] = t[k + i]
    OBVIOUS
  <2>1. CASE i <= n
    <3>1. i \in 1 .. Len(b)
      BY <2>1 DEF n
    <3> QED
      BY <1>2, <1>4, <2>1, <3>1
  <2>2. CASE ~(i <= n)
    <3> DEFINE j == i - n
    <3>1. j \in 1 .. q - r /\ r + j = k + i
      BY <1>1, <1>3, <2>2 DEF n
    <3>2. d[i] = m[j]
      BY <1>2, <1>4, <2>2
    <3> HIDE DEF j
    <3> QED
      BY <1>1, <3>1, <3>2
  <2> QED
    BY <2>1, <2>2
<1>6. \A i \in 1 .. Len(b) : i \in 1 .. Len(d) /\ d[i] = b[i]
  BY <1>2, <1>3, <1>4 DEF n
<1> QED
  BY <1>2, <1>4, <1>5, <1>6

\* The first p elements are cut off.
LEMMA StretchCut ==
  ASSUME NEW S, NEW t, NEW b \in Seq(S), NEW k \in Nat, NEW p \in Nat, p <= Len(b),
         \A i \in 1 .. Len(b) : b[i] = t[k + i],
         NEW l, l = SubSeq(b, p + 1, Len(b))
  PROVE  /\ l \in Seq(S) /\ Len(l) = Len(b) - p
         /\ \A i \in 1 .. Len(l) : l[i] = t[(k + p) + i]
<1>1. Len(b) \in Nat
  BY LenProperties
<1>2. l \in Seq(S) /\ Len(l) = Len(b) - p /\ \A i \in 1 .. Len(b) - p : l[i] = b[p + i]
  BY <1>1, Stretch
<1>3. ASSUME NEW i \in 1 .. Len(b) - p PROVE l[i] = t[(k + p) + i]
  <2> DEFINE j == p + i
  <2>1. j \in 1 .. Len(b) /\ k + j = (k + p) + i
    BY <1>1
  <2>2. l[i] = b[j]
    BY <1>2
  <2> HIDE DEF j
  <2> QED
    BY <2>1, <2>2
<1> QED
  BY <1>2, <1>3

-----------------------------------------------------------------------------
\* When a set of threads gains or loses at most the thread x, their number
\* changes by one if it does and not at all otherwise.
LEMMA CountMove ==
  ASSUME NEW F, NEW G, NEW x, IsFiniteSet(F), F \ {x} = G \ {x}
  PROVE  /\ Cardinality(F) \in Nat
         /\ Cardinality(G) = IF x \in F /\ x \notin G THEN Cardinality(F) - 1
                             ELSE IF x \notin F /\ x \in G THEN Cardinality(F) + 1
                             ELSE Cardinality(F)
<1>1. Cardinality(F) \in Nat
  BY FS_CardinalityType
<1>2. CASE x \in F /\ x \notin G
  <2>1. G = F \ {x}
    BY <1>2
  <2>2. QED
    BY <1>1, <1>2, <2>1, FS_RemoveElement
<1>3. CASE x \notin F /\ x \in G
  <2>1. G = F \cup {x}
    BY <1>3
  <2>2. QED
    BY <1>1, <1>3, <2>1, FS_AddElement
<1>4. CASE x \in F <=> x \in G
  <2>1. G = F
    BY <1>4
  <2>2. QED
    BY <1>1, <1>4, <2>1
<1>5. QED
  BY <1>2, <1>3, <1>4

-----------------------------------------------------------------------------
\* A set of natural numbers that is not empty has a least one.
LEMMA LeastNatural ==
  ASSUME NEW T, T \subseteq Nat, T # {}
  PROVE  \E x \in T : \A y \in T : x <= y
<1> DEFINE R == OpToRel(<, Nat)
<1>1. IsWellFoundedOn(R, Nat)
  BY NatLessThanWellFounded
<1>2. \A x, y \in Nat : <<y, x>> \in R <=> y < x
  BY DEF OpToRel
<1> HIDE DEF R
<1>3. PICK x \in T : \A y \in T : ~ (<<y, x>> \in R)
  BY <1>1, WFMin
<1>4. \A y \in T : ~ (y < x)
  BY <1>2, <1>3
<1>5. \A y \in T : x <= y
  BY <1>4, SMT
<1> QED
  BY <1>5

\* Induction, the predicate being membership of a set.
LEMMA SetInduction ==
  ASSUME NEW T, 0 \in T, \A n \in Nat : n \in T => n + 1 \in T
  PROVE  Nat \subseteq T
<1> SUFFICES ASSUME Nat \ T # {} PROVE FALSE
  OBVIOUS
<1>1. PICK x \in Nat \ T : \A y \in Nat \ T : x <= y
  BY LeastNatural
<1>2. x - 1 \in Nat /\ x - 1 \in T
  BY <1>1
<1> QED
  BY <1>1, <1>2

-----------------------------------------------------------------------------
(* Iterations *)

\* Some g has the values that the steps give one after the other.
Iterates(S, n, x, step) ==
    \E g \in [0 .. n -> S] : g[0] = x /\ \A k \in 1 .. n : g[k] = step[<<k, g[k - 1]>>]

LEMMA Iteration ==
    ASSUME NEW S, NEW n \in Nat, NEW x \in S, NEW step \in [(1 .. n) \X S -> S]
    PROVE  Iterates(S, n, x, step)
<1> DEFINE Is(g, m) == g = [k \in 0 .. m |-> IF k = 0 THEN x ELSE step[<<k, g[k - 1]>>]]
           T == {m \in Nat : m <= n => \E g \in [0 .. m -> S] : Is(g, m)}
<1>1. 0 \in T
  <2>1. Is([k \in 0 .. 0 |-> x], 0)
    OBVIOUS
  <2> QED
    BY <2>1
<1>2. ASSUME NEW m \in Nat, m \in T PROVE m + 1 \in T
  <2>1. SUFFICES ASSUME m + 1 <= n PROVE \E g \in [0 .. m + 1 -> S] : Is(g, m + 1)
    OBVIOUS
  <2>2. m <= n
    BY <2>1
  <2>3. PICK g \in [0 .. m -> S] : Is(g, m)
    BY <1>2, <2>2
  <2> DEFINE h == [k \in 0 .. m + 1 |-> IF k = m + 1 THEN step[<<m + 1, g[m]>>] ELSE g[k]]
  <2>4. g[m] \in S /\ m + 1 \in 1 .. n
    BY <2>1
  <2>5. step[<<m + 1, g[m]>>] \in S
    BY <2>4
  <2>6. h \in [0 .. m + 1 -> S]
    BY <2>5
  <2>6a. h[m + 1] = step[<<m + 1, g[m]>>] /\ \A k \in 0 .. m : h[k] = g[k]
    OBVIOUS
  <2> HIDE DEF h
  <2>7. ASSUME NEW k \in 0 .. m + 1
        PROVE  h[k] = IF k = 0 THEN x ELSE step[<<k, h[k - 1]>>]
    <3>1. CASE k = m + 1
      <4>1. k # 0 /\ k - 1 = m /\ m \in 0 .. m
        BY <3>1
      <4> QED
        BY <2>6a, <3>1, <4>1
    <3>2. CASE k # m + 1
      <4>1. k \in 0 .. m /\ (k # 0 => k - 1 \in 0 .. m)
        BY <3>2
      <4>2. g[k] = IF k = 0 THEN x ELSE step[<<k, g[k - 1]>>]
        BY <2>3, <4>1
      <4> QED
        BY <2>6a, <4>1, <4>2
    <3> QED
      BY <3>1, <3>2
  <2>8. Is(h, m + 1)
    BY <2>6, <2>7
  <2> QED
    BY <2>6, <2>8
<1>3. Nat \subseteq T
  <2> HIDE DEF T
  <2> QED
    BY <1>1, <1>2, SetInduction
<1>4. PICK g \in [0 .. n -> S] : Is(g, n)
  BY <1>3
<1>5. g[0] = x /\ \A k \in 1 .. n : g[k] = step[<<k, g[k - 1]>>]
  BY <1>4
<1> QED
  BY <1>5 DEF Iterates

\* What each step keeps holds of all values.
LEMMA IterationKeeps ==
    ASSUME NEW S, NEW n \in Nat, NEW f, f[0] \in S,
           \A k \in 1 .. n : f[k - 1] \in S => f[k] \in S
    PROVE  \A k \in 0 .. n : f[k] \in S
<1> DEFINE T == {k \in Nat : k <= n => f[k] \in S}
<1>1. 0 \in T
  OBVIOUS
<1>2. ASSUME NEW k \in Nat, k \in T PROVE k + 1 \in T
  <2>1. SUFFICES ASSUME k + 1 <= n PROVE f[k + 1] \in S
    OBVIOUS
  <2>2. f[k] \in S /\ k + 1 \in 1 .. n /\ (k + 1) - 1 = k
    BY <1>2, <2>1
  <2> QED
    BY <2>2
<1>3. Nat \subseteq T
  <2> HIDE DEF T
  <2> QED
    BY <1>1, <1>2, SetInduction
<1> QED
  BY <1>3

\* The least element of a set of natural numbers.
LEMMA MinIsLeast ==
    ASSUME NEW S, S \subseteq Nat, S # {}
    PROVE  Min(S) \in S /\ \A y \in S : Min(S) <= y
<1>1. \E x \in S : \A y \in S : x <= y
  BY LeastNatural
<1> QED
  BY <1>1 DEF Min

\* The greatest element of a set of natural numbers with a bound.
LEMMA MaxIsGreatest ==
    ASSUME NEW n \in Nat, NEW S, S \subseteq 0 .. n, S # {}
    PROVE  Max(S) \in S /\ \A y \in S : y <= Max(S)
<1> DEFINE D == {n - y : y \in S}
<1>1. D \subseteq Nat /\ D # {}
  <2>1. \A y \in S : n - y \in Nat
    OBVIOUS
  <2> QED
    BY <2>1
<1>2. PICK d \in D : \A e \in D : d <= e
  BY <1>1, LeastNatural
<1>3. PICK x \in S : d = n - x
  BY <1>2
<1>4. \A y \in S : x >= y
  <2>1. TAKE y \in S
  <2>2. n - x <= n - y
    BY <1>2, <1>3
  <2> QED
    BY <2>2
<1>5. Max(S) \in S /\ \A y \in S : Max(S) >= y
  BY <1>4 DEF Max
<1> QED
  BY <1>5

-----------------------------------------------------------------------------
(* Recursion *)

LEMMA InductionOnSize ==
    ASSUME NEW D, NEW size \in [D -> Nat], NEW T,
           \A x \in D : (\A y \in D : size[y] < size[x] => y \in T) => x \in T
    PROVE  D \subseteq T
<1> DEFINE U == {n \in Nat : \A x \in D : size[x] < n => x \in T}
<1>1. 0 \in U
  OBVIOUS
<1>2. ASSUME NEW n \in Nat, n \in U PROVE n + 1 \in U
  <2>1. SUFFICES ASSUME NEW x \in D, size[x] < n + 1 PROVE x \in T
    OBVIOUS
  <2>2. \A y \in D : size[y] < size[x] => size[y] < n
    BY <2>1
  <2> QED
    BY <1>2, <2>2
<1>3. Nat \subseteq U
  <2> HIDE DEF U
  <2> QED
    BY <1>1, <1>2, SetInduction
<1>4. ASSUME NEW x \in D PROVE x \in T
  <2>1. size[x] + 1 \in U /\ size[x] < size[x] + 1
    BY <1>3
  <2> QED
    BY <2>1
<1> QED
  BY <1>4

\* F says what a function on D is at x from what it is at what is smaller.
OnSmaller(D, V, size, F) ==
    \A g, h \in [D -> V], x \in D :
        (\A y \in D : size[y] < size[x] => g[y] = h[y]) => F[<<g, x>>] = F[<<h, x>>]

\* Some function is F of itself.
Recursive(D, V, F) == \E h \in [D -> V] : \A x \in D : h[x] = F[<<h, x>>]

LEMMA RecursionOnSize ==
    ASSUME NEW D, NEW V, NEW v \in V, NEW size \in [D -> Nat],
           NEW F \in [[D -> V] \X D -> V], OnSmaller(D, V, size, F)
    PROVE  Recursive(D, V, F)
<1> DEFINE Upto(n) == {h \in [D -> V] : \A x \in D : size[x] < n => h[x] = F[<<h, x>>]}
           T == {n \in Nat : Upto(n) # {}}
<1>1. 0 \in T
  <2>1. [x \in D |-> v] \in Upto(0)
    OBVIOUS
  <2> QED
    BY <2>1
<1>2. ASSUME NEW n \in Nat, n \in T PROVE n + 1 \in T
  <2>1. PICK g \in Upto(n) : TRUE
    BY <1>2
  <2> DEFINE h == [x \in D |-> IF size[x] = n THEN F[<<g, x>>] ELSE g[x]]
  <2>2. g \in [D -> V] /\ \A x \in D : size[x] < n => g[x] = F[<<g, x>>]
    BY <2>1
  <2>3. \A x \in D : F[<<g, x>>] \in V
    BY <2>2
  <2>4. h \in [D -> V]
    BY <2>2, <2>3
  <2>5. \A x \in D : size[x] # n => h[x] = g[x]
    OBVIOUS
  <2>6. \A x \in D : size[x] = n => h[x] = F[<<g, x>>]
    OBVIOUS
  <2> HIDE DEF h
  <2>7. ASSUME NEW x \in D, size[x] < n + 1 PROVE h[x] = F[<<h, x>>]
    <3>1. size[x] \in Nat /\ \A y \in D : size[y] \in Nat
      OBVIOUS
    <3>2. \A y \in D : size[y] < size[x] => g[y] = h[y]
      BY <2>5, <2>7, <3>1
    <3>3. F[<<g, x>>] = F[<<h, x>>]
      BY <2>2, <2>4, <3>2 DEF OnSmaller
    <3>4. h[x] = F[<<g, x>>]
      <4>1. CASE size[x] = n
        BY <2>6, <4>1
      <4>2. CASE size[x] # n
        <5>1. size[x] < n
          BY <2>7, <3>1, <4>2
        <5> QED
          BY <2>2, <2>5, <4>2, <5>1
      <4> QED
        BY <4>1, <4>2
    <3> QED
      BY <3>3, <3>4
  <2>8. h \in Upto(n + 1)
    BY <2>4, <2>7
  <2> QED
    BY <2>8
<1>3. \A n \in Nat : Upto(n) # {}
  <2>1. Nat \subseteq T
    <3> HIDE DEF T
    <3> QED
      BY <1>1, <1>2, SetInduction
  <2> QED
    BY <2>1
<1>4. ASSUME NEW m \in Nat, NEW n \in Nat, m <= n, NEW g \in Upto(m), NEW h \in Upto(n)
      PROVE  \A x \in D : size[x] < m => g[x] = h[x]
  <2> DEFINE U == {k \in Nat : k <= m => \A x \in D : size[x] < k => g[x] = h[x]}
  <2>0. g \in [D -> V] /\ h \in [D -> V]
    OBVIOUS
  <2>1. 0 \in U
    OBVIOUS
  <2>2. ASSUME NEW k \in Nat, k \in U PROVE k + 1 \in U
    <3>1. SUFFICES ASSUME k + 1 <= m, NEW x \in D, size[x] < k + 1 PROVE g[x] = h[x]
      OBVIOUS
    <3>2. size[x] \in Nat /\ size[x] < m /\ size[x] < n
      BY <1>4, <3>1
    <3>3. \A y \in D : size[y] < size[x] => g[y] = h[y]
      <4>1. TAKE y \in D
      <4>2. size[y] \in Nat
        OBVIOUS
      <4>3. size[y] < size[x] => size[y] < k
        BY <3>1, <3>2, <4>2
      <4>4. k <= m
        BY <1>4, <3>1
      <4> QED
        BY <2>2, <4>3, <4>4
    <3>4. g[x] = F[<<g, x>>] /\ h[x] = F[<<h, x>>]
      BY <3>2
    <3> QED
      BY <2>0, <3>3, <3>4 DEF OnSmaller
  <2>3. Nat \subseteq U
    <3> HIDE DEF U
    <3> QED
      BY <2>1, <2>2, SetInduction
  <2>4. m \in U /\ m <= m
    BY <2>3
  <2> QED
    BY <2>4
<1> DEFINE h == [x \in D |-> (CHOOSE g \in Upto(size[x] + 1) : TRUE)[x]]
<1>5. h \in [D -> V]
  <2>1. ASSUME NEW x \in D PROVE (CHOOSE g \in Upto(size[x] + 1) : TRUE)[x] \in V
    <3>1. size[x] + 1 \in Nat
      OBVIOUS
    <3>2. (CHOOSE g \in Upto(size[x] + 1) : TRUE) \in Upto(size[x] + 1)
      BY <1>3, <3>1
    <3> QED
      BY <3>2
  <2> QED
    BY <2>1
<1>6. ASSUME NEW x \in D PROVE h[x] = F[<<h, x>>]
  <2> DEFINE c == CHOOSE g \in Upto(size[x] + 1) : TRUE
  <2>1. size[x] \in Nat /\ size[x] + 1 \in Nat
    OBVIOUS
  <2>2. c \in Upto(size[x] + 1) /\ h[x] = c[x]
    BY <1>3, <2>1
  <2>3. c \in [D -> V] /\ c[x] = F[<<c, x>>]
    <3>1. size[x] < size[x] + 1
      BY <2>1
    <3> QED
      BY <2>2, <3>1
  <2>4. \A y \in D : size[y] < size[x] => c[y] = h[y]
    <3>1. SUFFICES ASSUME NEW y \in D, size[y] < size[x] PROVE c[y] = h[y]
      OBVIOUS
    <3> DEFINE d == CHOOSE g \in Upto(size[y] + 1) : TRUE
    <3>2. size[y] \in Nat /\ size[y] + 1 \in Nat /\ size[y] + 1 <= size[x] + 1 /\ size[y] < size[y] + 1
      BY <2>1, <3>1
    <3>3. d \in Upto(size[y] + 1) /\ h[y] = d[y]
      BY <1>3, <3>2
    <3>4. d[y] = c[y]
      <4> HIDE DEF Upto, c, d, h
      <4> QED
        BY <1>4, <2>1, <2>2, <3>2, <3>3
    <3> QED
      BY <3>3, <3>4
  <2>5. F[<<c, x>>] = F[<<h, x>>]
    BY <1>5, <2>3, <2>4 DEF OnSmaller
  <2> QED
    BY <2>2, <2>3, <2>5
<1> QED
  BY <1>5, <1>6 DEF Recursive

-----------------------------------------------------------------------------
(* Concatenation *)

LEMMA Prefix ==
    ASSUME NEW S, NEW t \in Seq(S), NEW n \in Nat, n <= Len(t)
    PROVE  /\ SubSeq(t, 1, n) \in Seq(S) /\ Len(SubSeq(t, 1, n)) = n
           /\ \A i \in 1 .. n : SubSeq(t, 1, n)[i] = t[i]
<1> DEFINE m == SubSeq(t, 1, n)
<1>1. \A i \in 1 .. n : t[i] \in S
  BY ElementOfSeq, LenProperties
<1>2. /\ m \in Seq(S) /\ Len(m) = IF 1 <= n THEN n - 1 + 1 ELSE 0
      /\ \A i \in 1 .. n - 1 + 1 : m[i] = t[1 + i - 1]
  BY <1>1, SubSeqProperties
<1>3. n - 1 + 1 = n /\ \A i \in Nat : 1 + i - 1 = i
  OBVIOUS
<1> HIDE DEF m
<1> QED
  BY <1>2, <1>3 DEF m

LEMMA ConcatParts ==
    ASSUME NEW S, NEW s \in Seq(S), NEW t \in Seq(S)
    PROVE  /\ s \o t \in Seq(S) /\ Len(s \o t) = Len(s) + Len(t)
           /\ \A i \in 1 .. Len(s) : (s \o t)[i] = s[i]
           /\ \A i \in 1 .. Len(t) : (s \o t)[Len(s) + i] = t[i]
           /\ SubSeq(s \o t, 1, Len(s)) = s
           /\ SubSeq(s \o t, Len(s) + 1, Len(s \o t)) = t
<1> DEFINE w == s \o t
           n == Len(s)
           a == SubSeq(w, 1, n)
           b == SubSeq(w, n + 1, Len(w))
<1>1. n \in Nat /\ Len(t) \in Nat
  BY LenProperties
<1>2. /\ w \in Seq(S) /\ Len(w) = n + Len(t)
      /\ \A i \in 1 .. n + Len(t) : w[i] = IF i <= n THEN s[i] ELSE t[i - n]
  BY ConcatProperties
<1> HIDE DEF w, n
<1>3. \A i \in 1 .. n : w[i] = s[i]
  BY <1>1, <1>2
<1>4. ASSUME NEW i \in 1 .. Len(t) PROVE w[n + i] = t[i]
  <2> DEFINE j == n + i
  <2>1. j \in 1 .. n + Len(t) /\ ~ (j <= n) /\ j - n = i
    BY <1>1
  <2> HIDE DEF j
  <2>2. w[j] = t[i]
    BY <1>2, <2>1
  <2> QED
    BY <2>2 DEF j
<1>5. a \in Seq(S) /\ Len(a) = n /\ \A i \in 1 .. n : a[i] = w[i]
  <2>1. n <= Len(w)
    BY <1>1, <1>2
  <2> HIDE DEF a
  <2> QED
    BY <1>1, <1>2, <2>1, Prefix DEF a
<1>6. b \in Seq(S) /\ Len(b) = Len(w) - n /\ \A i \in 1 .. Len(w) - n : b[i] = w[n + i]
  <2>1. w \in Seq(S) /\ n \in Nat /\ Len(w) \in Nat /\ n <= Len(w)
    BY <1>1, <1>2
  <2> QED
    BY <2>1, Stretch
<1> HIDE DEF a, b
<1>7. a = s
  <2>1. Len(a) = Len(s) /\ \A i \in 1 .. Len(a) : a[i] = s[i]
    BY <1>1, <1>3, <1>5 DEF n
  <2> QED
    BY <1>5, <2>1, SeqEqual
<1>8. b = t
  <2>1. Len(b) = Len(t) /\ \A i \in 1 .. Len(b) : b[i] = t[i]
    BY <1>1, <1>2, <1>4, <1>6
  <2> QED
    BY <1>6, <2>1, SeqEqual
<1> QED
  BY <1>2, <1>3, <1>4, <1>7, <1>8 DEF w, n, a, b
=============================================================================

----------------------------- MODULE HttpProofs -----------------------------
(***************************************************************************)
(* Proofs about what inspect and parse of io/message.hpp make of a request *)
(* that arrives byte by byte, of any length and for any limits.            *)
(***************************************************************************)
EXTENDS TextProofs

-----------------------------------------------------------------------------
(* One lexeme more *)

LEMMA TextMore ==
    ASSUME NEW s \in Seq(HttpLexemes), NEW c \in HttpLexemes
    PROVE  /\ Append(s, c) \in Seq(HttpLexemes) /\ Len(s) \in Nat /\ Len(Append(s, c)) = Len(s) + 1
           /\ \A i \in 1 .. Len(s) : Append(s, c)[i] = s[i]
           /\ Append(s, c)[Len(s) + 1] = c
<1> QED
  BY OneMore, Zenon

LEMMA TwoLexemes ==
    ASSUME NEW S, NEW s \in Seq(S), NEW c \in S, Len(s) = 1
    PROVE  /\ Append(s, c) \in Seq(S) /\ Len(Append(s, c)) = 2
           /\ Append(s, c)[1] = s[1] /\ Append(s, c)[2] = c
<1> DEFINE w == Append(s, c)
           n == Len(s)
<1>1. /\ w \in Seq(S) /\ n \in Nat /\ Len(w) = n + 1
      /\ \A i \in 1 .. n : w[i] = s[i]
      /\ w[n + 1] = c
  BY OneMore, Zenon
<1>2. n = 1
  OBVIOUS
<1> HIDE DEF w, n
<1>3. w \in Seq(S) /\ Len(w) = 2 /\ w[1] = s[1] /\ w[2] = c
  BY <1>1, <1>2
<1> QED
  BY <1>3, Zenon DEF w

LEMMA AppendTwo ==
    ASSUME NEW u, NEW v
    PROVE  Append(<<u>>, v) = <<u, v>>
<1> DEFINE S == {u, v}
           one == <<u>>
<1>1. one \in Seq(S) /\ Len(one) = 1 /\ one[1] = u
  OBVIOUS
<1>2. v \in S
  OBVIOUS
<1> HIDE DEF one, S
<1> DEFINE two == Append(one, v)
<1>3. two \in Seq(S) /\ Len(two) = 2 /\ two[1] = u /\ two[2] = v
  <2>1. one \in Seq(S) /\ v \in S /\ Len(one) = 1
    BY <1>1, <1>2, Zenon
  <2>2. /\ Append(one, v) \in Seq(S) /\ Len(Append(one, v)) = 2
        /\ Append(one, v)[1] = one[1] /\ Append(one, v)[2] = v
    BY <2>1, TwoLexemes
  <2> QED
    BY <1>1, <2>2, Zenon
<1> HIDE DEF two
<1>4. two = <<u, v>>
  BY <1>3
<1> QED
  BY <1>4, Zenon DEF two, one

-----------------------------------------------------------------------------
(* The lines of a text *)

\* A text begins as another does.
Begins(a, c) == Len(c) <= Len(a) /\ \A i \in 1 .. Len(c) : a[i] = c[i]

\* There is no line end in a piece of text.
InLine(l) == Without(l, "LF")

\* A text that ends where a line does.
Closed(c) == c = <<>> \/ c[Len(c)] = "LF"

\* The line that ends at p begins behind the line end before it.
LEMMA LineIs ==
    ASSUME NEW a \in Seq(HttpLexemes), NEW m \in Nat, NEW p \in Nat, m < p,
           m = 0 \/ m \in Ends(a), \A q \in Ends(a) : m < q => p <= q
    PROVE  LineUpTo(a, p) = SubSeq(a, m + 1, p - 1)
<1> DEFINE B == {0} \cup {q \in Ends(a) : q < p}
<1>1. Ends(a) \subseteq Nat /\ Len(a) \in Nat
  BY LenProperties DEF Ends
<1>2. m \in B /\ \A q \in B : q <= m /\ q \in Nat
  <2>1. m \in B
    OBVIOUS
  <2>2. ASSUME NEW q \in B PROVE q <= m /\ q \in Nat
    <3>1. CASE q = 0
      BY <3>1
    <3>2. CASE q \in Ends(a) /\ q < p
      BY <1>1, <3>2
    <3> QED
      BY <3>1, <3>2
  <2> QED
    BY <2>1, <2>2
<1>3. Max(B) = m
  <2> HIDE DEF B
  <2>1. Max(B) \in B /\ \A q \in B : q <= Max(B)
    <3>1. B \subseteq 0 .. m /\ B # {}
      BY <1>2
    <3> QED
      BY <3>1, MaxIsGreatest
  <2>2. Max(B) <= m /\ m <= Max(B) /\ Max(B) \in Nat
    BY Zenon, <1>2, <2>1
  <2> QED
    BY <2>2
<1> QED
  BY <1>3 DEF LineUpTo

\* Every line has a begin.
LEMMA LineBegins ==
    ASSUME NEW a \in Seq(HttpLexemes), NEW p \in Nat, p > 0
    PROVE  \E m \in Nat : /\ m < p /\ (m = 0 \/ m \in Ends(a))
                          /\ \A q \in Ends(a) : m < q => p <= q
<1> DEFINE B == {0} \cup {q \in Ends(a) : q < p}
<1>1. Ends(a) \subseteq Nat
  BY LenProperties DEF Ends
<1>2. B \subseteq 0 .. p /\ B # {}
  BY <1>1
<1>3. Max(B) \in B /\ \A q \in B : q <= Max(B)
  <2> HIDE DEF B
  <2> QED
    BY <1>2, MaxIsGreatest
<1>4. ASSUME NEW q \in Ends(a), Max(B) < q PROVE p <= q
  <2>1. SUFFICES ASSUME ~ (p <= q) PROVE FALSE
    OBVIOUS
  <2>2. q \in Nat /\ Max(B) \in Nat
    BY <1>1, <1>2, <1>3
  <2>3. q \in B
    BY <2>1, <2>2
  <2> HIDE DEF B
  <2> QED
    BY <1>3, <1>4, <2>2, <2>3
<1>5. Max(B) \in Nat /\ Max(B) < p /\ (Max(B) = 0 \/ Max(B) \in Ends(a))
  <2> DEFINE m == Max(B)
  <2>1. m \in B
    BY <1>3
  <2> HIDE DEF m
  <2>2. CASE m = 0
    BY <2>2 DEF m
  <2>3. CASE m \in Ends(a) /\ m < p
    BY <1>1, <2>3 DEF m
  <2> QED
    BY <2>1, <2>2, <2>3
<1> QED
  BY <1>4, <1>5

\* Texts that agree up to a line end have the same lines up to there.
LEMMA SameLines ==
    ASSUME NEW a \in Seq(HttpLexemes), NEW b \in Seq(HttpLexemes), NEW n \in Nat,
           n <= Len(a), n <= Len(b), \A i \in 1 .. n : a[i] = b[i]
    PROVE  /\ \A p \in 1 .. n : p \in Ends(a) <=> p \in Ends(b)
           /\ \A p \in 1 .. n + 1 : LineUpTo(a, p) = LineUpTo(b, p)
<1>1. Len(a) \in Nat /\ Len(b) \in Nat /\ Ends(a) \subseteq Nat /\ Ends(b) \subseteq Nat
  BY LenProperties DEF Ends
<1>2. \A p \in 1 .. n : p \in Ends(a) <=> p \in Ends(b)
  BY <1>1, LenProperties DEF Ends
<1>3. ASSUME NEW p \in 1 .. n + 1 PROVE LineUpTo(a, p) = LineUpTo(b, p)
  <2>1. PICK m \in Nat : /\ m < p /\ (m = 0 \/ m \in Ends(a))
                         /\ \A q \in Ends(a) : m < q => p <= q
    BY LineBegins
  <2>2. m = 0 \/ m \in Ends(b)
    <3>1. m = 0 \/ m \in 1 .. n
      BY <2>1
    <3> QED
      BY <1>2, <2>1, <3>1
  <2>3. \A q \in Ends(b) : m < q => p <= q
    <3>1. SUFFICES ASSUME NEW q \in Ends(b), m < q, ~ (p <= q) PROVE FALSE
      OBVIOUS
    <3>2. q \in 1 .. n
      BY <1>1, <3>1
    <3> QED
      BY <1>2, <2>1, <3>1, <3>2
  <2>4. LineUpTo(a, p) = SubSeq(a, m + 1, p - 1) /\ LineUpTo(b, p) = SubSeq(b, m + 1, p - 1)
    BY <2>1, <2>2, <2>3, LineIs
  <2> DEFINE u == SubSeq(a, m + 1, p - 1)
             v == SubSeq(b, m + 1, p - 1)
  <2>5. p - 1 \in Nat /\ m <= p - 1 /\ p - 1 <= Len(a) /\ p - 1 <= Len(b)
    BY <1>1, <2>1
  <2>6. u \in Seq(HttpLexemes) /\ Len(u) = (p - 1) - m /\ \A i \in 1 .. (p - 1) - m : u[i] = a[m + i]
    BY <2>5, Stretch
  <2>7. v \in Seq(HttpLexemes) /\ Len(v) = (p - 1) - m /\ \A i \in 1 .. (p - 1) - m : v[i] = b[m + i]
    BY <2>5, Stretch
  <2>8. \A i \in 1 .. (p - 1) - m : m + i \in 1 .. n
    BY <2>1, <2>5
  <2> HIDE DEF u, v
  <2>9. u = v
    BY <2>6, <2>7, <2>8, SeqEqual
  <2> QED
    BY <2>4, <2>9 DEF u, v
<1> QED
  BY <1>2, <1>3

\* A line begun behind closed ones, in a text that goes on: it ends at a place
\* behind what has been sent of it, which is how it begins.
LEMMA OpenLine ==
    ASSUME NEW a \in Seq(HttpLexemes), NEW c \in Seq(HttpLexemes), NEW l \in Seq(HttpLexemes),
           Closed(c), InLine(l), Begins(a, c \o l)
    PROVE  \E p \in LineEnds(a) :
              /\ p > Len(c) + Len(l) /\ p \in Nat
              /\ LineUpTo(a, p) \in Seq(HttpLexemes) /\ Begins(LineUpTo(a, p), l)
              /\ InLine(LineUpTo(a, p)) /\ Len(LineUpTo(a, p)) = p - 1 - Len(c)
              /\ \A q \in LineEnds(a) : q > Len(c) => p <= q
<1> DEFINE n == Len(c)
           k == Len(l)
           later == {q \in LineEnds(a) : q > n}
           p == Min(later)
<1>1. n \in Nat /\ k \in Nat /\ Len(a) \in Nat /\ n + k <= Len(a)
      /\ (\A i \in 1 .. n : a[i] = c[i]) /\ \A i \in 1 .. k : a[n + i] = l[i]
  <2>1. c \o l \in Seq(HttpLexemes) /\ Len(c \o l) = n + k /\ n \in Nat /\ k \in Nat
    BY ConcatParts, LenProperties
  <2>2. (\A i \in 1 .. n : (c \o l)[i] = c[i]) /\ \A i \in 1 .. k : (c \o l)[n + i] = l[i]
    BY ConcatParts
  <2>3. \A i \in 1 .. n : i \in 1 .. Len(c \o l)
    BY <2>1
  <2>4. \A i \in 1 .. k : n + i \in 1 .. Len(c \o l)
    BY <2>1
  <2>5. Len(a) \in Nat
    BY LenProperties
  <2> HIDE DEF n, k
  <2> QED
    BY <2>1, <2>2, <2>3, <2>4, <2>5 DEF Begins
<1>2. LineEnds(a) \subseteq Nat /\ Len(a) + 1 \in LineEnds(a) /\ Ends(a) \subseteq Nat
      /\ \A q \in LineEnds(a) : q <= Len(a) + 1
  <2>1. Ends(a) \subseteq 1 .. Len(a)
    BY LenProperties DEF Ends
  <2> QED
    BY <1>1, <2>1 DEF LineEnds
<1>3. p \in later /\ \A q \in later : p <= q
  <2>1. Len(a) + 1 \in later
    <3> HIDE DEF n, k
    <3> QED
      BY <1>1, <1>2
  <2>2. later \subseteq Nat /\ later # {}
    BY <1>2, <2>1
  <2> HIDE DEF later
  <2> QED
    BY <2>2, MinIsLeast
<1>4. p \in LineEnds(a) /\ p > n /\ p \in Nat /\ p <= Len(a) + 1
  <2> HIDE DEF p, n
  <2> QED
    BY <1>2, <1>3
<1>5. p > n + k
  <2>1. SUFFICES ASSUME ~ (p > n + k) PROVE FALSE
    OBVIOUS
  <2>2. PICK i \in 1 .. k : p = n + i
    <3>1. p - n \in 1 .. k /\ p = n + (p - n)
      <4> HIDE DEF p, n, k
      <4> QED
        BY <1>1, <1>4, <2>1
    <3> QED
      BY <3>1
  <2>3. p # Len(a) + 1
    <3> HIDE DEF p, n, k
    <3> QED
      BY <1>1, <2>2
  <2>4. a[p] = "LF"
    <3> HIDE DEF p, n, k
    <3> QED
      BY <1>4, <2>3 DEF LineEnds, Ends
  <2> HIDE DEF p, n
  <2> QED
    BY <1>1, <2>2, <2>4 DEF InLine, Without
<1>6. n = 0 \/ n \in Ends(a)
  <2>1. CASE c = <<>>
    BY <2>1
  <2>2. CASE c # <<>> /\ c[Len(c)] = "LF"
    <3>1. n \in 1 .. n /\ n \in 1 .. Len(a)
      <4>1. n > 0
        BY <2>2, EmptySeq, LenProperties
      <4> HIDE DEF n, k
      <4> QED
        BY <1>1, <4>1
    <3>2. a[n] = "LF"
      BY <1>1, <2>2, <3>1
    <3> HIDE DEF n
    <3> QED
      BY <3>1, <3>2, LenProperties DEF Ends
  <2> QED
    BY <2>1, <2>2 DEF Closed
<1>7. \A q \in Ends(a) : n < q => p <= q
  <2>1. \A q \in Ends(a) : n < q => q \in later
    BY <1>1, <1>2 DEF LineEnds
  <2> HIDE DEF later, p
  <2> QED
    BY <1>3, <2>1
<1> HIDE DEF p, n, k, later
<1>8. LineUpTo(a, p) = SubSeq(a, n + 1, p - 1)
  BY <1>1, <1>4, <1>6, <1>7, LineIs
<1> DEFINE u == SubSeq(a, n + 1, p - 1)
<1>9. p - 1 \in Nat /\ n <= p - 1 /\ p - 1 <= Len(a)
  BY <1>1, <1>4
<1>10. u \in Seq(HttpLexemes) /\ Len(u) = (p - 1) - n /\ \A i \in 1 .. (p - 1) - n : u[i] = a[n + i]
  BY <1>1, <1>9, Stretch
<1> HIDE DEF u
<1>11. Begins(u, l)
  <2>1. k <= (p - 1) - n
    BY <1>1, <1>4, <1>5
  <2>2. \A i \in 1 .. k : i \in 1 .. (p - 1) - n
    BY <1>1, <1>9, <2>1
  <2>3. \A i \in 1 .. k : u[i] = l[i]
    BY <1>1, <1>10, <2>2
  <2>4. k <= Len(u)
    BY <1>10, <2>1
  <2> QED
    BY <2>3, <2>4 DEF Begins, k
<1>12. InLine(u)
  <2>1. SUFFICES ASSUME NEW i \in 1 .. Len(u), u[i] = "LF" PROVE FALSE
    BY DEF InLine, Without
  <2>2. n + i \in 1 .. Len(a) /\ n + i < p /\ n < n + i /\ i \in 1 .. (p - 1) - n
    BY <1>1, <1>4, <1>9, <1>10
  <2>3. a[n + i] = "LF"
    BY <1>10, <2>1, <2>2
  <2>4. n + i \in Ends(a)
    BY <2>2, <2>3, LenProperties DEF Ends
  <2> QED
    BY <1>4, <1>7, <2>2, <2>4
<1>13. \A q \in LineEnds(a) : q > n => p <= q
  BY <1>3 DEF later
<1>14. Len(u) = p - 1 - n
  BY <1>1, <1>4, <1>10
<1> QED
  BY <1>4, <1>5, <1>8, <1>10, <1>11, <1>12, <1>13, <1>14 DEF u, n, k

\* A text begins with itself, and with what one it begins with begins with.
LEMMA BeginsIs ==
    ASSUME NEW S, NEW c \in Seq(S), NEW l \in Seq(S)
    PROVE  /\ Begins(c, c) /\ Begins(c \o l, c) /\ Begins(c, <<>>)
           /\ \A a : Begins(a, c \o l) => Begins(a, c)
           /\ Begins(l, c) /\ Len(l) = Len(c) => l = c
<1>1. c \o l \in Seq(S) /\ Len(c \o l) = Len(c) + Len(l) /\ Len(c) \in Nat /\ Len(l) \in Nat
  BY ConcatParts, LenProperties
<1>2. \A i \in 1 .. Len(c) : (c \o l)[i] = c[i]
  BY ConcatParts
<1>3. Begins(c, c)
  BY <1>1 DEF Begins
<1>4. Begins(c \o l, c)
  BY <1>1, <1>2 DEF Begins
<1>5. ASSUME NEW a, Begins(a, c \o l) PROVE Begins(a, c)
  <2>1. \A i \in 1 .. Len(c) : i \in 1 .. Len(c \o l)
    BY <1>1
  <2>2. Len(c \o l) <= Len(a) /\ \A i \in 1 .. Len(c \o l) : a[i] = (c \o l)[i]
    BY <1>5 DEF Begins
  <2>3. Len(c) <= Len(a)
    BY <1>1, <2>2
  <2> QED
    BY <1>2, <2>1, <2>2, <2>3 DEF Begins
<1>6. Begins(l, c) /\ Len(l) = Len(c) => l = c
  BY SeqEqual DEF Begins
<1>7. Begins(c, <<>>)
  BY <1>1 DEF Begins
<1> QED
  BY <1>3, <1>4, <1>5, <1>6, <1>7

LEMMA ConcatSizes ==
    ASSUME NEW S, NEW s \in Seq(S), NEW t \in Seq(S)
    PROVE  /\ s \o t \in Seq(S) /\ Len(s \o t) = Len(s) + Len(t)
           /\ Len(s) \in Nat /\ Len(t) \in Nat /\ Len(s \o t) \in Nat
<1>1. s \o t \in Seq(S) /\ Len(s \o t) = Len(s) + Len(t)
  BY ConcatParts
<1>2. \A u \in Seq(S) : Len(u) \in Nat
  BY LenProperties
<1> QED
  BY <1>1, <1>2

\* One more, written as a concatenation.
LEMMA Added ==
    ASSUME NEW S, NEW s \in Seq(S), NEW c \in S
    PROVE  /\ s \o <<c>> = Append(s, c) /\ s \o <<c>> \in Seq(S) /\ Len(s \o <<c>>) = Len(s) + 1
           /\ \A i \in 1 .. Len(s) : (s \o <<c>>)[i] = s[i]
           /\ (s \o <<c>>)[Len(s) + 1] = c
<1> QED
  BY AppendIs, OneMore

LEMMA BeginsOn ==
    ASSUME NEW a, NEW S, NEW b \in Seq(S), NEW c \in Seq(S), Len(a) \in Nat, Begins(a, b), Begins(b, c)
    PROVE  Begins(a, c)
<1>1. Len(b) \in Nat /\ Len(c) \in Nat
  BY LenProperties
<1>2. \A i \in 1 .. Len(c) : i \in 1 .. Len(b)
  BY <1>1 DEF Begins
<1> QED
  BY <1>1, <1>2 DEF Begins

\* The first line of a text that has one, closed.
LEMMA FirstStays ==
    ASSUME NEW a \in Seq(HttpLexemes), NEW c \in Seq(HttpLexemes),
           Closed(c), c # <<>>, Begins(a, c)
    PROVE  /\ Min(LineEnds(a)) = Min(LineEnds(c)) /\ Min(LineEnds(a)) \in Ends(c)
           /\ Min(LineEnds(a)) <= Len(c) /\ Min(LineEnds(a)) \in Nat
           /\ FirstLine(a) = FirstLine(c)
<1> DEFINE n == Len(c)
           p == Min(LineEnds(c))
           q == Min(LineEnds(a))
<1>1. n \in Nat /\ n > 0 /\ Len(a) \in Nat /\ n <= Len(a) /\ \A i \in 1 .. n : a[i] = c[i]
  BY LenProperties, EmptySeq DEF Begins
<1>2. n \in Ends(c)
  BY <1>1, LenProperties DEF Closed, Ends
<1>3. Ends(a) \subseteq 1 .. Len(a) /\ Ends(c) \subseteq 1 .. n
  BY LenProperties DEF Ends
<1>4. \A i \in 1 .. n : i \in Ends(a) <=> i \in Ends(c)
  BY <1>1, SameLines
<1> HIDE DEF n
<1>5. p \in LineEnds(c) /\ \A i \in LineEnds(c) : p <= i
  <2>1. LineEnds(c) \subseteq Nat /\ LineEnds(c) # {}
    BY <1>1, <1>3 DEF LineEnds, n
  <2> QED
    BY <2>1, MinIsLeast
<1>6. q \in LineEnds(a) /\ \A i \in LineEnds(a) : q <= i
  <2>1. LineEnds(a) \subseteq Nat /\ LineEnds(a) # {}
    BY <1>1, <1>3 DEF LineEnds
  <2> QED
    BY <2>1, MinIsLeast
<1> HIDE DEF p, q
<1>7. p <= n /\ q <= n
  <2>1. n \in LineEnds(c) /\ n \in LineEnds(a)
    BY <1>1, <1>2, <1>4 DEF LineEnds
  <2> QED
    BY <1>5, <1>6, <2>1
<1>8. p \in Ends(c) /\ p \in 1 .. n /\ q \in 1 .. n /\ q \in Ends(c)
  <2>1. p \in Ends(c)
    <3>1. p # Len(c) + 1
      BY <1>1, <1>7 DEF n
    <3> QED
      BY <1>5, <3>1 DEF LineEnds
  <2>2. q \in Ends(a)
    <3>1. q # Len(a) + 1
      BY <1>1, <1>7
    <3> QED
      BY <1>6, <3>1 DEF LineEnds
  <2>3. q \in 1 .. n
    BY <1>1, <1>3, <1>7, <2>2
  <2> QED
    BY <1>3, <1>4, <2>1, <2>2, <2>3
<1>9. p = q
  <2>1. p \in LineEnds(a) /\ q \in LineEnds(c)
    BY <1>4, <1>8 DEF LineEnds
  <2>2. p <= q /\ q <= p
    BY <1>5, <1>6, <2>1
  <2> QED
    BY <1>8, <2>2
<1>10. LineUpTo(a, p) = LineUpTo(c, p)
  <2>1. p \in 1 .. n + 1
    BY <1>1, <1>8
  <2>2. n <= Len(c)
    BY <1>1 DEF n
  <2> QED
    BY <1>1, <2>1, <2>2, SameLines
<1> QED
  BY <1>7, <1>8, <1>9, <1>10 DEF FirstLine, p, q, n

\* The first line while it is being sent.
LEMMA FirstGrows ==
    ASSUME NEW a \in Seq(HttpLexemes), NEW l \in Seq(HttpLexemes), InLine(l), Begins(a, l)
    PROVE  /\ Min(LineEnds(a)) \in Nat /\ Min(LineEnds(a)) > Len(l) /\ Min(LineEnds(a)) \in LineEnds(a)
           /\ \A q \in LineEnds(a) : Min(LineEnds(a)) <= q
           /\ FirstLine(a) \in Seq(HttpLexemes) /\ Begins(FirstLine(a), l)
           /\ InLine(FirstLine(a)) /\ Len(FirstLine(a)) = Min(LineEnds(a)) - 1
<1>1. Closed(<<>>) /\ <<>> \in Seq(HttpLexemes) /\ Len(<<>>) = 0 /\ <<>> \o l = l /\ Len(l) \in Nat
  BY LenProperties DEF Closed
<1>2. PICK p \in LineEnds(a) :
              /\ p > Len(<<>>) + Len(l) /\ p \in Nat
              /\ LineUpTo(a, p) \in Seq(HttpLexemes) /\ Begins(LineUpTo(a, p), l)
              /\ InLine(LineUpTo(a, p)) /\ Len(LineUpTo(a, p)) = p - 1 - Len(<<>>)
              /\ \A q \in LineEnds(a) : q > Len(<<>>) => p <= q
  <2>1. Begins(a, <<>> \o l)
    BY <1>1
  <2> QED
    BY <1>1, <2>1, OpenLine
<1>3. LineEnds(a) \subseteq Nat \ {0} /\ LineEnds(a) # {}
  BY LenProperties DEF LineEnds, Ends
<1>4. Min(LineEnds(a)) \in LineEnds(a) /\ \A q \in LineEnds(a) : Min(LineEnds(a)) <= q
  BY <1>3, MinIsLeast
<1>5. \A q \in LineEnds(a) : p <= q
  BY <1>1, <1>2, <1>3
<1>6. p = Min(LineEnds(a))
  <2> DEFINE m == Min(LineEnds(a))
  <2>1. m \in Nat /\ p <= m /\ m <= p
    BY <1>2, <1>3, <1>4, <1>5
  <2> HIDE DEF m
  <2>2. p = m
    BY <1>2, <2>1
  <2> QED
    BY <2>2 DEF m
<1>7. Len(l) < p /\ Len(LineUpTo(a, p)) = p - 1
  BY <1>1, <1>2
<1> QED
  BY <1>2, <1>4, <1>6, <1>7 DEF FirstLine

-----------------------------------------------------------------------------
(* The scan of a head, line by line *)

\* The states a scan of h goes through.
Scanning(h, g) ==
    /\ g \in [0 .. Len(h) + 1 -> ScanStates] /\ g[0] = NoScan
    /\ \A k \in 1 .. Len(h) + 1 : g[k] = ScanTo(h, k, g[k - 1])

\* What every scan of a head that begins so has found when it gets to its end.
Known(c, x) ==
    \A h \in Seq(HttpLexemes) : \A g : Begins(h, c) /\ Scanning(h, g) => g[Len(c)] = x

\* Between line ends a scan finds nothing.
LEMMA ScanRests ==
    ASSUME NEW h, NEW g, Scanning(h, g), NEW m \in Nat, NEW n \in Nat, m <= n,
           Len(h) \in Nat, n <= Len(h) + 1,
           \A k \in m + 1 .. n : k \notin LineEnds(h)
    PROVE  g[n] = g[m] /\ g[m] \in ScanStates
<1> DEFINE f == [k \in 0 .. n - m |-> g[m + k]]
<1>1. n - m \in Nat /\ 0 \in 0 .. n - m /\ n - m \in 0 .. n - m /\ m + 0 = m /\ m + (n - m) = n
  OBVIOUS
<1>2. f[0] = g[m] /\ f[n - m] = g[n]
  BY <1>1
<1>3. ASSUME NEW k \in 1 .. n - m, f[k - 1] \in {g[m]} PROVE f[k] \in {g[m]}
  <2>1. k \in 0 .. n - m /\ k - 1 \in 0 .. n - m /\ m + k \in m + 1 .. n /\ m + (k - 1) = (m + k) - 1
        /\ m + k \in 1 .. Len(h) + 1
    OBVIOUS
  <2>2. f[k] = g[m + k] /\ f[k - 1] = g[(m + k) - 1]
    BY <2>1
  <2>3. g[m + k] = ScanTo(h, m + k, g[(m + k) - 1])
    BY <2>1 DEF Scanning
  <2>4. m + k \notin LineEnds(h)
    BY <2>1
  <2>5. ScanTo(h, m + k, g[(m + k) - 1]) = g[(m + k) - 1]
    BY <2>4 DEF ScanTo, HeaderEnds, LineEnds
  <2> HIDE DEF f
  <2> QED
    BY <1>3, <2>2, <2>3, <2>5
<1>4. \A k \in 0 .. n - m : f[k] \in {g[m]}
  <2> DEFINE w == n - m
             one == {g[m]}
  <2> HIDE DEF f
  <2>1. f[0] \in one
    BY <1>2
  <2>2. w \in Nat /\ \A k \in 1 .. w : f[k - 1] \in one => f[k] \in one
    BY <1>1, <1>3
  <2> HIDE DEF w, one
  <2>3. \A k \in 0 .. w : f[k] \in one
    BY <2>1, <2>2, IterationKeeps
  <2> QED
    BY <2>3 DEF w, one
<1>5. g[m] \in ScanStates
  <2>1. m \in 0 .. Len(h) + 1
    OBVIOUS
  <2> QED
    BY <2>1 DEF Scanning
<1> HIDE DEF f
<1> QED
  BY <1>1, <1>2, <1>4, <1>5

\* A header line that begins with l, behind closed lines c: where it ends and
\* what the scan makes of it.
ScannedLine(h, c, l, x, p) ==
    /\ p \in LineEnds(h) /\ p \in Nat /\ p > Len(c) + Len(l) /\ p <= Len(h) + 1
    /\ p \in HeaderEnds(h)
    /\ LineUpTo(h, p) \in Seq(HttpLexemes) /\ Begins(LineUpTo(h, p), l)
    /\ InLine(LineUpTo(h, p)) /\ Len(LineUpTo(h, p)) = p - 1 - Len(c)
    /\ \A q \in LineEnds(h) : q > Len(c) => p <= q
    /\ \A g : Scanning(h, g) => g[p] = ScanLine(x, LineUpTo(h, p))

LEMMA ScanAtLine ==
    ASSUME NEW h \in Seq(HttpLexemes), NEW c \in Seq(HttpLexemes), NEW l \in Seq(HttpLexemes),
           Closed(c), c # <<>>, InLine(l), Begins(h, c \o l), NEW x, Known(c, x)
    PROVE  \E p : ScannedLine(h, c, l, x, p)
<1> DEFINE n == Len(c)
<1>1. PICK p \in LineEnds(h) :
              /\ p > Len(c) + Len(l) /\ p \in Nat
              /\ LineUpTo(h, p) \in Seq(HttpLexemes) /\ Begins(LineUpTo(h, p), l)
              /\ InLine(LineUpTo(h, p)) /\ Len(LineUpTo(h, p)) = p - 1 - Len(c)
              /\ \A q \in LineEnds(h) : q > Len(c) => p <= q
  BY OpenLine
<1>2. n \in Nat /\ Len(l) \in Nat /\ Len(h) \in Nat /\ p \in Nat /\ p > n
  BY <1>1, LenProperties
<1>3. Begins(h, c)
  BY BeginsIs
<1>4. Min(LineEnds(h)) <= n /\ Min(LineEnds(h)) \in Nat
  BY <1>3, FirstStays
<1>5. p \in HeaderEnds(h)
  <2>1. p # Min(LineEnds(h))
    BY <1>2, <1>4
  <2> QED
    BY <1>1, <2>1 DEF HeaderEnds
<1>6. p <= Len(h) + 1
  BY <1>1, LenProperties DEF LineEnds, Ends
<1>7. ASSUME NEW g, Scanning(h, g) PROVE g[p] = ScanLine(x, LineUpTo(h, p))
  <2>1. g[n] = x
    BY <1>3, <1>7 DEF Known
  <2>2. \A k \in n + 1 .. p - 1 : k \notin LineEnds(h)
    BY <1>1, <1>2
  <2>3. g[p - 1] = g[n]
    <3>1. n <= p - 1 /\ p - 1 \in Nat /\ p - 1 <= Len(h) + 1
      BY <1>2, <1>6
    <3> HIDE DEF n
    <3> QED
      BY <1>2, <1>7, <2>2, <3>1, ScanRests
  <2>4. p \in 1 .. Len(h) + 1
    BY <1>2, <1>6
  <2>5. g[p] = ScanTo(h, p, g[p - 1])
    BY <1>7, <2>4 DEF Scanning
  <2> QED
    BY <1>5, <2>1, <2>3, <2>5 DEF ScanTo
<1> QED
  BY <1>1, <1>5, <1>6, <1>7 DEF ScannedLine

LEMMA ScanHeadScans ==
    ASSUME NEW h \in Seq(HttpLexemes)
    PROVE  \E g : Scanning(h, g) /\ ScanHead(h) = g[Len(h) + 1] /\ ScanHead(h) \in ScanStates
<1>1. Len(h) \in Nat /\ Len(h) + 1 \in 0 .. Len(h) + 1
  BY LenProperties
<1>2. PICK g \in [0 .. Len(h) + 1 -> ScanStates] :
              /\ g[0] = NoScan
              /\ \A k \in 1 .. Len(h) + 1 : g[k] = ScanTo(h, k, g[k - 1])
              /\ ScanHead(h) = g[Len(h) + 1]
  BY <1>1, ScanHeadIs
<1>3. Scanning(h, g) /\ ScanHead(h) \in ScanStates
  BY <1>1, <1>2 DEF Scanning
<1> QED
  BY <1>2, <1>3

\* The scan of a header line: while it is the last of a head, and once it ends.
LEMMA ScanOfLine ==
    ASSUME NEW c \in Seq(HttpLexemes), NEW l \in Seq(HttpLexemes),
           Closed(c), c # <<>>, InLine(l), NEW x, Known(c, x)
    PROVE  ScanHead(c \o l) = ScanLine(x, l) /\ Known((c \o l) \o <<"LF">>, ScanLine(x, l))
<1> DEFINE t == c \o l
           u == t \o <<"LF">>
<1>1. /\ t \in Seq(HttpLexemes) /\ Len(t) = Len(c) + Len(l) /\ Len(c) \in Nat /\ Len(l) \in Nat
      /\ Len(t) \in Nat
  BY ConcatSizes
<1>2. "LF" \in HttpLexemes
  BY DEF HttpLexemes
<1>3. u \in Seq(HttpLexemes) /\ Len(u) = Len(t) + 1 /\ u[Len(t) + 1] = "LF"
  <2> HIDE DEF t
  <2> QED
    BY <1>1, <1>2, Added
<1> HIDE DEF t, u
<1>4. ASSUME NEW h \in Seq(HttpLexemes), NEW p, ScannedLine(h, c, l, x, p), p <= Len(t) + 1
      PROVE  p = Len(t) + 1 /\ LineUpTo(h, p) = l
  <2>1. p = Len(t) + 1
    BY <1>1, <1>4 DEF ScannedLine
  <2>2. Len(LineUpTo(h, p)) = Len(l)
    BY <1>1, <1>4, <2>1 DEF ScannedLine
  <2>3. LineUpTo(h, p) \in Seq(HttpLexemes) /\ Begins(LineUpTo(h, p), l)
    BY <1>4 DEF ScannedLine
  <2> QED
    BY <2>1, <2>2, <2>3, BeginsIs
<1>5. ScanHead(t) = ScanLine(x, l)
  <2>1. PICK g : Scanning(t, g) /\ ScanHead(t) = g[Len(t) + 1]
    BY <1>1, ScanHeadScans
  <2>2. Begins(t, c \o l)
    BY <1>1, BeginsIs DEF t
  <2>3. PICK p : ScannedLine(t, c, l, x, p)
    BY <1>1, <2>2, ScanAtLine
  <2>4. p <= Len(t) + 1
    BY <2>3 DEF ScannedLine
  <2>5. p = Len(t) + 1 /\ LineUpTo(t, p) = l
    BY <1>1, <1>4, <2>3, <2>4
  <2> QED
    BY <2>1, <2>3, <2>5 DEF ScannedLine
<1>6. Known(u, ScanLine(x, l))
  <2>1. SUFFICES ASSUME NEW h \in Seq(HttpLexemes), NEW g, Begins(h, u), Scanning(h, g)
                 PROVE  g[Len(u)] = ScanLine(x, l)
    BY DEF Known
  <2>2. Begins(h, c \o l)
    <3>1. <<"LF">> \in Seq(HttpLexemes)
      BY <1>1, <1>2, AppendIs
    <3>2. Begins(h, t)
      BY <1>1, <2>1, <3>1, BeginsIs DEF u
    <3> QED
      BY <3>2 DEF t
  <2>3. PICK p : ScannedLine(h, c, l, x, p)
    BY <2>2, ScanAtLine
  <2>4. Len(u) \in LineEnds(h)
    <3>1. Len(h) \in Nat /\ DOMAIN h = 1 .. Len(h)
      BY LenProperties
    <3>2. Len(u) \in 1 .. Len(u) /\ Len(u) <= Len(h) /\ h[Len(u)] = u[Len(u)]
      BY <1>1, <1>3, <2>1 DEF Begins
    <3> QED
      BY <1>1, <1>3, <3>1, <3>2 DEF LineEnds, Ends
  <2>5. p <= Len(t) + 1
    BY <1>1, <1>3, <2>3, <2>4 DEF ScannedLine
  <2>6. p = Len(t) + 1 /\ LineUpTo(h, p) = l
    BY <1>4, <2>3, <2>5
  <2> QED
    BY <1>3, <2>1, <2>3, <2>6 DEF ScannedLine
<1> QED
  BY <1>5, <1>6 DEF t, u

\* A line without its CR still begins with what was sent before the CR.
LEMMA WithoutReturn ==
    ASSUME NEW r \in Seq(HttpLexemes), NEW l \in Seq(HttpLexemes), l # <<>>, l[Len(l)] # "CR", Begins(r, l)
    PROVE  /\ WithoutCR(r) \in Seq(HttpLexemes) /\ Begins(WithoutCR(r), l) /\ WithoutCR(r) # <<>>
           /\ WithoutCR(r)[1] = l[1] /\ Len(WithoutCR(r)) >= Len(l)
<1> DEFINE n == Len(r)
           k == Len(l)
           w == WithoutCR(r)
           f == SubSeq(r, 1, n - 1)
<1>1. n \in Nat /\ k \in Nat /\ k > 0 /\ k <= n /\ n - 1 \in Nat /\ \A i \in 1 .. k : r[i] = l[i]
  <2>1. n \in Nat /\ k \in Nat /\ k > 0
    BY LenProperties, EmptySeq
  <2> QED
    BY <2>1 DEF Begins
<1>2. /\ f \in Seq(HttpLexemes) /\ Len(f) = n - 1 /\ \A i \in 1 .. n - 1 : f[i] = r[i]
  <2>1. n - 1 <= Len(r)
    BY <1>1
  <2> HIDE DEF n
  <2> QED
    BY <1>1, <2>1, Prefix
<1>3. w = IF r # <<>> /\ r[n] = "CR" THEN f ELSE r
  BY DEF WithoutCR, Last, Front
<1> HIDE DEF w, f
<1>4. r[n] = "CR" => k <= n - 1
  <2>1. k = n => r[n] = l[k]
    BY <1>1
  <2> HIDE DEF n
  <2> QED
    BY <1>1, <2>1
<1>5. w \in Seq(HttpLexemes) /\ k <= Len(w) /\ \A i \in 1 .. k : w[i] = l[i]
  <2> HIDE DEF n, k
  <2>1. CASE r[n] = "CR"
    <3>1. \A i \in 1 .. k : i \in 1 .. n - 1
      BY <1>1, <1>4, <2>1
    <3>2. r # <<>>
      BY <1>1, EmptySeq DEF n
    <3>3. w = f
      BY <1>3, <2>1, <3>2
    <3> QED
      BY <1>1, <1>2, <1>4, <2>1, <3>1, <3>3
  <2>2. CASE r[n] # "CR"
    BY <1>1, <1>3, <2>2 DEF n
  <2> QED
    BY <2>1, <2>2
<1>6. 1 \in 1 .. k
  <2> HIDE DEF k
  <2> QED
    BY <1>1
<1>7. w # <<>>
  <2>1. Len(w) # 0
    <3>1. Len(w) \in Nat
      BY <1>5, LenProperties
    <3> HIDE DEF k
    <3> QED
      BY <1>1, <1>5, <3>1
  <2> QED
    BY <2>1, EmptySeq
<1>8. Begins(w, l) /\ w[1] = l[1] /\ Len(w) >= k
  <2>1. Len(w) \in Nat
    BY <1>5, LenProperties
  <2> QED
    BY <1>1, <1>5, <1>6, <2>1 DEF Begins
<1> QED
  BY <1>5, <1>7, <1>8 DEF w

\* A line with and without its CR.
LEMMA ReturnDropped ==
    ASSUME NEW l \in Seq(HttpLexemes), l # <<>> => l[Len(l)] # "CR"
    PROVE  /\ WithoutCR(l) = l
           /\ WithoutCR(Append(l, "CR")) = l
<1> DEFINE r == Append(l, "CR")
           f == SubSeq(r, 1, Len(r) - 1)
<1>1. "CR" \in HttpLexemes
  BY DEF HttpLexemes
<1>2. r \in Seq(HttpLexemes) /\ Len(l) \in Nat /\ Len(r) = Len(l) + 1 /\ (\A i \in 1 .. Len(l) : r[i] = l[i])
      /\ r[Len(r)] = "CR"
  BY <1>1, OneMore
<1>3. r # <<>>
  BY <1>2, EmptySeq
<1>4. WithoutCR(r) = f
  BY <1>2, <1>3 DEF WithoutCR, Last, Front
<1>5. Len(r) - 1 = Len(l) /\ Len(l) <= Len(r)
  BY <1>2
<1> HIDE DEF r
<1>6. f \in Seq(HttpLexemes) /\ Len(f) = Len(l) /\ \A i \in 1 .. Len(l) : f[i] = r[i]
  BY <1>2, <1>5, Prefix
<1> HIDE DEF f
<1>7. f = l
  BY <1>2, <1>6, SeqEqual
<1>8. WithoutCR(l) = l
  BY DEF WithoutCR, Last
<1> QED
  BY <1>4, <1>7, <1>8 DEF r

\* A head is rejected, or not supported, whatever else it holds.
Dead(scan) == scan.verdict # "ok" \/ scan.coding = "other"

LEMMA DeadStays ==
    ASSUME NEW scan \in ScanStates, Dead(scan), NEW raw
    PROVE  Dead(ScanLine(scan, raw))
<1> DEFINE l == WithoutCR(raw)
           counted == [scan EXCEPT !.count = @ + 1]
<1>1. scan.verdict # "ok" => ScanLine(scan, raw) = scan
  BY DEF ScanLine
<1>2. \A y \in ScanStates : Bad(y).verdict = "bad"
  BY DEF Bad, ScanStates
<1>3. CASE scan.verdict = "ok"
  <2>1. scan.coding = "other" /\ counted.coding = "other" /\ counted \in ScanStates
    BY <1>3 DEF Dead, ScanStates
  <2>2. [scan EXCEPT !.verdict = "many"].verdict = "many"
    BY DEF ScanStates
  <2>3. ScanLength(counted, l) = Bad(counted) /\ ScanCoding(counted, l) = Bad(counted)
    <3> HIDE DEF counted, l
    <3> QED
      BY <2>1 DEF ScanLength, ScanCoding
  <2>4. ScanLine(scan, raw) \in {scan, Bad(scan), [scan EXCEPT !.verdict = "many"], ScanLength(counted, l),
                                 ScanCoding(counted, l), counted}
    BY Zenon DEF ScanLine
  <2> HIDE DEF l, counted
  <2> QED
    BY <1>2, <2>1, <2>2, <2>3, <2>4 DEF Dead
<1> QED
  BY <1>1, <1>3 DEF Dead

\* One line is enough: if no line that begins so can be accepted, no head that
\* holds it is.
LEMMA DeadLine ==
    ASSUME NEW h \in Seq(HttpLexemes), NEW c \in Seq(HttpLexemes), NEW l \in Seq(HttpLexemes),
           Closed(c), c # <<>>, InLine(l), Begins(h, c \o l), NEW x, Known(c, x),
           \A r \in Seq(HttpLexemes) : Begins(r, l) => Dead(ScanLine(x, r))
    PROVE  Dead(ScanHead(h))
<1>1. PICK p : ScannedLine(h, c, l, x, p)
  BY ScanAtLine
<1>2. PICK g : Scanning(h, g) /\ ScanHead(h) = g[Len(h) + 1]
  BY ScanHeadScans
<1>3. g[p] = ScanLine(x, LineUpTo(h, p)) /\ LineUpTo(h, p) \in Seq(HttpLexemes) /\ Begins(LineUpTo(h, p), l)
      /\ p \in Nat /\ p <= Len(h) + 1
  BY <1>1, <1>2 DEF ScannedLine
<1>4. Dead(g[p])
  BY <1>3
<1> DEFINE w == Len(h) + 1 - p
           f == [k \in 0 .. w |-> g[p + k]]
           dead == {y \in ScanStates : Dead(y)}
<1>5. w \in Nat /\ p + 0 = p /\ p + w = Len(h) + 1 /\ 0 \in 0 .. w /\ w \in 0 .. w
  BY <1>3, LenProperties
<1>6. ASSUME NEW k \in 1 .. w, f[k - 1] \in dead PROVE f[k] \in dead
  <2>1. p + k \in 1 .. Len(h) + 1 /\ k \in 0 .. w /\ k - 1 \in 0 .. w /\ p + (k - 1) = (p + k) - 1
    BY <1>3, LenProperties
  <2>2. f[k] = g[p + k] /\ f[k - 1] = g[(p + k) - 1]
    BY <2>1
  <2> HIDE DEF f
  <2>3. g[p + k] = ScanTo(h, p + k, f[k - 1])
    BY <1>2, <2>1, <2>2 DEF Scanning
  <2>4. \A u : u \in ScanStates /\ Dead(u) => ScanTo(h, p + k, u) \in ScanStates /\ Dead(ScanTo(h, p + k, u))
    <3>1. SUFFICES ASSUME NEW u \in ScanStates, Dead(u)
                   PROVE  ScanTo(h, p + k, u) \in ScanStates /\ Dead(ScanTo(h, p + k, u))
      OBVIOUS
    <3>2. \A raw : ScanLine(u, raw) \in ScanStates /\ Dead(ScanLine(u, raw))
      BY <3>1, ScanLineType, DeadStays
    <3>3. NoScan \in ScanStates
      BY DEF NoScan, ScanStates, Sizes
    <3>4. Bad(NoScan) \in ScanStates /\ Dead(Bad(NoScan))
      BY <3>3, BadScan DEF Dead, Bad, NoScan
    <3> QED
      BY <3>1, <3>2, <3>4, Zenon DEF ScanTo
  <2> QED
    BY <1>6, <2>2, <2>3, <2>4
<1>7. f[0] \in dead
  <2>1. f[0] = g[p] /\ p \in 0 .. Len(h) + 1
    BY <1>3, <1>5
  <2> HIDE DEF f
  <2> QED
    BY <1>2, <1>4, <2>1 DEF Scanning
<1>8. f[w] = g[Len(h) + 1]
  BY <1>5
<1> HIDE DEF f, w
<1>9. \A k \in 0 .. w : f[k] \in dead
  <2> HIDE DEF dead
  <2> QED
    BY <1>5, <1>6, <1>7, IterationKeeps
<1> QED
  BY <1>2, <1>5, <1>8, <1>9

-----------------------------------------------------------------------------
(* Header lines one by one *)

\* Fields that say nothing about the body, and take any value.
Plain2 == {"Host", "Other"}

\* A field that cannot follow what the scan has found.
Refused(x, f) ==
    \/ f \in {"fold", "CLbad", "gzip"}
    \/ f \in Codings /\ (x.length # -1 \/ x.coding # "none")
    \/ f \in DOMAIN LengthOf /\ (x.coding # "none" \/ x.length \notin {-1, LengthOf[f]})
    \/ x.count = MaxHeaders

\* What a field adds to what the scan has found.
WithField(x, f) ==
    [length |-> IF f \in DOMAIN LengthOf THEN LengthOf[f] ELSE x.length,
     coding |-> IF f \in Codings THEN f ELSE x.coding,
     verdict |-> "ok", count |-> x.count + 1]

LEMMA LexemeKinds ==
    /\ DOMAIN LengthOf = {"CL1", "CL2", "CLmax"}
    /\ \A f \in Fields \cup {"fold", "nocolon", "1.1", "1.0", "short", "x", "CR", ";"} : f # "LF" /\ f \in HttpLexemes
    /\ \A f \in Fields \cup {"fold", "nocolon", "1.1", "1.0", "short", "x"} : f # "CR"
    /\ "LF" \in HttpLexemes /\ DOMAIN Hex = {"0", "1"} /\ DOMAIN Hex \subseteq HttpLexemes
<1>1. DOMAIN LengthOf = {"CL1", "CL2", "CLmax"}
  BY DEF LengthOf
<1>2. \A f \in Fields \cup {"fold", "nocolon", "1.1", "1.0", "short", "x", "CR", ";"} : f # "LF" /\ f \in HttpLexemes
  BY DEF Fields, Lengths, Codings, HttpLexemes
<1>3. \A f \in Fields \cup {"fold", "nocolon", "1.1", "1.0", "short", "x"} : f # "CR"
  BY DEF Fields, Lengths, Codings
<1>4. "LF" \in HttpLexemes
  BY DEF HttpLexemes
<1>5. DOMAIN Hex = {"0", "1"} /\ DOMAIN Hex \subseteq HttpLexemes
  BY DEF HttpLexemes, Hex
<1> QED
  BY <1>1, <1>2, <1>3, <1>4, <1>5

\* A line that begins with a field, whole or not.
LEMMA FieldFirst ==
    ASSUME NEW r \in Seq(HttpLexemes), NEW f \in Fields \cup {"fold", "nocolon"}, Begins(r, <<f>>)
    PROVE  WithoutCR(r) # <<>> /\ WithoutCR(r)[1] = f /\ r[1] = f /\ r # <<>>
<1>1. f \in HttpLexemes /\ f # "CR"
  BY LexemeKinds
<1>2. <<f>> \in Seq(HttpLexemes) /\ <<f>> # <<>> /\ Len(<<f>>) = 1 /\ <<f>>[1] = f
  <2> HIDE <1>1
  <2>1. f \in HttpLexemes
    BY <1>1
  <2> QED
    BY <2>1
<1>3. <<f>>[Len(<<f>>)] # "CR"
  BY <1>1, <1>2
<1>4. WithoutCR(r) # <<>> /\ WithoutCR(r)[1] = f
  <2> DEFINE l == <<f>>
  <2>1. l \in Seq(HttpLexemes) /\ l # <<>> /\ l[Len(l)] # "CR" /\ Begins(r, l) /\ l[1] = f
    BY <1>2, <1>3
  <2> HIDE DEF l
  <2> QED
    BY <2>1, WithoutReturn
<1>5. r[1] = f /\ 1 <= Len(r)
  BY <1>2 DEF Begins
<1>6. r # <<>>
  BY <1>5, EmptySeq, LenProperties
<1> QED
  BY <1>4, <1>5, <1>6

\* A field that is refused makes the head be refused, whatever its value.
LEMMA RefusedField ==
    ASSUME NEW x \in ScanStates, x.verdict = "ok", NEW f \in Fields \cup {"fold", "nocolon"}, Refused(x, f),
           NEW r \in Seq(HttpLexemes), Begins(r, <<f>>)
    PROVE  Dead(ScanLine(x, r))
<1> DEFINE l == WithoutCR(r)
           counted == [x EXCEPT !.count = @ + 1]
<1>1. l # <<>> /\ l[1] = f
  BY FieldFirst
<1>2. \A y \in ScanStates : Dead(Bad(y))
  BY DEF Bad, ScanStates, Dead
<1>3. counted \in ScanStates /\ counted.length = x.length /\ counted.coding = x.coding
  BY DEF ScanStates
<1>4. Dead([x EXCEPT !.verdict = "many"])
  BY DEF Dead, ScanStates
<1> HIDE DEF l, counted
<1>5. ScanLine(x, r) =
        IF Len(r) > MaxHeaderLine THEN Bad(x)
        ELSE IF x.count = MaxHeaders THEN [x EXCEPT !.verdict = "many"]
        ELSE IF f = "fold" THEN Bad(x)
        ELSE IF f \in Lengths THEN ScanLength(counted, l)
        ELSE IF f \in Codings THEN ScanCoding(counted, l)
        ELSE counted
  BY <1>1, Zenon DEF ScanLine, l, counted
<1>6. CASE Len(r) > MaxHeaderLine \/ x.count = MaxHeaders \/ f = "fold"
  BY <1>2, <1>4, <1>5, <1>6
<1>7. CASE f \in DOMAIN LengthOf /\ ~(Len(r) > MaxHeaderLine \/ x.count = MaxHeaders)
  <2>1. f \in Lengths /\ f # "fold" /\ f \notin Codings /\ f \notin {"fold", "CLbad", "gzip"}
    BY <1>7, LexemeKinds DEF Lengths, Codings
  <2>2. x.coding # "none" \/ x.length \notin {-1, LengthOf[f]}
    BY <1>7, <2>1 DEF Refused
  <2>3. ScanLength(counted, l) = Bad(counted)
    BY <1>1, <1>3, <2>2 DEF ScanLength
  <2> QED
    BY <1>2, <1>3, <1>5, <1>7, <2>1, <2>3
<1>8. CASE f = "CLbad" /\ ~(Len(r) > MaxHeaderLine \/ x.count = MaxHeaders)
  <2>1. f \in Lengths /\ f # "fold" /\ f \notin DOMAIN LengthOf
    BY <1>8, LexemeKinds DEF Lengths
  <2>2. ScanLength(counted, l) = Bad(counted)
    BY <1>1, <2>1 DEF ScanLength
  <2> QED
    BY <1>2, <1>3, <1>5, <1>8, <2>1, <2>2
<1>9. CASE f \in Codings /\ ~(Len(r) > MaxHeaderLine \/ x.count = MaxHeaders)
  <2>1. f \notin Lengths /\ f # "fold" /\ f \notin DOMAIN LengthOf
    BY <1>9, LexemeKinds DEF Lengths, Codings
  <2>2. f = "gzip" => l # <<"chunked">>
    BY <1>1
  <2>3. ScanCoding(counted, l) = Bad(counted) \/ (f = "gzip" /\ ScanCoding(counted, l).coding = "other")
    <3>1. CASE counted.length # -1 \/ counted.coding # "none"
      BY <3>1 DEF ScanCoding
    <3>2. CASE ~(counted.length # -1 \/ counted.coding # "none")
      <4>1. f = "gzip"
        BY <1>3, <1>9, <2>1, <3>2 DEF Refused, Codings
      <4>2. ScanCoding(counted, l) = [counted EXCEPT !.coding = "other"]
        BY <2>2, <3>2, <4>1 DEF ScanCoding
      <4> QED
        BY <1>3, <4>1, <4>2 DEF ScanStates
    <3> QED
      BY <3>1, <3>2
  <2> QED
    BY <1>2, <1>3, <1>5, <1>9, <2>1, <2>3 DEF Dead
<1>10. f \in DOMAIN LengthOf \/ f = "CLbad" \/ f \in Codings \/ f = "fold" \/ x.count = MaxHeaders
  BY DEF Refused, Codings
<1> QED
  BY <1>6, <1>7, <1>8, <1>9, <1>10

\* A byte behind a length or a coding makes the head be refused.
LEMMA LongField ==
    ASSUME NEW x \in ScanStates, x.verdict = "ok", NEW f \in Lengths \cup Codings,
           NEW r \in Seq(HttpLexemes), Begins(r, <<f, "x">>)
    PROVE  Dead(ScanLine(x, r))
<1> DEFINE l == WithoutCR(r)
           counted == [x EXCEPT !.count = @ + 1]
           w == <<f, "x">>
<1>1. f \in HttpLexemes /\ "x" \in HttpLexemes /\ "x" # "CR"
  BY LexemeKinds DEF Fields
<1>2. w \in Seq(HttpLexemes) /\ w # <<>> /\ w[Len(w)] # "CR" /\ w[1] = f /\ Len(w) = 2
  BY <1>1
<1>3. l \in Seq(HttpLexemes) /\ l # <<>> /\ l[1] = f /\ Len(l) >= 2
  <2>1. Begins(r, w)
    OBVIOUS
  <2> HIDE DEF w
  <2>2. l \in Seq(HttpLexemes) /\ l # <<>> /\ l[1] = w[1] /\ Len(l) >= Len(w)
    BY <1>2, <2>1, WithoutReturn
  <2> HIDE DEF l
  <2> QED
    BY <1>2, <2>2
<1>4. \A y \in ScanStates : Dead(Bad(y))
  BY DEF Bad, ScanStates, Dead
<1>5. counted \in ScanStates
  BY DEF ScanStates
<1>6. Dead([x EXCEPT !.verdict = "many"])
  BY DEF Dead, ScanStates
<1>7. Len(l) # 1 /\ l # <<f>> /\ Len(l) \in Nat
  <2>1. Len(<<f>>) = 1
    OBVIOUS
  <2> HIDE DEF l
  <2>2. Len(l) \in Nat
    BY <1>3, LenProperties
  <2>3. Len(l) # 1
    <3> DEFINE k == Len(l)
    <3>1. k \in Nat /\ k >= 2
      BY Zenon, <1>3, <2>2
    <3> HIDE DEF k
    <3>2. k # 1
      BY <3>1
    <3> QED
      BY <3>2 DEF k
  <2>4. l # <<f>>
    <3> DEFINE one == <<f>>
    <3>1. Len(one) = 1
      BY <2>1
    <3> HIDE DEF one
    <3>2. l # one
      BY <2>3, <3>1
    <3> QED
      BY <3>2 DEF one
  <2> QED
    BY <2>2, <2>3, <2>4
<1> HIDE DEF l, counted, w
<1>8. ScanLine(x, r) =
        IF Len(r) > MaxHeaderLine THEN Bad(x)
        ELSE IF x.count = MaxHeaders THEN [x EXCEPT !.verdict = "many"]
        ELSE IF f = "fold" THEN Bad(x)
        ELSE IF f \in Lengths THEN ScanLength(counted, l)
        ELSE IF f \in Codings THEN ScanCoding(counted, l)
        ELSE counted
  BY <1>3, Zenon DEF ScanLine, l, counted
<1>9. ScanLength(counted, l) = Bad(counted)
  BY <1>7 DEF ScanLength
<1>10. Dead(ScanCoding(counted, l)) \/ f \notin Codings
  <2>1. CASE counted.length # -1 \/ counted.coding # "none"
    BY <1>4, <1>5, <2>1 DEF ScanCoding
  <2>2. CASE ~(counted.length # -1 \/ counted.coding # "none")
    <3>1. l # <<"chunked">>
      BY <1>7
    <3>2. ScanCoding(counted, l) = [counted EXCEPT !.coding = "other"]
      BY <2>2, <3>1 DEF ScanCoding
    <3> QED
      BY <1>5, <3>2 DEF ScanStates, Dead
  <2> QED
    BY <2>1, <2>2
<1> QED
  BY <1>4, <1>5, <1>6, <1>8, <1>9, <1>10

\* A line beyond the limit makes the head be refused.
LEMMA GiantLine ==
    ASSUME NEW x \in ScanStates, NEW r, Len(r) > MaxHeaderLine
    PROVE  Dead(ScanLine(x, r))
<1>1. \A y \in ScanStates : Dead(Bad(y))
  BY DEF Bad, ScanStates, Dead
<1>2. ScanLine(x, r) = IF x.verdict # "ok" THEN x ELSE Bad(x)
  BY Zenon DEF ScanLine
<1> QED
  BY <1>1, <1>2 DEF Dead

\* A field that is not refused, as soon as it has been sent.
LEMMA GoodField ==
    ASSUME NEW x \in ScanStates, x.verdict = "ok", NEW f \in Fields, ~Refused(x, f)
    PROVE  ScanLine(x, <<f>>) = WithField(x, f) /\ WithField(x, f) \in ScanStates
<1> DEFINE l == <<f>>
           counted == [x EXCEPT !.count = @ + 1]
<1>1. f \in HttpLexemes /\ f # "CR" /\ f # "fold" /\ f # "gzip" /\ f # "CLbad" /\ x.count # MaxHeaders
  BY LexemeKinds DEF Refused
<1>2. l \in Seq(HttpLexemes) /\ l # <<>> /\ Len(l) = 1 /\ l[1] = f /\ l[Len(l)] # "CR"
  BY <1>1
<1>3. WithoutCR(l) = l
  <2> HIDE DEF l
  <2> QED
    BY <1>2, ReturnDropped
<1>4. ~(Len(l) > MaxHeaderLine)
  <2> HIDE DEF l
  <2> QED
    BY <1>2, HttpAssumption
<1>5. counted \in ScanStates /\ counted.length = x.length /\ counted.coding = x.coding
  BY DEF ScanStates
<1> HIDE DEF counted
<1>6. ScanLine(x, l) = IF f \in Lengths THEN ScanLength(counted, l)
                       ELSE IF f \in Codings THEN ScanCoding(counted, l) ELSE counted
  <2> HIDE DEF l
  <2> QED
    BY <1>1, <1>2, <1>3, <1>4, Zenon DEF ScanLine, counted
<1>7. \A u : u \in ScanStates => u = [length |-> u.length, coding |-> u.coding, verdict |-> u.verdict, count |-> u.count]
  BY DEF ScanStates
<1>8. x.count \in Nat /\ x.length \in Sizes /\ x.coding \in {"none", "chunked", "other"}
  BY DEF ScanStates
<1>12. counted = [length |-> x.length, coding |-> x.coding, verdict |-> "ok", count |-> x.count + 1]
  BY DEF counted, ScanStates
<1>9. CASE f \in Lengths
  <2>1. f \in DOMAIN LengthOf /\ f \notin Codings
    BY <1>1, <1>9, LexemeKinds DEF Lengths, Codings
  <2>2. LengthOf[f] \in Sizes
    <3>1. LengthOf[f] \in Nat
      BY <2>1, HttpAssumption DEF LengthOf
    <3> QED
      BY <3>1 DEF Sizes
  <2>3. x.coding = "none" /\ x.length \in {-1, LengthOf[f]}
    BY <2>1 DEF Refused
  <2>4. ScanLength(counted, l) = [counted EXCEPT !.length = LengthOf[f]]
    <3> HIDE DEF l
    <3> QED
      BY <1>2, <1>5, <2>1, <2>3 DEF ScanLength
  <2>5. [counted EXCEPT !.length = LengthOf[f]] = WithField(x, f)
    <3>1. WithField(x, f) = [length |-> LengthOf[f], coding |-> x.coding, verdict |-> "ok", count |-> x.count + 1]
      BY <2>1, Zenon DEF WithField
    <3>2. [counted EXCEPT !.length = LengthOf[f]]
            = [length |-> LengthOf[f], coding |-> x.coding, verdict |-> "ok", count |-> x.count + 1]
      BY <1>12
    <3> QED
      BY <3>1, <3>2
  <2>6. WithField(x, f) \in ScanStates
    BY <1>8, <2>1, <2>2 DEF WithField, ScanStates
  <2> QED
    BY <1>6, <1>9, <2>4, <2>5, <2>6
<1>10. CASE f \in Codings
  <2>1. f = "chunked" /\ f \notin Lengths /\ f \notin DOMAIN LengthOf
    BY <1>1, <1>10, LexemeKinds DEF Lengths, Codings
  <2>2. x.length = -1 /\ x.coding = "none"
    BY <1>10 DEF Refused
  <2>3. ScanCoding(counted, l) = [counted EXCEPT !.coding = "chunked"]
    BY <1>5, <2>1, <2>2 DEF ScanCoding
  <2>4. [counted EXCEPT !.coding = "chunked"] = WithField(x, f)
    <3>1. WithField(x, f) = [length |-> x.length, coding |-> "chunked", verdict |-> "ok", count |-> x.count + 1]
      <4>1. WithField(x, f) = [length |-> x.length, coding |-> f, verdict |-> "ok", count |-> x.count + 1]
        BY <1>10, <2>1, Zenon DEF WithField
      <4> QED
        BY <2>1, <4>1
    <3>2. [counted EXCEPT !.coding = "chunked"]
            = [length |-> x.length, coding |-> "chunked", verdict |-> "ok", count |-> x.count + 1]
      BY <1>12
    <3> QED
      BY <3>1, <3>2
  <2>5. WithField(x, f) \in ScanStates
    BY <1>8, <1>10, <2>1 DEF WithField, ScanStates
  <2> QED
    BY <1>6, <1>10, <2>1, <2>3, <2>4, <2>5
<1>11. CASE f \notin Lengths /\ f \notin Codings
  <2>1. f \notin DOMAIN LengthOf
    BY <1>11, LexemeKinds DEF Lengths
  <2>2. counted = WithField(x, f)
    <3>1. WithField(x, f) = [length |-> x.length, coding |-> x.coding, verdict |-> "ok", count |-> x.count + 1]
      BY <1>11, <2>1, Zenon DEF WithField
    <3>2. counted = [length |-> x.length, coding |-> x.coding, verdict |-> "ok", count |-> x.count + 1]
      BY DEF counted, ScanStates
    <3> QED
      BY <3>1, <3>2
  <2> QED
    BY <1>5, <1>6, <1>11, <2>2
<1> QED
  BY <1>9, <1>10, <1>11

\* A line the scan takes.
LEMMA OkLine ==
    ASSUME NEW x \in ScanStates, NEW r \in Seq(HttpLexemes), ScanLine(x, r).verdict = "ok", r # <<>>
    PROVE  /\ x.verdict = "ok" /\ ~ (Len(r) > MaxHeaderLine)
           /\ WithoutCR(r) # <<>> => x.count # MaxHeaders
<1>1. Bad(x).verdict = "bad" /\ [x EXCEPT !.verdict = "many"].verdict = "many"
  BY DEF Bad, ScanStates
<1>2. CASE x.verdict # "ok"
  <2>1. ScanLine(x, r) = x
    BY <1>2, Zenon DEF ScanLine
  <2> QED
    BY <1>2, <2>1
<1>3. CASE x.verdict = "ok" /\ Len(r) > MaxHeaderLine
  <2>1. ScanLine(x, r) = Bad(x)
    BY <1>3, Zenon DEF ScanLine
  <2> QED
    BY <1>1, <2>1
<1>4. CASE x.verdict = "ok" /\ ~(Len(r) > MaxHeaderLine) /\ WithoutCR(r) # <<>> /\ x.count = MaxHeaders
  <2>1. ScanLine(x, r) = [x EXCEPT !.verdict = "many"]
    BY <1>4, Zenon DEF ScanLine
  <2> QED
    BY <1>1, <2>1
<1> QED
  BY <1>2, <1>3, <1>4

\* A field that takes any value, whatever its value.
LEMMA PlainLine ==
    ASSUME NEW x \in ScanStates, x.verdict = "ok", x.count # MaxHeaders,
           NEW r \in Seq(HttpLexemes), ~ (Len(r) > MaxHeaderLine),
           NEW f \in Plain2, Begins(r, <<f>>)
    PROVE  ScanLine(x, r) = [x EXCEPT !.count = @ + 1]
<1>1. f \in Fields /\ f \notin Lengths /\ f \notin Codings /\ f # "fold"
  BY DEF Plain2, Fields, Lengths, Codings
<1>2. WithoutCR(r) # <<>> /\ WithoutCR(r)[1] = f
  BY <1>1, FieldFirst
<1> QED
  BY <1>1, <1>2, Zenon DEF ScanLine

\* The CR of a line says nothing, as long as it is within the limit.
LEMMA ReturnedLine ==
    ASSUME NEW x \in ScanStates, NEW l \in Seq(HttpLexemes), l # <<>> => l[Len(l)] # "CR",
           ~ (Len(l) + 1 > MaxHeaderLine)
    PROVE  ScanLine(x, Append(l, "CR")) = ScanLine(x, l)
<1> DEFINE r == Append(l, "CR")
<1>1. WithoutCR(r) = l /\ WithoutCR(l) = l
  BY ReturnDropped
<1>2. "CR" \in HttpLexemes
  BY LexemeKinds
<1>3. Len(r) = Len(l) + 1 /\ Len(l) \in Nat
  BY <1>2, OneMore
<1> HIDE DEF r
<1>4. ~(Len(r) > MaxHeaderLine) /\ ~(Len(l) > MaxHeaderLine)
  BY <1>3, HttpAssumption
<1>5. ScanLine(x, r) = ScanLine(x, l)
  BY <1>1, <1>4, Zenon DEF ScanLine
<1> QED
  BY <1>5 DEF r

LEMMA EmptyLine ==
    ASSUME NEW x \in ScanStates
    PROVE  ScanLine(x, <<>>) = x
<1>1. <<>> \in Seq(HttpLexemes) /\ Len(<<>>) = 0
  OBVIOUS
<1>2. WithoutCR(<<>>) = <<>>
  BY DEF WithoutCR
<1>3. ~(Len(<<>>) > MaxHeaderLine)
  BY <1>1, HttpAssumption
<1> QED
  BY <1>2, <1>3, Zenon DEF ScanLine

-----------------------------------------------------------------------------
(* A text as closed lines and one that is open *)

\* The header lines that have ended.
ClosedHeaders(c) == HeaderEnds(c) \cap Ends(c)

LEMMA LeastLine ==
    ASSUME NEW a \in Seq(HttpLexemes)
    PROVE  /\ Min(LineEnds(a)) \in Nat /\ Min(LineEnds(a)) \in LineEnds(a)
           /\ \A q \in LineEnds(a) : Min(LineEnds(a)) <= q
           /\ LineEnds(a) \subseteq 1 .. Len(a) + 1 /\ Ends(a) \subseteq 1 .. Len(a) /\ Len(a) \in Nat
<1>1. Ends(a) \subseteq 1 .. Len(a) /\ Len(a) \in Nat
  BY LenProperties DEF Ends
<1>2. LineEnds(a) \subseteq 1 .. Len(a) + 1 /\ Len(a) + 1 \in LineEnds(a)
  BY <1>1 DEF LineEnds
<1>3. LineEnds(a) \subseteq Nat /\ LineEnds(a) # {}
  BY <1>1, <1>2
<1> QED
  BY <1>1, <1>2, <1>3, MinIsLeast

\* What the lines of a text are when its last one is open, and when that ends.
OneLineMore(c, l, t, u) ==
    /\ t \in Seq(HttpLexemes) /\ u \in Seq(HttpLexemes) /\ Len(t) = Len(c) + Len(l) /\ Len(u) = Len(t) + 1
    /\ Len(c) \in Nat /\ Len(l) \in Nat
    /\ Ends(t) = Ends(c) /\ Ends(u) = Ends(c) \cup {Len(t) + 1} /\ LineEnds(t) = Ends(u)
    /\ Ends(c) \subseteq 1 .. Len(c)
    /\ \A p \in Ends(c) : LineUpTo(t, p) = LineUpTo(c, p) /\ LineUpTo(u, p) = LineUpTo(c, p)
    /\ LineUpTo(t, Len(t) + 1) = l /\ LineUpTo(u, Len(t) + 1) = l
    /\ Closed(u) /\ Begins(u, t) /\ Begins(t, c)
    /\ c # <<>> => /\ HeaderEnds(t) = ClosedHeaders(c) \cup {Len(t) + 1}
                   /\ ClosedHeaders(u) = ClosedHeaders(c) \cup {Len(t) + 1}
                   /\ FirstLine(t) = FirstLine(c) /\ FirstLine(u) = FirstLine(c)
    /\ c = <<>> => /\ HeaderEnds(t) = {} /\ ClosedHeaders(u) = {}
                   /\ FirstLine(t) = l /\ FirstLine(u) = l

\* What is sent later does not change the lines that have ended.
LEMMA LinesStay ==
    ASSUME NEW a \in Seq(HttpLexemes), NEW c \in Seq(HttpLexemes), Begins(a, c)
    PROVE  /\ \A p \in Ends(c) : p \in Ends(a) /\ LineUpTo(a, p) = LineUpTo(c, p)
           /\ \A p \in Ends(a) : p <= Len(c) => p \in Ends(c)
<1> DEFINE n == Len(c)
<1>1. n \in Nat /\ n <= Len(a) /\ n <= Len(c) /\ \A i \in 1 .. n : a[i] = c[i]
  BY LenProperties DEF Begins
<1>2. Ends(c) \subseteq 1 .. n /\ Ends(a) \subseteq 1 .. Len(a) /\ Len(a) \in Nat
  BY LenProperties DEF Ends
<1> HIDE DEF n
<1>3. /\ \A p \in 1 .. n : p \in Ends(a) <=> p \in Ends(c)
      /\ \A p \in 1 .. n + 1 : LineUpTo(a, p) = LineUpTo(c, p)
  BY <1>1, SameLines, Zenon
<1>4. \A p \in Ends(c) : p \in 1 .. n + 1
  BY <1>1, <1>2
<1>5. \A p \in Ends(a) : p <= n => p \in 1 .. n
  BY <1>1, <1>2
<1> QED
  BY <1>2, <1>3, <1>4, <1>5 DEF n

LEMMA LinesGrow ==
    ASSUME NEW c \in Seq(HttpLexemes), NEW l \in Seq(HttpLexemes), Closed(c), InLine(l),
           NEW t, t = c \o l, NEW u, u = t \o <<"LF">>
    PROVE  OneLineMore(c, l, t, u)
<1>1. /\ t \in Seq(HttpLexemes) /\ Len(t) = Len(c) + Len(l) /\ Len(c) \in Nat /\ Len(l) \in Nat
      /\ Len(t) \in Nat
  BY ConcatSizes
<1>2. "LF" \in HttpLexemes
  BY LexemeKinds
<1>3. u \in Seq(HttpLexemes) /\ Len(u) = Len(t) + 1 /\ u[Len(t) + 1] = "LF" /\ \A i \in 1 .. Len(t) : u[i] = t[i]
  BY <1>1, <1>2, Added
<1>4. (\A i \in 1 .. Len(c) : t[i] = c[i]) /\ (\A i \in 1 .. Len(l) : t[Len(c) + i] = l[i])
  BY ConcatParts
<1>5. \A i \in 1 .. Len(c) : u[i] = c[i]
  BY <1>1, <1>3, <1>4
<1>6. DOMAIN c = 1 .. Len(c) /\ DOMAIN t = 1 .. Len(t) /\ DOMAIN u = 1 .. Len(u)
  BY <1>1, <1>3, LenProperties
<1>7. \A i \in 1 .. Len(t) : i \in 1 .. Len(c) \/ (i - Len(c) \in 1 .. Len(l) /\ i = Len(c) + (i - Len(c)))
  BY <1>1
<1>8. \A i \in 1 .. Len(t) : i \notin 1 .. Len(c) => t[i] # "LF"
  BY <1>4, <1>7 DEF InLine, Without
<1>9. Ends(t) = Ends(c)
  BY <1>1, <1>4, <1>6, <1>8 DEF Ends
<1>10. Ends(u) = Ends(c) \cup {Len(t) + 1}
  <2>1. \A i \in 1 .. Len(u) : i = Len(t) + 1 \/ i \in 1 .. Len(t)
    BY <1>1, <1>3
  <2>2. Len(t) + 1 \in 1 .. Len(u)
    BY <1>1, <1>3
  <2>3. \A i \in 1 .. Len(t) : i \in 1 .. Len(u)
    BY <1>1, <1>3
  <2>4. Ends(u) = Ends(t) \cup {Len(t) + 1}
    BY <1>3, <1>6, <2>1, <2>2, <2>3 DEF Ends
  <2> QED
    BY <1>9, <2>4
<1>11. LineEnds(t) = Ends(u)
  BY <1>9, <1>10 DEF LineEnds
<1>12. Ends(c) \subseteq 1 .. Len(c)
  BY <1>6 DEF Ends
<1>13. ASSUME NEW p \in Ends(c) PROVE LineUpTo(t, p) = LineUpTo(c, p) /\ LineUpTo(u, p) = LineUpTo(c, p)
  <2>1. Begins(t, c) /\ Begins(u, c)
    BY <1>1, <1>3, <1>4, <1>5 DEF Begins
  <2>2. LineUpTo(t, p) = LineUpTo(c, p)
    BY <1>1, <2>1, LinesStay, Zenon
  <2>3. LineUpTo(u, p) = LineUpTo(c, p)
    BY <1>3, <2>1, LinesStay, Zenon
  <2> QED
    BY <2>2, <2>3
<1>14. Closed(u)
  BY <1>3 DEF Closed
<1>15. Begins(u, t) /\ Begins(t, c)
  BY <1>1, <1>3, <1>4 DEF Begins
<1>16. ASSUME NEW a \in {t, u}
       PROVE  LineUpTo(a, Len(t) + 1) = l
  <2>1. a \in Seq(HttpLexemes) /\ Len(t) + 1 \in LineEnds(a)
    BY <1>1, <1>3, <1>10, <1>11, <1>16 DEF LineEnds
  <2>2. Begins(a, c \o l)
    <3>1. Begins(t, t)
      BY <1>1 DEF Begins
    <3> QED
      BY <1>15, <1>16, <3>1
  <2>3. PICK p \in LineEnds(a) :
              /\ p > Len(c) + Len(l) /\ p \in Nat
              /\ LineUpTo(a, p) \in Seq(HttpLexemes) /\ Begins(LineUpTo(a, p), l)
              /\ InLine(LineUpTo(a, p)) /\ Len(LineUpTo(a, p)) = p - 1 - Len(c)
              /\ \A q \in LineEnds(a) : q > Len(c) => p <= q
    BY <2>1, <2>2, OpenLine
  <2> DEFINE i == Len(c)
             j == Len(l)
             k == Len(LineUpTo(a, p))
             e == Len(t)
  <2>6. i \in Nat /\ j \in Nat /\ e = i + j /\ e \in Nat
    BY <1>1
  <2>7. p \in Nat /\ p > i + j /\ k = p - 1 - i
    BY <2>3
  <2>8. \A q \in LineEnds(a) : q > i => p <= q
    BY <2>3
  <2>9. e + 1 \in LineEnds(a)
    BY <2>1
  <2> HIDE DEF i, j, k, e
  <2>10. e + 1 > i
    BY <2>6
  <2>11. p <= e + 1
    BY <2>8, <2>9, <2>10
  <2>12. p = e + 1 /\ k = j
    BY <2>6, <2>7, <2>11
  <2>4. p = Len(t) + 1
    BY <2>12 DEF e
  <2>5. Len(LineUpTo(a, p)) = Len(l)
    BY <2>12 DEF k, j
  <2> QED
    BY <2>3, <2>4, <2>5, BeginsIs
<1>17. ASSUME c # <<>>
       PROVE  /\ HeaderEnds(t) = ClosedHeaders(c) \cup {Len(t) + 1}
              /\ ClosedHeaders(u) = ClosedHeaders(c) \cup {Len(t) + 1}
              /\ FirstLine(t) = FirstLine(c) /\ FirstLine(u) = FirstLine(c)
  <2>1. Begins(u, c)
    BY <1>1, <1>3, <1>5 DEF Begins
  <2> DEFINE m == Min(LineEnds(c))
  <2>2. Min(LineEnds(t)) = m /\ Min(LineEnds(u)) = m /\ m \in Ends(c) /\ m <= Len(c) /\ m \in Nat
        /\ FirstLine(t) = FirstLine(c) /\ FirstLine(u) = FirstLine(c)
    BY <1>1, <1>3, <1>15, <1>17, <2>1, FirstStays
  <2> HIDE DEF m
  <2>3. HeaderEnds(t) = LineEnds(t) \ {m} /\ HeaderEnds(c) = LineEnds(c) \ {m} /\ HeaderEnds(u) = LineEnds(u) \ {m}
    BY <2>2 DEF HeaderEnds, m
  <2>4. Len(t) + 1 # m
    BY <1>1, <2>2
  <2>5. ClosedHeaders(c) = Ends(c) \ {m} /\ ClosedHeaders(u) = Ends(u) \ {m}
    BY <2>3 DEF ClosedHeaders, LineEnds
  <2> QED
    BY <1>10, <1>11, <2>2, <2>3, <2>4, <2>5
<1>18. ASSUME c = <<>>
       PROVE  HeaderEnds(t) = {} /\ ClosedHeaders(u) = {} /\ FirstLine(t) = l /\ FirstLine(u) = l
  <2>1. Len(c) = 0 /\ Ends(c) = {}
    BY <1>12, <1>18
  <2>2. LineEnds(t) = {Len(t) + 1} /\ LineEnds(u) = {Len(t) + 1, Len(u) + 1} /\ Ends(u) = {Len(t) + 1}
    BY <1>10, <1>11, <2>1 DEF LineEnds
  <2>3. Min(LineEnds(t)) = Len(t) + 1
    BY <1>1, <2>2, LeastLine
  <2>4. Min(LineEnds(u)) = Len(t) + 1
    <3> DEFINE m == Min(LineEnds(u))
    <3>1. m \in LineEnds(u) /\ m <= Len(t) + 1
      BY <1>3, <2>2, LeastLine
    <3> HIDE DEF m
    <3>2. m = Len(t) + 1
      BY <1>1, <1>3, <2>2, <3>1
    <3> QED
      BY <3>2 DEF m
  <2> QED
    BY <1>16, <2>2, <2>3, <2>4 DEF HeaderEnds, ClosedHeaders, FirstLine
<1> QED
  BY <1>1, <1>3, <1>9, <1>10, <1>11, <1>12, <1>13, <1>14, <1>15, <1>16, <1>17, <1>18 DEF OneLineMore

-----------------------------------------------------------------------------
(* A head that is still on its way *)

\* No line that has ended is empty, or a lone CR.
NoneBlank(c) == \A p \in Ends(c) : LineUpTo(c, p) # <<>> /\ LineUpTo(c, p) # <<"CR">>

LEMMA OneLexeme ==
    ASSUME NEW S, NEW s \in Seq(S), Len(s) = 1
    PROVE  s = <<s[1]>>
<1> QED
  OBVIOUS

LEMMA NoTerminator ==
    ASSUME NEW s \in Seq(HttpLexemes), NoneBlank(s)
    PROVE  /\ Find(s, Blank2) = 0 /\ Find(s, Blank4) = 0
           /\ HeadBounds(s).end = Npos
<1>1. DOMAIN s = 1 .. Len(s) /\ Len(s) \in Nat
  BY LenProperties
<1>2. Find(s, Blank2) = 0
  <2> DEFINE p == Find(s, Blank2)
  <2>1. SUFFICES ASSUME p # 0 PROVE FALSE
    OBVIOUS
  <2>2. p \in Nat /\ p + 2 <= Len(s) + 1 /\ At(s, p, Blank2)
    BY <2>1, FindIs, Patterns
  <2> HIDE DEF p
  <2>3. 1 \in DOMAIN Blank2 /\ 2 \in DOMAIN Blank2 /\ Blank2[1] = "LF" /\ Blank2[2] = "LF"
    BY DEF Blank2
  <2>4. s[p + 1 - 1] = "LF" /\ s[p + 2 - 1] = "LF"
    BY <2>2, <2>3, Zenon DEF At
  <2> DEFINE e == p + 1
  <2>5. p + 1 - 1 = p /\ p + 2 - 1 = e /\ p \in 1 .. Len(s) /\ e \in 1 .. Len(s) /\ e \in Nat
        /\ p < e /\ e - 1 = p /\ e - 1 < p + 1 /\ \A q \in 1 .. Len(s) : p < q => e <= q
    BY <1>1, <2>1, <2>2
  <2> HIDE DEF e
  <2>6. p \in Ends(s) /\ e \in Ends(s) /\ \A q \in Ends(s) : p < q => e <= q
    BY <1>1, <2>4, <2>5 DEF Ends
  <2>7. LineUpTo(s, e) = SubSeq(s, p + 1, e - 1)
    BY <2>2, <2>5, <2>6, LineIs, Zenon
  <2>8. LineUpTo(s, e) = <<>>
    BY <2>2, <2>5, <2>7
  <2> QED
    BY <2>6, <2>8 DEF NoneBlank
<1>3. Find(s, Blank4) = 0
  <2> DEFINE p == Find(s, Blank4)
  <2>1. SUFFICES ASSUME p # 0 PROVE FALSE
    OBVIOUS
  <2>2. p \in Nat /\ p + 4 <= Len(s) + 1 /\ At(s, p, Blank4)
    BY <2>1, FindIs, Patterns
  <2> HIDE DEF p
  <2>3. 2 \in DOMAIN Blank4 /\ 3 \in DOMAIN Blank4 /\ 4 \in DOMAIN Blank4
        /\ Blank4[2] = "LF" /\ Blank4[3] = "CR" /\ Blank4[4] = "LF"
    BY DEF Blank4
  <2>4. s[p + 2 - 1] = "LF" /\ s[p + 3 - 1] = "CR" /\ s[p + 4 - 1] = "LF"
    BY <2>2, <2>3, Zenon DEF At
  <2> DEFINE m == p + 1
             e == p + 3
  <2>5. p + 2 - 1 = m /\ p + 3 - 1 = m + 1 /\ p + 4 - 1 = e /\ m \in 1 .. Len(s) /\ m + 1 \in 1 .. Len(s)
        /\ e \in 1 .. Len(s) /\ e \in Nat /\ m \in Nat /\ m < e /\ e - 1 = m + 1
        /\ \A q \in 1 .. Len(s) : m < q => q = m + 1 \/ e <= q
    BY <1>1, <2>1, <2>2
  <2> HIDE DEF m, e
  <2>6. m \in Ends(s) /\ e \in Ends(s) /\ \A q \in Ends(s) : m < q => e <= q
    BY <1>1, <2>4, <2>5 DEF Ends
  <2>7. LineUpTo(s, e) = SubSeq(s, m + 1, m + 1)
    BY <2>5, <2>6, LineIs, Zenon
  <2>8. LineUpTo(s, e) = <<"CR">>
    <3>1. m + 1 <= Len(s) /\ m <= m + 1 /\ m + 1 - m = 1 /\ 1 \in 1 .. 1 /\ m + 1 \in Nat
      BY <1>1, <2>5
    <3>2. /\ SubSeq(s, m + 1, m + 1) \in Seq(HttpLexemes) /\ Len(SubSeq(s, m + 1, m + 1)) = 1
          /\ SubSeq(s, m + 1, m + 1)[1] = s[m + 1]
      BY <2>5, <3>1, Stretch
    <3> QED
      BY <2>4, <2>5, <2>7, <3>2, OneLexeme
  <2> QED
    BY <2>6, <2>8 DEF NoneBlank
<1> QED
  BY <1>2, <1>3 DEF HeadBounds, Blank2, Blank4

\* Neither a giant line nor too many.
LEMMA PartialHead ==
    ASSUME NEW s \in Seq(HttpLexemes), NoneBlank(s),
           \A p \in LineEnds(s) : ~ (Len(LineUpTo(s, p)) > MaxHeaderLine),
           ~ (Cardinality(Ends(s)) > MaxHeaders + 1)
    PROVE  Inspect(s).framing = "incomplete"
<1>1. Giants(s) = {}
  BY Zenon DEF Giants
<1>2. Ends(s) \subseteq 1 .. Len(s) /\ Len(s) \in Nat
  BY LenProperties DEF Ends
<1>3. Min({Len(s) + 2}) = Len(s) + 2
  <2> DEFINE n == Len(s) + 2
  <2>1. {n} \subseteq Nat /\ {n} # {}
    BY <1>2
  <2> HIDE DEF n
  <2>2. Min({n}) \in {n}
    BY <2>1, MinIsLeast
  <2> QED
    BY <2>2 DEF n
<1>4. {p \in Ends(s) : p <= Len(s) + 2} = Ends(s)
  BY <1>2
<1>5. Giants(s) \cup {Len(s) + 2} = {Len(s) + 2}
  BY <1>1
<1>6. InspectPartial(s) = Framed("incomplete", 0)
  BY <1>1, <1>3, <1>4, <1>5 DEF InspectPartial
<1> QED
  BY <1>6, NoTerminator DEF Inspect, Framed

\* The head ends in a bare LF behind the LF of its last line.
LEMMA BareEnd ==
    ASSUME NEW s \in Seq(HttpLexemes), NoneBlank(s), s # <<>>, s[Len(s)] = "LF"
    PROVE  HeadBounds(Append(s, "LF")) = [end |-> Len(s) - 1, separator |-> 2] /\ Len(s) \in Nat /\ Len(s) > 0
<1> DEFINE u == Append(s, "LF")
           n == Len(s)
<1>1. "LF" \in HttpLexemes
  BY LexemeKinds
<1>2. u \in Seq(HttpLexemes) /\ n \in Nat /\ Len(u) = n + 1 /\ u[n + 1] = "LF" /\ \A i \in 1 .. n : u[i] = s[i]
  BY <1>1, OneMore
<1>3. n > 0
  BY <1>2
<1>4. u[n] = "LF"
  BY <1>2, <1>3
<1>5. Find(s, Blank2) = 0 /\ Find(s, Blank4) = 0
  BY NoTerminator
<1>6. /\ Find(u, Blank2) \in Nat /\ (Find(u, Blank2) = 0 \/ Find(u, Blank2) + Len(Blank2) = n + 2)
      /\ (Find(u, Blank4) = 0 \/ (Find(u, Blank4) + Len(Blank4) = n + 2 /\ At(u, Find(u, Blank4), Blank4)))
      /\ Find(u, Blank4) \in Nat
  <2>1. /\ Find(u, Blank2) \in Nat /\ (Find(u, Blank2) # 0 => At(u, Find(u, Blank2), Blank2))
        /\ Find(u, Blank4) \in Nat /\ (Find(u, Blank4) # 0 => At(u, Find(u, Blank4), Blank4))
    BY <1>2, FindIs, Patterns
  <2>2. /\ Find(u, Blank2) = 0 \/ Find(u, Blank2) + Len(Blank2) = n + 2
        /\ Find(u, Blank4) = 0 \/ Find(u, Blank4) + Len(Blank4) = n + 2
    BY <1>1, <1>5, FindStays, Patterns
  <2> QED
    BY <2>1, <2>2
<1>7. At(u, n, Blank2)
  <2>1. n + 1 - 1 = n /\ n + 2 - 1 = n + 1
    BY <1>2
  <2>2. DOMAIN Blank2 = {1, 2} /\ Blank2[1] = "LF" /\ Blank2[2] = "LF"
    BY DEF Blank2
  <2> HIDE DEF u, n
  <2> QED
    BY <1>2, <1>4, <2>1, <2>2, Zenon DEF At
<1>8. Find(u, Blank2) # 0
  <2> HIDE DEF u, n
  <2>1. n + Len(Blank2) <= Len(u) + 1
    BY <1>2, Patterns
  <2> QED
    BY <1>2, <1>3, <1>7, <2>1, FindIs, Patterns, Zenon
<1>9. Find(u, Blank4) = 0
  <2> DEFINE p == Find(u, Blank4)
  <2>1. SUFFICES ASSUME p # 0 PROVE FALSE
    OBVIOUS
  <2>2. p \in Nat /\ p + 4 = n + 2 /\ At(u, p, Blank4)
    BY <1>6, <2>1, Patterns
  <2>3. 3 \in DOMAIN Blank4 /\ Blank4[3] = "CR"
    BY DEF Blank4
  <2> HIDE DEF p, u
  <2>4. u[p + 3 - 1] = "CR"
    BY <2>2, <2>3, Zenon DEF At
  <2>5. p + 3 - 1 = n
    BY <1>2, <2>2
  <2> QED
    BY <1>4, <2>4, <2>5
<1> HIDE DEF u
<1>10. Find(u, Blank2) = n
  BY <1>2, <1>6, <1>8, Patterns
<1> QED
  BY <1>2, <1>3, <1>9, <1>10 DEF HeadBounds, Blank2, Blank4, u, n

\* The head ends in CRLF behind the CRLF of its last line.
LEMMA FullEnd ==
    ASSUME NEW s \in Seq(HttpLexemes), NoneBlank(s), NEW n, n = Len(s), n > 2,
           s[n] = "CR", s[n - 1] = "LF", s[n - 2] = "CR"
    PROVE  HeadBounds(Append(s, "LF")) = [end |-> n - 3, separator |-> 4]
<1> DEFINE u == Append(s, "LF")
<1>1. "LF" \in HttpLexemes
  BY LexemeKinds
<1>2. u \in Seq(HttpLexemes) /\ n \in Nat /\ Len(u) = n + 1 /\ u[n + 1] = "LF" /\ \A i \in 1 .. n : u[i] = s[i]
  BY <1>1, OneMore
<1>4. u[n] = "CR" /\ u[n - 1] = "LF" /\ u[n - 2] = "CR"
  <2>1. n \in 1 .. n /\ n - 1 \in 1 .. n /\ n - 2 \in 1 .. n
    BY <1>2
  <2> QED
    BY <1>2, <2>1
<1>5. Find(s, Blank2) = 0 /\ Find(s, Blank4) = 0
  BY NoTerminator
<1>6. /\ Find(u, Blank4) \in Nat /\ (Find(u, Blank4) = 0 \/ Find(u, Blank4) + Len(Blank4) = n + 2)
      /\ (Find(u, Blank2) = 0 \/ (Find(u, Blank2) + Len(Blank2) = n + 2 /\ At(u, Find(u, Blank2), Blank2)))
      /\ Find(u, Blank2) \in Nat
  <2>1. /\ Find(u, Blank4) = 0 \/ (Find(u, Blank4) + Len(Blank4) = Len(s) + 2 /\ At(u, Find(u, Blank4), Blank4))
        /\ Find(u, Blank2) = 0 \/ (Find(u, Blank2) + Len(Blank2) = Len(s) + 2 /\ At(u, Find(u, Blank2), Blank2))
    BY <1>1, <1>5, FindStays, Patterns
  <2>2. Find(u, Blank4) \in Nat /\ Find(u, Blank2) \in Nat
    BY <1>2, FindIs, Patterns
  <2> QED
    BY <2>1, <2>2
<1> HIDE DEF u
<1>7. At(u, n - 2, Blank4)
  <2>1. n - 2 + 1 - 1 = n - 2 /\ n - 2 + 2 - 1 = n - 1 /\ n - 2 + 3 - 1 = n /\ n - 2 + 4 - 1 = n + 1
    BY <1>2
  <2>2. DOMAIN Blank4 = {1, 2, 3, 4} /\ Blank4[1] = "CR" /\ Blank4[2] = "LF" /\ Blank4[3] = "CR" /\ Blank4[4] = "LF"
    BY DEF Blank4
  <2>3. SUFFICES ASSUME NEW i \in {1, 2, 3, 4} PROVE u[n - 2 + i - 1] = Blank4[i]
    BY <2>2, Zenon DEF At
  <2>4. CASE i = 1
    BY <1>4, <2>1, <2>2, <2>4
  <2>5. CASE i = 2
    BY <1>4, <2>1, <2>2, <2>5
  <2>6. CASE i = 3
    BY <1>4, <2>1, <2>2, <2>6
  <2>7. CASE i = 4
    BY <1>2, <2>1, <2>2, <2>7
  <2> QED
    BY <2>3, <2>4, <2>5, <2>6, <2>7
<1>8. Find(u, Blank4) # 0
  <2>1. n - 2 \in Nat /\ n - 2 > 0 /\ n - 2 + Len(Blank4) <= Len(u) + 1
    BY <1>2, Patterns
  <2> QED
    BY <1>2, <1>7, <2>1, FindIs, Patterns
<1>9. Find(u, Blank2) = 0
  <2> DEFINE p == Find(u, Blank2)
  <2>1. SUFFICES ASSUME p # 0 PROVE FALSE
    OBVIOUS
  <2>2. p \in Nat /\ p + 2 = n + 2 /\ At(u, p, Blank2)
    BY <1>6, <2>1, Patterns
  <2>3. 1 \in DOMAIN Blank2 /\ Blank2[1] = "LF"
    BY DEF Blank2
  <2> HIDE DEF p
  <2>4. u[p + 1 - 1] = "LF"
    BY <2>2, <2>3, Zenon DEF At
  <2>5. p + 1 - 1 = n
    BY <1>2, <2>2
  <2> QED
    BY <1>4, <2>4, <2>5
<1>10. Find(u, Blank4) = n - 2 /\ n - 2 # 0
  BY <1>2, <1>6, <1>8, Patterns
<1>11. n - 2 - 1 = n - 3
  BY <1>2
<1> QED
  BY <1>9, <1>10, <1>11 DEF HeadBounds, Blank2, Blank4, u

-----------------------------------------------------------------------------
(* The lines of a well-formed head *)

HostEnds(c) == {p \in ClosedHeaders(c) : LineUpTo(c, p)[1] = "Host"}
Counts(S, k) == (k = 0 /\ S = {}) \/ (k = 1 /\ \E h \in S : S = {h})

\* A line a well-formed head may hold.
LineOk(l, bare) ==
    /\ l \in Seq(HttpLexemes) /\ InLine(l) /\ l # <<>> /\ l # <<"CR">>
    /\ ~ (Len(l) > MaxHeaderLine)
    /\ ~bare => l[Len(l)] = "CR"

\* Closed lines of a well-formed head, which the scan has made x of.
ClosedOk(c, x, bare, version, k) ==
    /\ c \in Seq(HttpLexemes) /\ Closed(c) /\ c # <<>> /\ Known(c, x)
    /\ NoneBlank(c) /\ \A p \in Ends(c) : ~ (Len(LineUpTo(c, p)) > MaxHeaderLine)
    /\ ~bare => \A p \in Ends(c) : Last(LineUpTo(c, p)) = "CR"
    /\ bare => version = "1.0"
    /\ WithoutCR(FirstLine(c)) = <<version>>
    /\ \A p \in ClosedHeaders(c) : LineUpTo(c, p)[1] \in Fields
    /\ IsFiniteSet(Ends(c)) /\ Cardinality(Ends(c)) <= x.count + 1
    /\ Counts(HostEnds(c), k)

LEMMA KnownFirst ==
    ASSUME NEW l \in Seq(HttpLexemes), InLine(l), ~ (Len(l) > MaxHeaderLine)
    PROVE  Known(l \o <<"LF">>, NoScan) /\ ScanHead(l) = NoScan
<1> DEFINE u == l \o <<"LF">>
           n == Len(l)
<1>1. "LF" \in HttpLexemes
  BY LexemeKinds
<1>2. u \in Seq(HttpLexemes) /\ Len(u) = n + 1 /\ u[n + 1] = "LF" /\ n \in Nat /\ \A i \in 1 .. n : u[i] = l[i]
  BY <1>1, Added, LenProperties
<1>3. ASSUME NEW h \in Seq(HttpLexemes), Begins(h, l)
      PROVE  /\ Min(LineEnds(h)) \in Nat /\ Min(LineEnds(h)) > n /\ Min(LineEnds(h)) \in LineEnds(h)
             /\ \A q \in LineEnds(h) : Min(LineEnds(h)) <= q
             /\ Len(FirstLine(h)) = Min(LineEnds(h)) - 1
             /\ Len(h) \in Nat /\ DOMAIN h = 1 .. Len(h) /\ n <= Len(h)
             /\ \A g : Scanning(h, g) => g[n] = NoScan
  <2>1. /\ Min(LineEnds(h)) \in Nat /\ Min(LineEnds(h)) > Len(l) /\ Min(LineEnds(h)) \in LineEnds(h)
        /\ \A q \in LineEnds(h) : Min(LineEnds(h)) <= q
        /\ Len(FirstLine(h)) = Min(LineEnds(h)) - 1
    BY <1>3, FirstGrows
  <2>2. Len(h) \in Nat /\ DOMAIN h = 1 .. Len(h) /\ n <= Len(h)
    BY <1>3, LenProperties DEF Begins
  <2> DEFINE m == Min(LineEnds(h))
  <2>3. m \in Nat /\ m > n /\ \A q \in LineEnds(h) : m <= q
    BY <2>1
  <2> HIDE DEF m, n
  <2>4. \A k \in 0 + 1 .. n : k \notin LineEnds(h)
    BY <1>2, <2>3
  <2>5. ASSUME NEW g, Scanning(h, g) PROVE g[n] = NoScan
    <3>1. 0 <= n /\ n <= Len(h) + 1 /\ 0 \in Nat
      BY <1>2, <2>2
    <3>2. g[n] = g[0]
      BY <1>2, <2>2, <2>4, <2>5, <3>1, ScanRests, Zenon
    <3> QED
      BY <2>5, <3>2 DEF Scanning
  <2> QED
    BY <2>1, <2>2, <2>5 DEF n
<1>4. ASSUME NEW h \in Seq(HttpLexemes), NEW g, Begins(h, u), Scanning(h, g)
      PROVE  g[Len(u)] = NoScan
  <2>1. Begins(h, l)
    BY <1>2, <1>4 DEF Begins
  <2> DEFINE m == Min(LineEnds(h))
             f == Len(FirstLine(h))
  <2>2. /\ m \in Nat /\ m > n /\ m \in LineEnds(h)
        /\ \A q \in LineEnds(h) : m <= q
        /\ f = m - 1
        /\ Len(h) \in Nat /\ DOMAIN h = 1 .. Len(h) /\ n <= Len(h)
        /\ g[n] = NoScan
    BY <1>3, <1>4, <2>1
  <2>3. h[n + 1] = "LF" /\ n + 1 \in 1 .. Len(h)
    BY <1>2, <1>4, <2>2 DEF Begins
  <2>4. n + 1 \in Ends(h) /\ n + 1 \in LineEnds(h)
    BY <2>2, <2>3 DEF Ends, LineEnds
  <2>5. HeaderEnds(h) = LineEnds(h) \ {m}
    BY DEF HeaderEnds
  <2> HIDE DEF m, f, n
  <2>6. m = n + 1 /\ f = n
    BY <1>2, <2>2, <2>4
  <2>7. n + 1 \in 1 .. Len(h) + 1 /\ n + 1 - 1 = n
    BY <1>2, <2>2, <2>3
  <2>8. g[n + 1] = ScanTo(h, n + 1, g[n])
    <3> DEFINE e == n + 1
    <3>1. e \in 1 .. Len(h) + 1 /\ e - 1 = n
      BY <1>2, <2>7
    <3> HIDE DEF e
    <3>2. g[e] = ScanTo(h, e, g[e - 1])
      BY <1>4, <3>1, Zenon DEF Scanning
    <3> QED
      BY <3>1, <3>2 DEF e
  <2>9. n + 1 \notin HeaderEnds(h) /\ ~ (Len(FirstLine(h)) > MaxHeaderLine)
    <3>1. n + 1 \notin HeaderEnds(h)
      BY <2>5, <2>6
    <3>2. ~ (n > MaxHeaderLine)
      BY DEF n
    <3>3. ~ (f > MaxHeaderLine)
      BY <2>6, <3>2
    <3> QED
      BY <3>1, <3>3 DEF f
  <2> QED
    BY <1>2, <2>2, <2>8, <2>9 DEF ScanTo
<1>5. ScanHead(l) = NoScan
  <2>1. PICK g : Scanning(l, g) /\ ScanHead(l) = g[Len(l) + 1]
    BY ScanHeadScans
  <2>2. Begins(l, l)
    BY <1>2 DEF Begins
  <2> DEFINE m == Min(LineEnds(l))
  <2>3. m \in Nat /\ m > n /\ m \in LineEnds(l) /\ g[n] = NoScan /\ (\A q \in LineEnds(l) : m <= q) /\ DOMAIN l = 1 .. n
    BY <1>3, <2>1, <2>2
  <2>4. n + 1 \in LineEnds(l) /\ HeaderEnds(l) = LineEnds(l) \ {m}
    BY DEF LineEnds, HeaderEnds
  <2>5. n + 1 \notin Ends(l)
    BY <1>2, <2>3 DEF Ends
  <2> HIDE DEF m, n
  <2>6. m = n + 1
    BY <1>2, <2>3, <2>4
  <2>7. n + 1 \in 1 .. n + 1 /\ n + 1 - 1 = n
    BY <1>2
  <2>8. g[n + 1] = ScanTo(l, n + 1, g[n])
    BY <2>1, <2>7 DEF Scanning, n
  <2> QED
    BY <2>1, <2>3, <2>4, <2>5, <2>6, <2>8 DEF ScanTo, n
<1> QED
  BY <1>4, <1>5 DEF Known

LEMMA NoneLeft ==
    ASSUME NEW l \in Seq(HttpLexemes), l # <<>>, l # <<"CR">>
    PROVE  WithoutCR(l) # <<>>
<1>1. CASE Last(l) = "CR"
  <2>1. WithoutCR(l) = Front(l)
    BY <1>1 DEF WithoutCR
  <2>2. Len(l) \in Nat /\ Len(l) # 0
    OBVIOUS
  <2>3. ASSUME Front(l) = <<>> PROVE FALSE
    <3> DEFINE n == Len(l)
               m == n - 1
    <3>3. m \in Nat /\ m <= n /\ n \in Nat
      BY <2>2
    <3>4. Front(l) = SubSeq(l, 1, m)
      BY DEF Front
    <3> HIDE DEF m
    <3>5. Len(SubSeq(l, 1, m)) = m
      BY <3>3, Prefix
    <3>7. Len(<<>>) = 0
      OBVIOUS
    <3>6. m = 0
      BY <2>3, <3>4, <3>5, <3>7, Zenon
    <3>1. Len(l) = 1
      BY <2>2, <3>6 DEF m
    <3>2. l = <<l[1]>> /\ l[1] = "CR"
      BY <1>1, <3>1, OneLexeme DEF Last
    <3> QED
      BY <3>2
  <2> QED
    BY <2>1, <2>3
<1>2. CASE Last(l) # "CR"
  BY <1>2 DEF WithoutCR
<1> QED
  BY <1>1, <1>2

LEMMA OneEndMore ==
    ASSUME NEW S, NEW p, p \notin S, IsFiniteSet(S)
    PROVE  /\ IsFiniteSet(S \cup {p}) /\ Cardinality(S \cup {p}) = Cardinality(S) + 1
           /\ Cardinality(S) \in Nat
<1> QED
  BY FS_AddElement, FS_CardinalityType

\* The request line, and nothing else yet.
LEMMA FirstClosed ==
    ASSUME NEW l \in Seq(HttpLexemes), NEW bare \in BOOLEAN, LineOk(l, bare), NEW version,
           WithoutCR(l) = <<version>>, bare => version = "1.0"
    PROVE  ClosedOk(l \o <<"LF">>, NoScan, bare, version, 0)
<1> DEFINE t == <<>> \o l
           u == l \o <<"LF">>
<1>1. <<>> \in Seq(HttpLexemes) /\ Closed(<<>>) /\ InLine(l) /\ t = l /\ l # <<>> /\ l # <<"CR">>
      /\ ~ (Len(l) > MaxHeaderLine) /\ (~bare => l[Len(l)] = "CR") /\ Len(l) \in Nat
  BY DEF Closed, LineOk
<1>2. OneLineMore(<<>>, l, t, u)
  BY <1>1, LinesGrow, Zenon
<1>3. Known(u, NoScan)
  BY <1>1, KnownFirst
<1> HIDE DEF t, u
<1>4. /\ u \in Seq(HttpLexemes) /\ Closed(u) /\ Ends(u) = {Len(t) + 1} /\ LineUpTo(u, Len(t) + 1) = l
      /\ ClosedHeaders(u) = {} /\ FirstLine(u) = l /\ Len(u) = Len(t) + 1
  <2>1. Ends(<<>>) = {}
    BY DEF Ends
  <2> QED
    BY <1>2, <2>1 DEF OneLineMore
<1>5. u # <<>>
  BY <1>1, <1>4
<1>6. \A p \in Ends(u) : LineUpTo(u, p) = l
  BY <1>4
<1>7. IsFiniteSet(Ends(u)) /\ Cardinality(Ends(u)) = 1
  BY <1>4, FS_Singleton
<1>8. NoScan.count = 0
  BY DEF NoScan
<1>9. Counts(HostEnds(u), 0)
  BY <1>4 DEF HostEnds, Counts
<1>10. ~bare => Last(l) = "CR"
  BY <1>1 DEF Last
<1>11. ClosedOk(u, NoScan, bare, version, 0)
  <2>1. NoneBlank(u)
    BY <1>1, <1>6 DEF NoneBlank
  <2>2. Cardinality(Ends(u)) <= NoScan.count + 1
    BY <1>7, <1>8
  <2>3. \A p \in ClosedHeaders(u) : LineUpTo(u, p)[1] \in Fields
    BY <1>4
  <2> QED
    BY <1>1, <1>3, <1>4, <1>5, <1>6, <1>7, <1>9, <1>10, <2>1, <2>2, <2>3, Zenon DEF ClosedOk
<1> QED
  BY <1>11 DEF u

\* A header line more.
LEMMA OneClosed ==
    ASSUME NEW c, NEW x \in ScanStates, NEW bare \in BOOLEAN, NEW version, NEW k,
           ClosedOk(c, x, bare, version, k),
           NEW l \in Seq(HttpLexemes), LineOk(l, bare), l[1] \in Fields,
           NEW y \in ScanStates, ScanLine(x, l) = y, y.count = x.count + 1,
           NEW j, IF l[1] = "Host" THEN k = 0 /\ j = 1 ELSE j = k
    PROVE  ClosedOk((c \o l) \o <<"LF">>, y, bare, version, j)
<1> DEFINE t == c \o l
           u == t \o <<"LF">>
           e == Len(t) + 1
<1>1. /\ c \in Seq(HttpLexemes) /\ Closed(c) /\ c # <<>> /\ Known(c, x) /\ InLine(l) /\ l # <<>> /\ l # <<"CR">>
      /\ ~ (Len(l) > MaxHeaderLine) /\ (~bare => l[Len(l)] = "CR")
  BY DEF ClosedOk, LineOk
<1>2. OneLineMore(c, l, t, u)
  BY <1>1, LinesGrow, Zenon
<1>3. Known(u, y)
  BY <1>1, ScanOfLine
<1> HIDE DEF t, u
<1>4. /\ u \in Seq(HttpLexemes) /\ Closed(u) /\ Ends(u) = Ends(c) \cup {e} /\ LineUpTo(u, e) = l
      /\ \A p \in Ends(c) : LineUpTo(u, p) = LineUpTo(c, p)
      /\ ClosedHeaders(u) = ClosedHeaders(c) \cup {e} /\ FirstLine(u) = FirstLine(c)
      /\ Len(u) = Len(t) + 1 /\ Ends(c) \subseteq 1 .. Len(c) /\ Len(t) = Len(c) + Len(l)
      /\ Len(c) \in Nat /\ Len(l) \in Nat
  BY <1>1, <1>2 DEF OneLineMore
<1>5. u # <<>> /\ e \notin Ends(c)
  BY <1>4
<1> HIDE DEF e
<1>6. \A p \in Ends(u) : p \in Ends(c) \/ LineUpTo(u, p) = l
  BY <1>4
<1>7. IsFiniteSet(Ends(u)) /\ Cardinality(Ends(u)) <= y.count + 1
  <2>1. IsFiniteSet(Ends(c)) /\ Cardinality(Ends(c)) <= x.count + 1
    BY DEF ClosedOk
  <2>2. /\ IsFiniteSet(Ends(u)) /\ Cardinality(Ends(u)) = Cardinality(Ends(c)) + 1
        /\ Cardinality(Ends(c)) \in Nat
    BY <1>4, <1>5, <2>1, OneEndMore
  <2>3. x.count \in Nat
    BY DEF ScanStates
  <2> QED
    BY <2>1, <2>2, <2>3
<1>8. ClosedHeaders(c) \subseteq Ends(c)
  BY DEF ClosedHeaders
<1>9. HostEnds(u) = HostEnds(c) \cup (IF l[1] = "Host" THEN {e} ELSE {})
  <2>1. \A p \in ClosedHeaders(c) : LineUpTo(u, p)[1] = LineUpTo(c, p)[1]
    BY <1>4, <1>8
  <2> QED
    BY <1>4, <1>5, <1>8, <2>1 DEF HostEnds
<1>10. Counts(HostEnds(u), j)
  <2>1. Counts(HostEnds(c), k)
    BY DEF ClosedOk
  <2>2. CASE l[1] = "Host"
    <3>1. HostEnds(c) = {} /\ j = 1
      BY <2>1, <2>2 DEF Counts
    <3>2. HostEnds(u) = {e}
      BY <1>9, <2>2, <3>1
    <3> QED
      BY <3>1, <3>2 DEF Counts
  <2>3. CASE l[1] # "Host"
    BY <1>9, <2>1, <2>3 DEF Counts
  <2> QED
    BY <2>2, <2>3
<1>11. ~bare => Last(l) = "CR"
  BY <1>1 DEF Last
<1>12. ClosedOk(u, y, bare, version, j)
  <2>1. NoneBlank(u)
    BY <1>1, <1>4, <1>6 DEF NoneBlank, ClosedOk
  <2>2. \A p \in Ends(u) : ~ (Len(LineUpTo(u, p)) > MaxHeaderLine)
    BY <1>1, <1>4, <1>6, Zenon DEF ClosedOk
  <2>3. \A p \in ClosedHeaders(u) : LineUpTo(u, p)[1] \in Fields
    BY <1>4, <1>8 DEF ClosedOk
  <2>4. ~bare => \A p \in Ends(u) : Last(LineUpTo(u, p)) = "CR"
    BY <1>4, <1>6, <1>11, Zenon DEF ClosedOk
  <2>5. (bare => version = "1.0") /\ WithoutCR(FirstLine(u)) = <<version>>
    BY <1>4 DEF ClosedOk
  <2> QED
    BY <1>3, <1>4, <1>5, <1>7, <1>10, <2>1, <2>2, <2>3, <2>4, <2>5, Zenon DEF ClosedOk
<1> QED
  BY <1>12 DEF t, u

\* What the server knows of a head whose client keeps the account hd.
Account(hd) == [length |-> hd.length, coding |-> hd.coding, verdict |-> "ok", count |-> hd.fields]

\* The head is one that the server takes, save for a missing host.
Ready(h, hd) ==
    /\ h \in Seq(HttpLexemes) /\ ScanHead(h) = Account(hd)
    /\ WithoutCR(FirstLine(h)) = <<hd.version>>
    /\ hd.hosts # 0 /\ hd.version = "1.1" => LineEndingsOk(h, 4)
    /\ \A p \in HeaderLines(h) : LineUpTo(h, p)[1] \in Fields
    /\ Counts(Hosts(h), hd.hosts)

LEMMA ReadyFirst ==
    ASSUME NEW v \in {"1.1", "1.0"}, NEW hd, Account(hd) = NoScan, hd.version = v, hd.hosts = 0,
           MaxHeaderLine \in Nat \ {0}
    PROVE  Ready(<<v>>, hd)
<1> DEFINE l == <<v>>
           t == <<>> \o l
           u == t \o <<"LF">>
<1>1. v \in HttpLexemes /\ v # "LF" /\ v # "CR" /\ <<>> \in Seq(HttpLexemes) /\ Closed(<<>>)
  <2>1. v \in HttpLexemes /\ v # "LF" /\ v # "CR"
    BY LexemeKinds, Zenon
  <2>2. <<>> \in Seq(HttpLexemes) /\ Closed(<<>>)
    BY DEF Closed
  <2> QED
    BY <2>1, <2>2
<1>2. l \in Seq(HttpLexemes) /\ Len(l) = 1 /\ l[1] = v /\ l[Len(l)] = v /\ t = l /\ l # <<>>
  <2>1. l \in Seq(HttpLexemes) /\ Len(l) = 1 /\ l[1] = v /\ l # <<>>
    BY <1>1
  <2> HIDE DEF l
  <2>2. t = l
    BY <1>1, <2>1, Associative
  <2> QED
    BY <2>1, <2>2
<1>3. InLine(l) /\ ~ (Len(l) > MaxHeaderLine)
  BY <1>1, <1>2 DEF InLine, Without
<1> HIDE DEF l
<1>4. OneLineMore(<<>>, l, t, u)
  BY <1>1, <1>2, <1>3, LinesGrow, Zenon
<1>5. HeaderEnds(l) = {} /\ FirstLine(l) = l
  BY <1>2, <1>4 DEF OneLineMore
<1>6. ScanHead(l) = NoScan
  BY <1>2, <1>3, KnownFirst
<1>7. WithoutCR(l) = l
  BY <1>1, <1>2, ReturnDropped
<1>8. HeaderLines(l) = {} /\ Hosts(l) = {}
  BY <1>5 DEF HeaderLines, Hosts
<1>9. Counts(Hosts(l), 0)
  BY <1>8 DEF Counts
<1>10. Ready(l, hd)
  BY <1>2, <1>5, <1>6, <1>7, <1>8, <1>9 DEF Ready, l
<1> QED
  BY <1>10 DEF l

LEMMA ReadyMore ==
    ASSUME NEW c, NEW x \in ScanStates, NEW bare \in BOOLEAN, NEW version, NEW k,
           ClosedOk(c, x, bare, version, k),
           NEW b \in Seq(HttpLexemes), InLine(b), b # <<>>, b[Len(b)] # "CR", b[1] \in Fields,
           NEW hd, ScanLine(x, b) = Account(hd), hd.version = version,
           IF b[1] = "Host" THEN k = 0 /\ hd.hosts = 1 ELSE hd.hosts = k
    PROVE  Ready(c \o b, hd)
<1> DEFINE t == c \o b
           u == t \o <<"LF">>
           e == Len(t) + 1
<1>1. c \in Seq(HttpLexemes) /\ Closed(c) /\ c # <<>> /\ Known(c, x)
  BY DEF ClosedOk
<1>2. OneLineMore(c, b, t, u)
  BY <1>1, LinesGrow, Zenon
<1>3. ScanHead(t) = Account(hd)
  BY <1>1, ScanOfLine
<1> HIDE DEF t, u
<1>4. /\ t \in Seq(HttpLexemes) /\ Ends(t) = Ends(c) /\ LineUpTo(t, e) = b
      /\ \A p \in Ends(c) : LineUpTo(t, p) = LineUpTo(c, p)
      /\ HeaderEnds(t) = ClosedHeaders(c) \cup {e} /\ FirstLine(t) = FirstLine(c)
      /\ Ends(c) \subseteq 1 .. Len(c) /\ Len(t) = Len(c) + Len(b)
      /\ Len(c) \in Nat /\ Len(b) \in Nat
  BY <1>1, <1>2 DEF OneLineMore
<1>5. e \notin Ends(c)
  BY <1>4
<1> HIDE DEF e
<1>6. ClosedHeaders(c) \subseteq Ends(c)
  BY DEF ClosedHeaders
<1>7. WithoutCR(b) = b
  BY ReturnDropped
<1>8. \A p \in Ends(c) : WithoutCR(LineUpTo(c, p)) # <<>>
  <2>1. ASSUME NEW p \in Ends(c) PROVE WithoutCR(LineUpTo(c, p)) # <<>>
    <3>1. LineUpTo(c, p) \in Seq(HttpLexemes)
      <4>1. p \in Nat /\ p > 0
        BY <1>4
      <4>2. PICK m \in Nat : m < p /\ (m = 0 \/ m \in Ends(c)) /\ \A q \in Ends(c) : m < q => p <= q
        BY <1>1, <4>1, LineBegins
      <4>3. LineUpTo(c, p) = SubSeq(c, m + 1, p - 1)
        BY <1>1, <4>1, <4>2, LineIs
      <4>4. p - 1 \in Nat /\ m <= p - 1 /\ p - 1 <= Len(c)
        BY <1>4, <4>1, <4>2
      <4> QED
        BY <1>1, <4>2, <4>3, <4>4, Stretch
    <3>2. LineUpTo(c, p) # <<>> /\ LineUpTo(c, p) # <<"CR">>
      BY DEF ClosedOk, NoneBlank
    <3> QED
      BY <3>1, <3>2, NoneLeft
  <2> QED
    BY <2>1
<1>9. HeaderLines(t) = HeaderEnds(t)
  <2>1. \A p \in HeaderEnds(t) : WithoutCR(LineUpTo(t, p)) # <<>>
    BY <1>4, <1>6, <1>7, <1>8
  <2> QED
    BY <2>1 DEF HeaderLines
<1>10. \A p \in HeaderLines(t) : LineUpTo(t, p)[1] \in Fields
  <2>1. \A p \in ClosedHeaders(c) : LineUpTo(c, p)[1] \in Fields
    BY DEF ClosedOk
  <2> QED
    BY <1>4, <1>6, <1>9, <2>1
<1>11. Hosts(t) = HostEnds(c) \cup (IF b[1] = "Host" THEN {e} ELSE {})
  <2>1. \A p \in ClosedHeaders(c) : LineUpTo(t, p)[1] = LineUpTo(c, p)[1]
    BY <1>4, <1>6
  <2> QED
    BY <1>4, <1>5, <1>6, <1>9, <2>1 DEF HostEnds, Hosts
<1>12. Counts(Hosts(t), hd.hosts)
  <2>1. Counts(HostEnds(c), k)
    BY DEF ClosedOk
  <2>2. CASE b[1] = "Host"
    <3>1. HostEnds(c) = {} /\ hd.hosts = 1
      BY <2>1, <2>2 DEF Counts
    <3>2. Hosts(t) = {e}
      BY <1>11, <2>2, <3>1
    <3> QED
      BY <3>1, <3>2 DEF Counts
  <2>3. CASE b[1] # "Host"
    BY <1>11, <2>1, <2>3 DEF Counts
  <2> QED
    BY <2>2, <2>3
<1>13. ASSUME hd.version = "1.1" PROVE LineEndingsOk(t, 4)
  <2>1. ~bare
    BY <1>13 DEF ClosedOk
  <2>2. \A p \in Ends(c) : Last(LineUpTo(c, p)) = "CR"
    BY <2>1, Zenon DEF ClosedOk
  <2>3. Begins(c, c)
    BY <1>4 DEF Begins
  <2>4. Min(LineEnds(c)) \in Ends(c)
    BY <1>1, <2>3, FirstStays
  <2>5. Last(FirstLine(t)) = "CR"
    BY <1>4, <2>2, <2>4, Zenon DEF FirstLine
  <2>6. \A p \in Ends(t) : Last(LineUpTo(t, p)) = "CR"
    BY <1>4, <2>2
  <2> QED
    BY <2>5, <2>6 DEF LineEndingsOk
<1>14. WithoutCR(FirstLine(t)) = <<hd.version>>
  BY <1>4 DEF ClosedOk
<1>15. Ready(t, hd)
  BY <1>3, <1>4, <1>10, <1>12, <1>13, <1>14 DEF Ready
<1> QED
  BY <1>15 DEF t

-----------------------------------------------------------------------------
(* A well-formed head that has arrived, and what follows it *)

FineHead(s, h, sep, hd) ==
    /\ s \in Seq(HttpLexemes) /\ h \in Seq(HttpLexemes) /\ sep \in {2, 4}
    /\ HeadBounds(s) = [end |-> Len(h), separator |-> sep] /\ Len(h) # Npos
    /\ SubSeq(s, 1, Len(h)) = h /\ Len(h) \in Nat /\ Len(h) + sep <= Len(s)
    /\ ScanHead(h) = Account(hd)
    /\ WithoutCR(FirstLine(h)) \in {<<"1.1">>, <<"1.0">>}
    /\ LineEndingsOk(h, sep)
    /\ \A p \in HeaderLines(h) : LineUpTo(h, p)[1] \in Fields
    /\ HostsOk(h)

LEMMA FineMade ==
    ASSUME NEW s \in Seq(HttpLexemes), NEW h, NEW sep \in {2, 4}, NEW hd, Ready(h, hd),
           HeadBounds(s) = [end |-> Len(h), separator |-> sep], Len(h) # Npos,
           SubSeq(s, 1, Len(h)) = h, Len(h) + sep <= Len(s),
           hd.version \in {"1.1", "1.0"}, hd.version = "1.1" => sep = 4 /\ hd.hosts # 0
    PROVE  FineHead(s, h, sep, hd)
<1>1. h \in Seq(HttpLexemes) /\ Len(h) \in Nat
  BY LenProperties DEF Ready
<1>2. WithoutCR(FirstLine(h)) = <<hd.version>> /\ <<"1.0">> # <<"1.1">>
  BY DEF Ready
<1>3. LineEndingsOk(h, sep)
  <2>1. CASE hd.version = "1.1"
    BY <2>1 DEF Ready
  <2>2. CASE hd.version = "1.0"
    BY <1>2, <2>2 DEF LineEndingsOk, AtLeast11
  <2> QED
    BY <2>1, <2>2
<1>4. HostsOk(h)
  <2>1. CASE hd.hosts = 0
    <3>1. hd.version = "1.0" /\ Hosts(h) = {}
      BY <2>1 DEF Ready, Counts
    <3> QED
      BY <1>2, <3>1 DEF HostsOk
  <2>2. CASE hd.hosts # 0
    <3>1. PICK p \in Hosts(h) : Hosts(h) = {p}
      BY <2>2 DEF Ready, Counts
    <3>2. Cardinality(Hosts(h)) = 1
      BY <3>1, FS_Singleton
    <3> QED
      BY <3>2 DEF HostsOk
  <2> QED
    BY <2>1, <2>2
<1> QED
  BY <1>1, <1>2, <1>3, <1>4, Zenon DEF FineHead, Ready

LEMMA FineStays ==
    ASSUME NEW s, NEW h, NEW sep, NEW hd, FineHead(s, h, sep, hd), NEW c \in HttpLexemes
    PROVE  /\ FineHead(Append(s, c), h, sep, hd)
           /\ After(s, Len(h) + sep) \in Seq(HttpLexemes)
           /\ After(Append(s, c), Len(h) + sep) = Append(After(s, Len(h) + sep), c)
<1> DEFINE t == Append(s, c)
           n == Len(h)
<1>1. /\ s \in Seq(HttpLexemes) /\ sep \in {2, 4} /\ n \in Nat /\ n + sep <= Len(s) /\ SubSeq(s, 1, n) = h
      /\ HeadBounds(s) = [end |-> n, separator |-> sep] /\ n # Npos
  BY DEF FineHead
<1>2. t \in Seq(HttpLexemes) /\ Len(t) = Len(s) + 1 /\ Len(s) \in Nat
  BY <1>1, OneMore
<1>3. HeadBounds(t) = [end |-> n, separator |-> sep]
  <2>1. HeadBounds(s).end # Npos
    BY <1>1
  <2>2. HeadBounds(t) = HeadBounds(s)
    BY <1>1, <2>1, HeadStays
  <2> QED
    BY <1>1, <2>2
<1> HIDE DEF n, t
<1>4. n + sep \in Nat /\ n <= Len(s) /\ n + sep <= Len(t) /\ 1 \in Nat /\ 1 > 0
  BY <1>1, <1>2
<1>5. SubSeq(t, 1, n) = h
  BY <1>1, <1>4, SameCut DEF t
<1>6. /\ After(s, n + sep) \in Seq(HttpLexemes)
      /\ After(t, n + sep) = Append(After(s, n + sep), c)
  <2> DEFINE m == n + sep
  <2>1. m \in Nat /\ m <= Len(s)
    BY <1>1, <1>4
  <2> HIDE DEF m
  <2>2. After(s, m) \in Seq(HttpLexemes) /\ After(t, m) = Append(After(s, m), c)
    BY <1>1, <2>1, AfterType, AfterOneMore DEF t
  <2> QED
    BY <2>2 DEF m
<1>7. FineHead(t, h, sep, hd)
  BY <1>1, <1>2, <1>3, <1>4, <1>5, Zenon DEF FineHead, n
<1> QED
  BY <1>6, <1>7 DEF n, t

\* The length that counts.
Needed(hd) == IF hd.length = -1 THEN 0 ELSE hd.length

LEMMA MaxNeeded ==
    ASSUME NEW n \in Sizes
    PROVE  Max({0, n}) = IF n = -1 THEN 0 ELSE n
<1> DEFINE v == IF n = -1 THEN 0 ELSE n
           S == {0, n}
<1>1. n \in Nat \/ n = -1
  BY DEF Sizes
<1>2. v \in S /\ v \in Nat /\ \A y \in S : v >= y
  BY <1>1
<1>3. \A m \in S : (\A y \in S : m >= y) => m = v
  BY <1>1
<1> HIDE DEF v, S
<1>4. Max(S) \in S /\ \A y \in S : Max(S) >= y
  BY <1>2 DEF Max
<1> QED
  BY <1>3, <1>4 DEF S, v

LEMMA FineSized ==
    ASSUME NEW s, NEW h, NEW sep, NEW hd, FineHead(s, h, sep, hd), hd.coding = "none", hd.length \in Sizes,
           Len(s) < Npos, NEW rest, rest = After(s, Len(h) + sep), NEW n, n = Needed(hd)
    PROVE  /\ Len(rest) < n => Inspect(s).framing = "incomplete"
           /\ ~ (Len(rest) < n) => /\ Inspect(s).framing = "complete"
                                   /\ HttpParse(s) = [ok |-> TRUE, body |-> SubSeq(rest, 1, n)]
<1> DEFINE base == Len(h) + sep
           total == Total(base, n)
<1>1. /\ s \in Seq(HttpLexemes) /\ h \in Seq(HttpLexemes) /\ sep \in {2, 4}
      /\ HeadBounds(s) = [end |-> Len(h), separator |-> sep] /\ Len(h) # Npos
      /\ SubSeq(s, 1, Len(h)) = h /\ Len(h) \in Nat /\ Len(h) + sep <= Len(s)
      /\ ScanHead(h) = Account(hd)
      /\ WithoutCR(FirstLine(h)) \in {<<"1.1">>, <<"1.0">>} /\ LineEndingsOk(h, sep)
      /\ ~ \E p \in HeaderLines(h) : LineUpTo(h, p)[1] \notin Fields
      /\ HostsOk(h)
  BY Zenon DEF FineHead
<1>2. HeadBounds(s).end = Len(h) /\ HeadBounds(s).separator = sep
  BY <1>1
<1>3. ScanHead(h).verdict = "ok" /\ ScanHead(h).coding = "none" /\ ScanHead(h).length = hd.length
  BY <1>1 DEF Account
<1>4. Max({0, hd.length}) = n
  BY MaxNeeded DEF Needed
<1>5. Inspect(s) = Framed(IF Len(s) >= total THEN "complete" ELSE "incomplete", total)
  <2>1. /\ ScanHead(h).verdict = "ok" /\ ScanHead(h).coding # "other" /\ ScanHead(h).coding # "chunked"
        /\ Max({0, ScanHead(h).length}) = n
    BY <1>3, <1>4
  <2> QED
    BY <1>1, <1>2, <2>1, Zenon DEF Inspect
<1>6. HttpParse(s) = IF hd.length > Len(rest) THEN Unparsed
                     ELSE [ok |-> TRUE, body |-> IF hd.length > 0 THEN SubSeq(rest, 1, hd.length) ELSE <<>>]
  <2>1. /\ ScanHead(h).verdict = "ok" /\ ScanHead(h).coding # "other" /\ ScanHead(h).coding # "chunked"
    BY <1>3
  <2> QED
    BY <1>1, <1>2, <1>3, <2>1, ZenonT(60) DEF HttpParse
<1>7. n \in Nat /\ Len(s) \in Nat /\ base \in Nat /\ rest \in Seq(HttpLexemes) /\ Len(rest) = Len(s) - base
      /\ base <= Len(s)
  <2>1. n \in Nat
    BY DEF Needed, Sizes
  <2>2. base \in Nat /\ base <= Len(s) /\ Len(s) \in Nat
    BY <1>1, LenProperties
  <2> HIDE DEF base
  <2>3. After(s, base) \in Seq(HttpLexemes) /\ Len(After(s, base)) = Len(s) - base
    BY <1>1, <2>2, AfterType
  <2> QED
    BY <2>1, <2>2, <2>3 DEF base
<1> HIDE DEF base
<1>8. Len(s) >= total <=> ~ (Len(rest) < n)
  <2> DEFINE u == Len(s)
             r == Len(rest)
  <2>1. u \in Nat /\ r = u - base /\ base <= u /\ u < Npos
    BY <1>7
  <2>2. total = IF n > Npos - base THEN Npos ELSE base + n
    BY DEF Total
  <2> HIDE DEF u, r, total
  <2>3. u >= total <=> ~ (r < n)
    BY <1>7, <2>1, <2>2, HttpAssumption
  <2> QED
    BY <2>3 DEF u, r
<1>9. ASSUME ~ (Len(rest) < n)
      PROVE  HttpParse(s) = [ok |-> TRUE, body |-> SubSeq(rest, 1, n)]
  <2>1. hd.length = -1 \/ hd.length \in Nat
    BY DEF Sizes
  <2> DEFINE r == Len(rest)
  <2>2. r \in Nat
    BY <1>7, LenProperties
  <2>3. ~ (hd.length > r)
    <3> HIDE DEF r
    <3>1. ~ (r < n)
      BY <1>9 DEF r
    <3> QED
      BY <1>7, <2>1, <2>2, <3>1 DEF Needed
  <2>4. CASE hd.length > 0
    <3>1. n = hd.length
      BY <2>4, <2>1 DEF Needed
    <3> QED
      BY <1>6, <2>3, <2>4, <3>1
  <2>5. CASE ~ (hd.length > 0)
    <3>1. n = 0
      BY <2>1, <2>5 DEF Needed
    <3>2. SubSeq(rest, 1, 0) = <<>>
      BY <1>7
    <3> QED
      BY <1>6, <2>3, <2>5, <3>1, <3>2
  <2> QED
    BY <2>4, <2>5
<1> QED
  BY <1>5, <1>8, <1>9 DEF Framed

LEMMA FineChunked ==
    ASSUME NEW s, NEW h, NEW sep, NEW hd, FineHead(s, h, sep, hd), hd.coding = "chunked", hd.length = -1,
           NEW scan, scan = ScanChunks[After(s, Len(h) + sep)]
    PROVE  /\ scan.state = "incomplete" => Inspect(s).framing = "incomplete"
           /\ scan.state = "complete" => /\ Inspect(s).framing = "complete"
                                         /\ HttpParse(s) = [ok |-> TRUE, body |-> scan.data]
<1> DEFINE base == Len(h) + sep
           rest == After(s, base)
<1>1. /\ s \in Seq(HttpLexemes) /\ h \in Seq(HttpLexemes) /\ sep \in {2, 4}
      /\ HeadBounds(s) = [end |-> Len(h), separator |-> sep] /\ Len(h) # Npos
      /\ SubSeq(s, 1, Len(h)) = h /\ Len(h) \in Nat /\ Len(h) + sep <= Len(s)
      /\ ScanHead(h) = Account(hd)
      /\ WithoutCR(FirstLine(h)) \in {<<"1.1">>, <<"1.0">>} /\ LineEndingsOk(h, sep)
      /\ ~ \E p \in HeaderLines(h) : LineUpTo(h, p)[1] \notin Fields
      /\ HostsOk(h)
  BY Zenon DEF FineHead
<1>2. HeadBounds(s).end = Len(h) /\ HeadBounds(s).separator = sep
  BY <1>1
<1>3. ScanHead(h).verdict = "ok" /\ ScanHead(h).coding = "chunked" /\ ScanHead(h).length = -1
      /\ ScanHead(h).coding # "other" /\ ScanChunked(rest) = scan
  BY <1>1 DEF Account, ScanChunked
<1>4. Inspect(s) = CASE scan.state = "complete" -> Framed("complete", base + scan.consumed)
                     [] scan.state = "malformed" -> Framed("bad", 0)
                     [] OTHER -> Framed("incomplete", 0)
  BY <1>1, <1>2, <1>3, Zenon DEF Inspect
<1>5. Len(rest) \in Nat
  <2>1. base \in Nat
    BY <1>1
  <2> HIDE DEF base
  <2> QED
    BY <1>1, <2>1, AfterType, LenProperties
<1>6. ~ (-1 > Len(rest)) /\ ~ (-1 > 0)
  <2> HIDE DEF rest
  <2> QED
    BY <1>5
<1>7. scan.state = "complete" => HttpParse(s) = [ok |-> TRUE, body |-> scan.data]
  <2> HIDE DEF base
  <2> QED
    BY <1>1, <1>2, <1>3, <1>6, ZenonT(60) DEF HttpParse, base
<1> QED
  BY <1>4, <1>7 DEF Framed

-----------------------------------------------------------------------------
(* Chunks *)

LEMMA ChunkSizeMore ==
    ASSUME NEW digits \in Seq(DOMAIN Hex), NEW d \in DOMAIN Hex
    PROVE  ChunkSize(digits \o <<d>>) = NextSize(ChunkSize(digits), Hex[d])
<1> DEFINE n == Len(digits)
           more == digits \o <<d>>
<1>1. /\ more \in Seq(DOMAIN Hex) /\ Len(more) = n + 1 /\ n \in Nat
      /\ (\A i \in 1 .. n : more[i] = digits[i]) /\ more[n + 1] = d
  BY Added, LenProperties
<1> HIDE DEF more
<1>2. PICK g \in [0 .. n -> Sizes] :
              /\ g[0] = 0 /\ \A k \in 1 .. n : g[k] = NextSize(g[k - 1], Hex[digits[k]])
              /\ ChunkSize(digits) = g[n]
  BY ChunkSizeIs
<1>3. PICK h \in [0 .. Len(more) -> Sizes] :
              /\ h[0] = 0 /\ \A k \in 1 .. Len(more) : h[k] = NextSize(h[k - 1], Hex[more[k]])
              /\ ChunkSize(more) = h[Len(more)]
  BY <1>1, ChunkSizeIs
<1> DEFINE T == {k \in Nat : k <= n => h[k] = g[k]}
<1> HIDE DEF n
<1>4. 0 \in T
  BY <1>2, <1>3
<1>5. ASSUME NEW k \in Nat, k \in T PROVE k + 1 \in T
  <2>1. SUFFICES ASSUME k + 1 <= n PROVE h[k + 1] = g[k + 1]
    OBVIOUS
  <2> DEFINE j == k + 1
  <2>2. j \in 1 .. n /\ j \in 1 .. Len(more) /\ j - 1 = k /\ k <= n
    BY <1>1, <2>1
  <2>3. h[k] = g[k]
    BY <1>5, <2>2
  <2> HIDE DEF j, T
  <2>4. h[j] = NextSize(h[j - 1], Hex[more[j]]) /\ g[j] = NextSize(g[j - 1], Hex[digits[j]])
    BY <1>2, <1>3, <2>2, Zenon
  <2>5. more[j] = digits[j]
    BY <1>1, <2>2
  <2> QED
    BY <2>2, <2>3, <2>4, <2>5 DEF j
<1>6. Nat \subseteq T
  <2> HIDE DEF T
  <2> QED
    BY <1>4, <1>5, SetInduction
<1>7. h[n] = g[n]
  BY <1>1, <1>6
<1> DEFINE e == n + 1
<1>8. e \in 1 .. Len(more) /\ e - 1 = n /\ Len(more) = e /\ more[e] = d
  BY <1>1
<1> HIDE DEF e
<1>9. h[e] = NextSize(h[e - 1], Hex[more[e]])
  BY <1>3, <1>8, Zenon
<1> QED
  BY <1>2, <1>3, <1>7, <1>8, <1>9 DEF more

LEMMA ChunkSizeNone == ChunkSize(<<>>) = 0
<1>1. <<>> \in Seq(DOMAIN Hex) /\ Len(<<>>) = 0
  OBVIOUS
<1> QED
  BY <1>1, ChunkSizeIs

LEMMA SizeDigitsIs ==
    ASSUME NEW b \in Seq(HttpLexemes), NEW m \in Nat, m <= Len(b),
           \A i \in 1 .. m : b[i] \in DOMAIN Hex, m < Len(b) => b[m + 1] \notin DOMAIN Hex
    PROVE  SizeDigits(b) = SubSeq(b, 1, m)
<1> DEFINE good == {n \in DOMAIN b : \A i \in 1 .. n : b[i] \in DOMAIN Hex}
           S == {0} \cup good
           top == Max(S)
<1>1. DOMAIN b = 1 .. Len(b) /\ Len(b) \in Nat
  BY LenProperties
<1>2. S \subseteq 0 .. Len(b) /\ S # {}
  BY <1>1
<1>3. m \in S
  BY <1>1
<1>4. \A n \in S : n <= m
  <2>1. SUFFICES ASSUME NEW n \in good, ~ (n <= m) PROVE FALSE
    OBVIOUS
  <2>2. n \in Nat /\ n <= Len(b) /\ m + 1 \in 1 .. n /\ m < Len(b)
    BY <1>1, <2>1
  <2> QED
    BY <2>1, <2>2
<1> HIDE DEF S
<1>5. top \in S /\ \A n \in S : n <= top
  BY <1>1, <1>2, MaxIsGreatest
<1>6. top = m
  <2> HIDE DEF top
  <2>1. top \in Nat /\ top <= m /\ m <= top
    BY <1>1, <1>2, <1>3, <1>4, <1>5
  <2> QED
    BY <2>1
<1>7. SizeDigits(b) = SubSeq(b, 1, top)
  BY DEF SizeDigits, S
<1> QED
  BY <1>6, <1>7

\* The line of a chunk of n bytes.
SizeLine(b, n) ==
    /\ b \in Seq(HttpLexemes) /\ Without(b, "CR") /\ Without(b, "LF")
    /\ n \in Nat /\ SizeDigits(b) # <<>> /\ ChunkSize(SizeDigits(b)) = n
    /\ Len(SizeDigits(b)) < Len(b) => b[Len(SizeDigits(b)) + 1] = ";"

LEMMA DigitsWithout ==
    ASSUME NEW ds \in Seq(DOMAIN Hex)
    PROVE  ds \in Seq(HttpLexemes) /\ Without(ds, "CR") /\ Without(ds, "LF") /\ Without(ds, ";")
<1>1. DOMAIN Hex \subseteq HttpLexemes /\ DOMAIN Hex = {"0", "1"}
  BY LexemeKinds
<1>2. Len(ds) \in Nat /\ \A i \in 1 .. Len(ds) : ds[i] \in DOMAIN Hex
  BY LenProperties, ElementOfSeq
<1>3. \A i \in 1 .. Len(ds) : ds[i] \in HttpLexemes
  BY <1>1, <1>2
<1>4. ds \in Seq(HttpLexemes)
  BY <1>2, <1>3, SeqDef
<1>5. \A i \in 1 .. Len(ds) : ds[i] # "CR" /\ ds[i] # "LF" /\ ds[i] # ";"
  BY <1>1, <1>2
<1> QED
  BY <1>4, <1>5 DEF Without

LEMMA DigitsRead ==
    ASSUME NEW ds \in Seq(DOMAIN Hex)
    PROVE  /\ SizeDigits(ds) = ds
           /\ \A e \in HttpLexemes : e \notin DOMAIN Hex =>
                 \A r \in Seq(HttpLexemes) : Begins(r, ds \o <<e>>) => SizeDigits(r) = ds
<1>1. ds \in Seq(HttpLexemes)
  BY DigitsWithout
<1>2. Len(ds) \in Nat /\ \A i \in 1 .. Len(ds) : ds[i] \in DOMAIN Hex
  BY LenProperties, ElementOfSeq
<1>3. SizeDigits(ds) = ds
  <2>1. SizeDigits(ds) = SubSeq(ds, 1, Len(ds))
    BY <1>1, <1>2, SizeDigitsIs
  <2>2. SubSeq(ds, 1, Len(ds)) = ds
    BY <1>1
  <2> QED
    BY <2>1, <2>2
<1>4. ASSUME NEW e \in HttpLexemes, e \notin DOMAIN Hex, NEW r \in Seq(HttpLexemes), Begins(r, ds \o <<e>>)
      PROVE  SizeDigits(r) = ds
  <2> DEFINE n == Len(ds)
             t == ds \o <<e>>
  <2>1. /\ t \in Seq(HttpLexemes) /\ Len(t) = n + 1 /\ (\A i \in 1 .. n : t[i] = ds[i]) /\ t[n + 1] = e
    BY <1>1, Added
  <2>2. Begins(r, t) /\ Len(r) \in Nat /\ n \in Nat
    BY <1>2, <1>4, LenProperties
  <2> HIDE DEF t, n
  <2>3. n + 1 <= Len(r) /\ (\A i \in 1 .. n : r[i] = ds[i]) /\ r[n + 1] = e
    <3>1. n + 1 \in 1 .. n + 1 /\ \A i \in 1 .. n : i \in 1 .. n + 1
      BY <2>2
    <3> QED
      BY <2>1, <2>2, <3>1 DEF Begins
  <2>4. \A i \in 1 .. n : r[i] \in DOMAIN Hex
    BY <1>2, <2>3 DEF n
  <2>5. n <= Len(r)
    BY <2>2, <2>3
  <2>6. SizeDigits(r) = SubSeq(r, 1, n)
    BY <1>4, <2>2, <2>3, <2>4, <2>5, SizeDigitsIs
  <2>7. /\ SubSeq(r, 1, n) \in Seq(HttpLexemes) /\ Len(SubSeq(r, 1, n)) = n
        /\ \A i \in 1 .. n : SubSeq(r, 1, n)[i] = ds[i]
    BY <2>2, <2>3, <2>5, Prefix
  <2>8. Begins(SubSeq(r, 1, n), ds)
    BY <2>2, <2>7 DEF Begins, n
  <2> QED
    BY <1>1, <2>6, <2>7, <2>8, BeginsIs DEF n
<1> QED
  BY <1>3, <1>4

LEMMA NotShorter ==
    ASSUME NEW S, NEW s \in Seq(S)
    PROVE  Len(s) \in Nat /\ ~ (Len(s) < Len(s))
<1> QED
  BY LenProperties

LEMMA DigitLine ==
    ASSUME NEW ds \in Seq(DOMAIN Hex), ds # <<>>, NEW n \in Nat, ChunkSize(ds) = n
    PROVE  SizeLine(ds, n) /\ SizeLine(ds \o <<";">>, n)
<1>1. ds \in Seq(HttpLexemes) /\ Without(ds, "CR") /\ Without(ds, "LF") /\ ";" \in HttpLexemes
      /\ ";" \notin DOMAIN Hex
  <2>1. ";" \in HttpLexemes /\ DOMAIN Hex = {"0", "1"}
    BY LexemeKinds, Zenon
  <2>2. ds \in Seq(HttpLexemes) /\ Without(ds, "CR") /\ Without(ds, "LF")
    BY DigitsWithout, Zenon
  <2> QED
    BY <2>1, <2>2
<1>2. SizeLine(ds, n)
  <2>1. SizeDigits(ds) = ds
    BY DigitsRead, Zenon
  <2>2. Len(ds) \in Nat /\ ~ (Len(ds) < Len(ds))
    BY <1>1, NotShorter, Zenon
  <2> QED
    BY <1>1, <2>1, <2>2, Zenon DEF SizeLine
<1> DEFINE b == ds \o <<";">>
<1>3. b \in Seq(HttpLexemes) /\ b[Len(ds) + 1] = ";" /\ Len(b) = Len(ds) + 1 /\ <<";">> \in Seq(HttpLexemes)
  <2>1. b \in Seq(HttpLexemes) /\ b[Len(ds) + 1] = ";" /\ Len(b) = Len(ds) + 1
    BY <1>1, Added, Zenon
  <2>2. <<";">> \in Seq(HttpLexemes)
    BY <1>1, AppendIs, Zenon
  <2> QED
    BY <2>1, <2>2
<1>4. Without(b, "CR") /\ Without(b, "LF")
  <2>1. Without(<<";">>, "CR") /\ Without(<<";">>, "LF")
    BY WithoutOne
  <2> QED
    BY <1>1, <1>3, <2>1, WithoutConcat
<1> HIDE DEF b
<1>5. Begins(b, ds \o <<";">>)
  <2>1. Begins(b, b)
    BY <1>3, BeginsIs, Zenon
  <2> QED
    BY <2>1 DEF b
<1>6. SizeDigits(b) = ds
  BY <1>1, <1>3, <1>5, DigitsRead
<1>7. SizeLine(b, n)
  BY <1>3, <1>4, <1>6 DEF SizeLine
<1> QED
  BY <1>2, <1>7 DEF b

LEMMA NoLineEnd ==
    ASSUME NEW w \in Seq(HttpLexemes), Without(w, "LF")
    PROVE  Find(w, CrLf) = 0
<1> DEFINE p == Find(w, CrLf)
<1>1. SUFFICES ASSUME p # 0 PROVE FALSE
  OBVIOUS
<1>2. p \in Nat /\ p + 2 <= Len(w) + 1 /\ At(w, p, CrLf) /\ Len(w) \in Nat
  BY <1>1, FindIs, Patterns
<1>3. 2 \in DOMAIN CrLf /\ CrLf[2] = "LF"
  BY DEF CrLf
<1> HIDE DEF p
<1>4. w[p + 2 - 1] = "LF"
  BY <1>2, <1>3, Zenon DEF At
<1>5. p + 2 - 1 \in 1 .. Len(w)
  BY <1>1, <1>2
<1> QED
  BY <1>4, <1>5, Zenon DEF Without

\* A line and what follows it.
Ended(b) == b \o CrLf
Chunk(b, t) == Ended(b) \o t

LEMMA EndedType ==
    ASSUME NEW b \in Seq(HttpLexemes)
    PROVE  Ended(b) \in Seq(HttpLexemes) /\ Len(Ended(b)) = Len(b) + 2 /\ Len(b) \in Nat
<1>1. CrLf \in Seq(HttpLexemes) /\ Len(CrLf) = 2
  BY Patterns
<1> QED
  BY <1>1, ConcatSizes DEF Ended

LEMMA ChunkParts ==
    ASSUME NEW b \in Seq(HttpLexemes), NEW t \in Seq(HttpLexemes)
    PROVE  /\ Chunk(b, t) \in Seq(HttpLexemes) /\ Len(Chunk(b, t)) = (Len(b) + 2) + Len(t)
           /\ Len(b) \in Nat /\ Len(t) \in Nat
           /\ \A i \in 1 .. Len(b) : Chunk(b, t)[i] = b[i]
           /\ Chunk(b, t)[Len(b) + 1] = "CR" /\ Chunk(b, t)[Len(b) + 2] = "LF"
           /\ After(Chunk(b, t), Len(b) + 2) = t
<1> DEFINE c == b \o CrLf
           s == c \o t
           m == Len(b)
           k == Len(t)
<1>1. Len(CrLf) = 2 /\ CrLf \in Seq(HttpLexemes) /\ CrLf[1] = "CR" /\ CrLf[2] = "LF"
  BY Patterns DEF CrLf
<1>2. /\ c \in Seq(HttpLexemes) /\ Len(c) = Len(b) + Len(CrLf) /\ (\A i \in 1 .. Len(b) : c[i] = b[i])
      /\ (\A i \in 1 .. Len(CrLf) : c[Len(b) + i] = CrLf[i])
  <2>1. CrLf \in Seq(HttpLexemes)
    BY <1>1
  <2> QED
    BY <2>1, ConcatParts
<1>3. m \in Nat /\ k \in Nat
  BY LenProperties
<1> DEFINE n == Len(c)
<1>4. /\ s \in Seq(HttpLexemes) /\ Len(s) = Len(c) + Len(t) /\ (\A i \in 1 .. Len(c) : s[i] = c[i])
      /\ SubSeq(s, Len(c) + 1, Len(s)) = t
  <2>1. c \in Seq(HttpLexemes)
    BY <1>2
  <2> HIDE DEF c
  <2> QED
    BY <2>1, ConcatParts
<1>5. n = m + 2 /\ (\A i \in 1 .. m : c[i] = b[i]) /\ \A i \in 1 .. 2 : c[m + i] = CrLf[i]
  BY <1>1, <1>2
<1>6. Len(s) = n + k /\ (\A i \in 1 .. n : s[i] = c[i]) /\ SubSeq(s, n + 1, Len(s)) = t
  BY <1>4
<1> HIDE DEF c, n, s, m, k
<1>7. c[m + 1] = "CR" /\ c[m + 2] = "LF"
  <2>1. 1 \in 1 .. 2 /\ 2 \in 1 .. 2
    OBVIOUS
  <2> QED
    BY <1>1, <1>5, <2>1
<1>8. m + 1 \in 1 .. n /\ m + 2 \in 1 .. n /\ \A i \in 1 .. m : i \in 1 .. n
  BY <1>3, <1>5
<1>9. After(s, m + 2) = t
  BY <1>5, <1>6 DEF After
<1>10. Len(s) = (m + 2) + k
  BY <1>5, <1>6
<1> QED
  BY <1>3, <1>4, <1>5, <1>6, <1>7, <1>8, <1>9, <1>10 DEF Chunk, Ended, c, s, m, k

LEMMA ChunkLine1 ==
    ASSUME NEW b \in Seq(HttpLexemes), Without(b, "CR"), NEW t \in Seq(HttpLexemes)
    PROVE  Find(Chunk(b, t), CrLf) = Len(b) + 1 /\ LineOf(Chunk(b, t)) = b
<1> DEFINE s == Chunk(b, t)
           m == Len(b)
           k == Len(t)
           p == Find(s, CrLf)
<1>1. /\ s \in Seq(HttpLexemes) /\ Len(s) = (m + 2) + k /\ m \in Nat /\ k \in Nat
      /\ \A i \in 1 .. m : s[i] = b[i]
      /\ s[m + 1] = "CR" /\ s[m + 2] = "LF"
  BY ChunkParts
<1>2. /\ p \in Nat
      /\ p # 0 => At(s, p, CrLf)
      /\ \A q \in Nat : q > 0 /\ q + Len(CrLf) <= Len(s) + 1 /\ At(s, q, CrLf) => p # 0 /\ p <= q
  BY <1>1, FindIs, Patterns
<1>3. \A i \in 1 .. m : b[i] # "CR"
  BY DEF Without
<1>4. DOMAIN CrLf = {1, 2} /\ CrLf[1] = "CR" /\ CrLf[2] = "LF" /\ Len(CrLf) = 2
  BY Patterns DEF CrLf
<1> DEFINE e == m + 1
<1> HIDE DEF s, m, k, p
<1>5. e + 1 - 1 = e /\ e + 2 - 1 = m + 2 /\ e \in Nat /\ e > 0 /\ e + 2 <= Len(s) + 1 /\ s[e] = "CR"
  BY <1>1
<1> HIDE DEF e
<1>6. At(s, e, CrLf)
  BY <1>1, <1>4, <1>5, Zenon DEF At
<1>7. p # 0 /\ p <= e
  BY <1>2, <1>4, <1>5, <1>6
<1>8. s[p] = "CR"
  <2>1. s[p + 1 - 1] = "CR"
    BY <1>2, <1>4, <1>7, Zenon DEF At
  <2>2. p + 1 - 1 = p
    BY <1>2
  <2> QED
    BY <2>1, <2>2
<1>9. p = e
  <2>1. p \notin 1 .. m
    BY <1>1, <1>3, <1>8
  <2> QED
    BY <1>1, <1>2, <1>7, <2>1 DEF e
<1>10. LineOf(s) = b
  <2>1. p - 1 = m /\ m <= Len(s)
    BY <1>1, <1>9 DEF e
  <2>2. LineOf(s) = SubSeq(s, 1, m)
    BY <2>1 DEF LineOf, p
  <2>3. /\ SubSeq(s, 1, m) \in Seq(HttpLexemes) /\ Len(SubSeq(s, 1, m)) = m
        /\ \A i \in 1 .. m : SubSeq(s, 1, m)[i] = s[i]
    BY <1>1, <2>1, Prefix
  <2>4. Begins(SubSeq(s, 1, m), b)
    BY <1>1, <2>3 DEF Begins, m
  <2>5. Len(SubSeq(s, 1, m)) = Len(b)
    BY <2>3 DEF m
  <2>6. SubSeq(s, 1, m) = b
    <3> DEFINE z == SubSeq(s, 1, m)
    <3>1. z \in Seq(HttpLexemes) /\ b \in Seq(HttpLexemes) /\ Begins(z, b) /\ Len(z) = Len(b)
      BY <1>1, <2>3, <2>4, <2>5
    <3> HIDE DEF z
    <3>2. z = b
      BY <3>1, BeginsIs
    <3> QED
      BY <3>2 DEF z
  <2> QED
    BY <2>2, <2>6
<1> QED
  BY <1>9, <1>10 DEF m, e, p, s

LEMMA ChunkBegins ==
    ASSUME NEW b, NEW n, SizeLine(b, n), NEW t \in Seq(HttpLexemes)
    PROVE  /\ Chunk(b, t) \in Seq(HttpLexemes) /\ Find(Chunk(b, t), CrLf) = Len(b) + 1
           /\ SizeOf(Chunk(b, t)) = n /\ ~Wrong(Chunk(b, t))
           /\ BehindOf(Chunk(b, t)) = (Len(b) + 2) + n /\ After(Chunk(b, t), Len(b) + 2) = t
           /\ Len(Chunk(b, t)) = (Len(b) + 2) + Len(t) /\ Len(b) \in Nat /\ Len(t) \in Nat /\ n \in Nat
<1> DEFINE s == Chunk(b, t)
           m == Len(b)
           k == Len(t)
<1>1. /\ b \in Seq(HttpLexemes) /\ Without(b, "CR") /\ n \in Nat
  BY Zenon DEF SizeLine
<1>2. Find(s, CrLf) = Len(b) + 1 /\ LineOf(s) = b
  BY <1>1, ChunkLine1, Zenon
<1> HIDE DEF s
<1>3. DigitsOf(s) = SizeDigits(b) /\ SizeOf(s) = n
  BY <1>2, Zenon DEF DigitsOf, SizeOf, SizeLine, s
<1>4. n # -1
  BY <1>1
<1>5. ~Wrong(s)
  <2>1. SizeDigits(b) # <<>> /\ (Len(SizeDigits(b)) < Len(b) => b[Len(SizeDigits(b)) + 1] = ";")
    BY Zenon DEF SizeLine
  <2>2. DigitsOf(s) # <<>> /\ SizeOf(s) # -1
    BY <1>3, <1>4, <2>1, Zenon
  <2>3. Len(DigitsOf(s)) < Len(LineOf(s)) => LineOf(s)[Len(DigitsOf(s)) + 1] = ";"
    BY <1>2, <1>3, <2>1, Zenon DEF s
  <2> QED
    BY <2>2, <2>3, Zenon DEF Wrong
<1>6. /\ s \in Seq(HttpLexemes) /\ Len(s) = (m + 2) + k /\ m \in Nat /\ k \in Nat /\ After(s, m + 2) = t
  BY <1>1, ChunkParts, Zenon DEF s
<1>7. Find(s, CrLf) = m + 1
  BY <1>2 DEF s
<1>8. BehindOf(s) = (m + 2) + n /\ m + 1 > 0 /\ m + 1 # 0
  <2>1. BehindOf(s) = m + 1 + 1 + n
    BY <1>3, <1>7 DEF BehindOf
  <2> QED
    BY <1>1, <1>6, <2>1
<1> QED
  BY <1>1, <1>3, <1>5, <1>6, <1>7, <1>8 DEF s

LEMMA ChunkLast ==
    ASSUME NEW b, SizeLine(b, 0), NEW t \in Seq(HttpLexemes)
    PROVE  ScanChunks[Chunk(b, t)] =
              IF Trailers[t] = 0 THEN Chunks("incomplete", <<>>, 0)
              ELSE Chunks("complete", <<>>, (Len(b) + 2) + Trailers[t])
<1> DEFINE s == Chunk(b, t)
           m == Len(b)
<1>1. /\ s \in Seq(HttpLexemes) /\ Find(s, CrLf) = m + 1 /\ SizeOf(s) = 0 /\ ~Wrong(s)
      /\ After(s, m + 2) = t /\ m \in Nat
  BY ChunkBegins, Zenon
<1> HIDE DEF s, m
<1>2. m + 1 > 0 /\ m + 1 # 0 /\ m + 1 + 1 = m + 2
  BY <1>1
<1>3. LastOf(s) = Trailers[t]
  BY <1>1, <1>2 DEF LastOf
<1>4. ScanChunks[s] = ScanFrom(s, ScanChunks[NextOf(s)])
  BY <1>1, ScanChunksIs
<1>6. Find(s, CrLf) # 0 /\ Find(s, CrLf) > 0 /\ ~ (SizeOf(s) > 0)
  BY <1>1, <1>2
<1>5. ScanFrom(s, ScanChunks[NextOf(s)]) =
              IF LastOf(s) = 0 THEN Chunks("incomplete", <<>>, 0)
              ELSE Chunks("complete", <<>>, Find(s, CrLf) + 1 + LastOf(s))
  BY <1>1, <1>6, Zenon DEF ScanFrom
<1> QED
  BY <1>1, <1>2, <1>3, <1>4, <1>5 DEF s, m

LEMMA ChunkShort ==
    ASSUME NEW b, NEW n, SizeLine(b, n), n > 0, NEW t \in Seq(HttpLexemes), Len(t) < n + 2
    PROVE  ScanChunks[Chunk(b, t)] = Chunks("incomplete", <<>>, 0)
<1> DEFINE s == Chunk(b, t)
           m == Len(b)
           k == Len(t)
<1>1. /\ s \in Seq(HttpLexemes) /\ Find(s, CrLf) = m + 1 /\ SizeOf(s) = n /\ ~Wrong(s)
      /\ BehindOf(s) = (m + 2) + n /\ m \in Nat /\ k \in Nat /\ Len(s) = (m + 2) + k
  BY ChunkBegins, Zenon
<1>2. n \in Nat
  BY Zenon DEF SizeLine
<1>3. k < n + 2
  OBVIOUS
<1> HIDE DEF s, m, k
<1>4. m + 1 > 0 /\ m + 1 # 0 /\ n # 0
  BY <1>1, <1>2
<1>5. Len(s) < BehindOf(s) + 2
  BY <1>1, <1>2, <1>3
<1>6. ScanChunks[s] = ScanFrom(s, ScanChunks[NextOf(s)])
  BY <1>1, ScanChunksIs
<1>7. ScanFrom(s, ScanChunks[NextOf(s)]) = Chunks("incomplete", <<>>, 0)
  BY <1>1, <1>4, <1>5, Zenon DEF ScanFrom
<1> QED
  BY <1>6, <1>7 DEF s

LEMMA AfterTwice ==
    ASSUME NEW S, NEW s \in Seq(S), NEW m \in Nat, NEW n \in Nat, m + n <= Len(s)
    PROVE  After(After(s, m), n) = After(s, m + n)
<1> DEFINE a == After(s, m)
           b == After(a, n)
           c == After(s, m + n)
           z == Len(s)
<1>1. z \in Nat /\ m <= z /\ m + n \in Nat
  BY LenProperties
<1>2. a \in Seq(S) /\ Len(a) = z - m /\ \A i \in 1 .. z - m : a[i] = s[m + i]
  BY <1>1, AfterType
<1>3. c \in Seq(S) /\ Len(c) = z - (m + n) /\ \A i \in 1 .. z - (m + n) : c[i] = s[(m + n) + i]
  BY <1>1, AfterType
<1> HIDE DEF a, c
<1>4. n <= Len(a)
  BY <1>1, <1>2 DEF z
<1>5. b \in Seq(S) /\ Len(b) = Len(a) - n /\ \A i \in 1 .. Len(a) - n : b[i] = a[n + i]
  <2>1. a \in Seq(S)
    BY <1>2
  <2> QED
    BY <1>4, <2>1, AfterType, Zenon
<1> HIDE DEF b
<1>6. Len(b) = Len(c)
  <2> HIDE DEF z
  <2> QED
    BY <1>1, <1>2, <1>3, <1>5
<1>7. ASSUME NEW i \in 1 .. Len(c) PROVE b[i] = c[i]
  <2>1. m + n <= z
    OBVIOUS
  <2> HIDE DEF z
  <2>2. i \in 1 .. Len(a) - n /\ i \in 1 .. z - (m + n) /\ n + i \in 1 .. z - m /\ m + (n + i) = (m + n) + i
    BY <1>1, <1>2, <1>3, <2>1
  <2>3. b[i] = a[n + i] /\ a[n + i] = s[m + (n + i)] /\ c[i] = s[(m + n) + i]
    BY <1>2, <1>3, <1>5, <2>2, Zenon
  <2> QED
    BY <2>2, <2>3
<1>8. Begins(b, c)
  BY <1>3, <1>6, <1>7, LenProperties DEF Begins
<1>9. b = c
  BY <1>3, <1>5, <1>6, <1>8, BeginsIs, Zenon
<1> QED
  BY <1>9 DEF a, b, c

LEMMA ChunkOn ==
    ASSUME NEW b \in Seq(HttpLexemes), NEW t \in Seq(HttpLexemes), NEW u \in Seq(HttpLexemes)
    PROVE  /\ Chunk(b, t) \o u = Chunk(b, t \o u) /\ Chunk(b, t) \in Seq(HttpLexemes)
           /\ t \o u \in Seq(HttpLexemes)
<1>1. Ended(b) \in Seq(HttpLexemes)
  BY EndedType
<1> QED
  BY <1>1, Associative DEF Chunk

\* What is made of chunks with data, from what is made of what follows.
Join(next, D, k) ==
    IF next.state # "complete" THEN next
    ELSE Chunks("complete", D \o next.data, k + next.consumed)

LEMMA ChunkWhole ==
    ASSUME NEW b, NEW n, SizeLine(b, n), n > 0, NEW w \in Seq(HttpLexemes), Len(w) = n,
           NEW u \in Seq(HttpLexemes)
    PROVE  ScanChunks[Chunk(b, Chunk(w, u))] = Join(ScanChunks[u], w, (Len(b) + 2) + (n + 2))
<1> DEFINE t == Chunk(w, u)
           s == Chunk(b, t)
           m == Len(b)
           k == m + 2
<1>1. /\ t \in Seq(HttpLexemes) /\ Len(t) = (n + 2) + Len(u) /\ n \in Nat /\ Len(u) \in Nat
      /\ (\A i \in 1 .. n : t[i] = w[i]) /\ t[n + 1] = "CR" /\ t[n + 2] = "LF"
      /\ After(t, n + 2) = u
  BY ChunkParts
<1> HIDE DEF t
<1>2. /\ s \in Seq(HttpLexemes) /\ Find(s, CrLf) = m + 1
      /\ SizeOf(s) = n /\ ~Wrong(s)
      /\ BehindOf(s) = (m + 2) + n /\ After(s, m + 2) = t
      /\ Len(s) = (m + 2) + Len(t) /\ m \in Nat
  <2>1. t \in Seq(HttpLexemes)
    BY <1>1
  <2> QED
    BY <2>1, ChunkBegins
<1> HIDE DEF s, m
<1>3. /\ k \in Nat /\ m + 1 + 1 = k /\ BehindOf(s) = k + n /\ k <= Len(s)
      /\ Len(s) = k + ((n + 2) + Len(u)) /\ After(s, k) = t /\ Len(s) - k = Len(t)
  BY <1>1, <1>2
<1> HIDE DEF k
<1>4. \A i \in 1 .. Len(t) : t[i] = s[k + i]
  <2>1. \A i \in 1 .. Len(s) - k : After(s, k)[i] = s[k + i]
    BY <1>2, <1>3, AfterType
  <2> QED
    BY <1>3, <2>1
<1>5. s[k + (n + 1)] = "CR" /\ s[k + (n + 2)] = "LF" /\ \A i \in 1 .. n : s[k + i] = w[i]
  <2>1. n + 1 \in 1 .. Len(t) /\ n + 2 \in 1 .. Len(t) /\ \A i \in 1 .. n : i \in 1 .. Len(t)
    BY <1>1
  <2> QED
    BY <1>1, <1>4, <2>1
<1>6. At(s, BehindOf(s) + 1, CrLf)
  <2>1. DOMAIN CrLf = {1, 2} /\ CrLf[1] = "CR" /\ CrLf[2] = "LF"
    BY DEF CrLf
  <2>2. BehindOf(s) + 1 + 1 - 1 = k + (n + 1) /\ BehindOf(s) + 1 + 2 - 1 = k + (n + 2)
    BY <1>1, <1>3
  <2> QED
    BY <1>5, <2>1, <2>2, Zenon DEF At
<1>7. SubSeq(s, Find(s, CrLf) + 1 + 1, BehindOf(s)) = w
  <2> DEFINE q == k + n
  <2>1. q \in Nat /\ k <= q /\ q <= Len(s) /\ q - k = n /\ Find(s, CrLf) + 1 + 1 = k + 1 /\ BehindOf(s) = q
    BY <1>1, <1>2, <1>3
  <2> HIDE DEF q
  <2> DEFINE d == SubSeq(s, k + 1, q)
  <2>2. d \in Seq(HttpLexemes) /\ Len(d) = q - k /\ \A i \in 1 .. q - k : d[i] = s[k + i]
    <3>1. s \in Seq(HttpLexemes) /\ k \in Nat /\ q \in Nat /\ k <= q /\ q <= Len(s)
      BY <1>2, <1>3, <2>1
    <3> QED
      BY <3>1, Stretch
  <2> HIDE DEF d
  <2>3. Begins(d, w) /\ Len(d) = Len(w)
    BY <1>1, <1>5, <2>1, <2>2 DEF Begins
  <2>4. SubSeq(s, k + 1, q) = w
    <3>1. d \in Seq(HttpLexemes) /\ w \in Seq(HttpLexemes)
      BY <2>2
    <3>2. d = w
      BY <2>3, <3>1, BeginsIs, Zenon
    <3> QED
      BY <3>2 DEF d
  <2> QED
    BY <2>1, <2>4
<1>8. NextOf(s) = u
  <2>1. k + (n + 2) <= Len(s) /\ BehindOf(s) + 2 = k + (n + 2) /\ n + 2 \in Nat
    BY <1>1, <1>3
  <2>2. After(After(s, k), n + 2) = After(s, k + (n + 2))
    BY <1>2, <1>3, <2>1, AfterTwice
  <2> QED
    BY <1>1, <1>3, <2>1, <2>2 DEF NextOf
<1>9. ScanChunks[s] = ScanFrom(s, ScanChunks[u])
  BY <1>2, <1>8, ScanChunksIs
<1>10. /\ Find(s, CrLf) # 0 /\ Find(s, CrLf) > 0 /\ SizeOf(s) # 0 /\ SizeOf(s) > 0
       /\ ~ (Len(s) < BehindOf(s) + 2) /\ BehindOf(s) + 2 = k + (n + 2)
  BY <1>1, <1>2, <1>3
<1>11. ScanFrom(s, ScanChunks[u]) = WithNext(s, ScanChunks[u])
  BY <1>2, <1>10, Zenon DEF ScanFrom
<1>12. WithNext(s, ScanChunks[u]) = Join(ScanChunks[u], w, k + (n + 2))
  BY <1>6, <1>7, <1>10, Zenon DEF WithNext, Join
<1> QED
  BY <1>9, <1>11, <1>12 DEF s, t, k, m

\* P is chunks with the data D, and no more.
Joins(P, D) ==
    /\ P \in Seq(HttpLexemes) /\ D \in Seq(HttpLexemes)
    /\ \A t \in Seq(HttpLexemes) : ScanChunks[P \o t] = Join(ScanChunks[t], D, Len(P))

LEMMA JoinsNone == Joins(<<>>, <<>>)
<1>1. ASSUME NEW t \in Seq(HttpLexemes) PROVE ScanChunks[<<>> \o t] = Join(ScanChunks[t], <<>>, Len(<<>>))
  <2> DEFINE n == ScanChunks[t]
  <2>1. n \in Scans
    BY ScanChunksIs
  <2>2. <<>> \o t = t /\ Len(<<>>) = 0
    BY Associative
  <2> HIDE DEF n
  <2>3. n.data \in Seq(HttpLexemes) /\ n.consumed \in Nat
    BY <2>1 DEF Scans
  <2>4. <<>> \o n.data = n.data /\ 0 + n.consumed = n.consumed
    BY <2>3, Associative
  <2>5. n = [state |-> n.state, data |-> n.data, consumed |-> n.consumed]
    BY <2>1 DEF Scans
  <2>6. n.state = "complete" => n = Chunks("complete", n.data, n.consumed)
    BY <2>5 DEF Chunks
  <2>7. Join(n, <<>>, 0) = n
    BY <2>4, <2>6 DEF Join
  <2> QED
    BY <2>2, <2>7 DEF n
<1>2. <<>> \in Seq(HttpLexemes)
  OBVIOUS
<1> QED
  BY <1>1, <1>2 DEF Joins

LEMMA AssociativeLexemes ==
    \A a, b, c \in Seq(HttpLexemes) : (a \o b) \o c = a \o (b \o c) /\ b \o c \in Seq(HttpLexemes)
<1> QED
  BY Associative

LEMMA JoinsMore ==
    ASSUME NEW P, NEW D, Joins(P, D), NEW b, NEW n, SizeLine(b, n), n > 0,
           NEW w \in Seq(HttpLexemes), Len(w) = n
    PROVE  Joins(P \o (Ended(b) \o Ended(w)), D \o w)
<1> DEFINE L == Ended(b) \o Ended(w)
           Q == P \o L
           E == D \o w
<1>1. P \in Seq(HttpLexemes) /\ D \in Seq(HttpLexemes) /\ b \in Seq(HttpLexemes) /\ n \in Nat
  BY Zenon DEF Joins, SizeLine
<1>2. /\ Ended(b) \in Seq(HttpLexemes) /\ Len(Ended(b)) = Len(b) + 2 /\ Len(b) \in Nat
      /\ Ended(w) \in Seq(HttpLexemes) /\ Len(Ended(w)) = n + 2
  BY <1>1, EndedType
<1>3. L \in Seq(HttpLexemes) /\ Len(L) = (Len(b) + 2) + (n + 2)
  BY <1>2, ConcatSizes
<1>4. Q \in Seq(HttpLexemes) /\ Len(Q) = Len(P) + Len(L) /\ E \in Seq(HttpLexemes) /\ Len(P) \in Nat /\ Len(L) \in Nat
  <2> HIDE DEF L
  <2> QED
    BY <1>1, <1>3, ConcatSizes
<1>5. ASSUME NEW t \in Seq(HttpLexemes) PROVE ScanChunks[Q \o t] = Join(ScanChunks[t], E, Len(Q))
  <2>1. L \o t = Chunk(b, Chunk(w, t))
    BY <1>2, Associative DEF Chunk
  <2>2. ScanChunks[L \o t] = Join(ScanChunks[t], w, Len(L))
    <3> HIDE DEF L
    <3> QED
      BY <1>3, <2>1, ChunkWhole
  <2> HIDE DEF L
  <2>3. Q \o t = P \o (L \o t) /\ L \o t \in Seq(HttpLexemes)
    <3>1. P \in Seq(HttpLexemes) /\ L \in Seq(HttpLexemes)
      BY <1>1, <1>3
    <3> QED
      BY <3>1, AssociativeLexemes
  <2>4. ScanChunks[Q \o t] = Join(ScanChunks[L \o t], D, Len(P))
    BY <2>3, Zenon DEF Joins
  <2> DEFINE x == ScanChunks[t]
             i == Len(P)
             j == Len(L)
             k == Len(Q)
  <2>5. x.data \in Seq(HttpLexemes) /\ x.consumed \in Nat
    <3>1. x \in Scans
      BY ScanChunksIs
    <3> HIDE DEF x
    <3> QED
      BY <3>1 DEF Scans
  <2>6. i \in Nat /\ j \in Nat /\ k = i + j
    BY <1>4
  <2>7. ScanChunks[Q \o t] = Join(Join(x, w, j), D, i)
    BY <2>2, <2>4
  <2> HIDE DEF x, i, j, k, Q
  <2>8. D \o (w \o x.data) = E \o x.data
    <3> DEFINE y == x.data
    <3>1. y \in Seq(HttpLexemes) /\ D \in Seq(HttpLexemes)
      BY <1>1, <2>5
    <3> HIDE DEF y
    <3>2. (D \o w) \o y = D \o (w \o y)
      BY <3>1, AssociativeLexemes
    <3> QED
      BY <3>2 DEF y
  <2> HIDE DEF E
  <2>9. Join(Join(x, w, j), D, i) = Join(x, E, k)
    <3>1. CASE x.state # "complete"
      BY <3>1 DEF Join
    <3>2. CASE x.state = "complete"
      <4>1. Join(x, w, j) = Chunks("complete", w \o x.data, j + x.consumed)
        BY <3>2 DEF Join
      <4>2. Join(Join(x, w, j), D, i) = Chunks("complete", D \o (w \o x.data), i + (j + x.consumed))
        <5>1. /\ Join(x, w, j).state = "complete" /\ Join(x, w, j).data = w \o x.data
              /\ Join(x, w, j).consumed = j + x.consumed
          BY <4>1 DEF Chunks
        <5> QED
          BY <5>1, Zenon DEF Join
      <4>3. i + (j + x.consumed) = k + x.consumed
        BY <2>5, <2>6
      <4> QED
        <5>1. Join(x, E, k) = Chunks("complete", E \o x.data, k + x.consumed)
          BY <3>2, Zenon DEF Join
        <5> QED
          BY <2>8, <4>2, <4>3, <5>1, Zenon
    <3> QED
      BY <3>1, <3>2
  <2> QED
    BY <2>7, <2>9 DEF x, k
<1> HIDE DEF Q, E
<1>6. Joins(Q, E)
  BY <1>4, <1>5 DEF Joins
<1> QED
  BY <1>6 DEF Q, E

LEMMA TrailerLine ==
    ASSUME NEW b \in Seq(HttpLexemes), Without(b, "CR"), NEW t \in Seq(HttpLexemes)
    PROVE  Trailers[Chunk(b, t)] = IF b = <<>> THEN 2 ELSE IF Trailers[t] = 0 THEN 0
                                   ELSE (Len(b) + 2) + Trailers[t]
<1> DEFINE s == Chunk(b, t)
           m == Len(b)
<1>1. Find(s, CrLf) = m + 1
  BY ChunkLine1
<1>2. s \in Seq(HttpLexemes) /\ m \in Nat /\ After(s, m + 2) = t
  BY ChunkParts
<1>3. b = <<>> <=> m = 0
  OBVIOUS
<1>4. Trailers[t] \in Nat
  BY TrailersIs
<1> HIDE DEF s, m
<1>5. m + 1 # 0 /\ m + 1 + 1 = m + 2 /\ (m + 1 = 1 <=> m = 0)
  BY <1>2
<1>6. Trailers[s] = IF Find(s, CrLf) = 0 THEN 0
                        ELSE IF Find(s, CrLf) = 1 THEN 2
                        ELSE IF Trailers[After(s, Find(s, CrLf) + 1)] = 0 THEN 0
                        ELSE Find(s, CrLf) + 1 + Trailers[After(s, Find(s, CrLf) + 1)]
  BY <1>2, TrailersIs
<1> QED
  BY <1>1, <1>2, <1>3, <1>5, <1>6 DEF s, m

LEMMA NoTrailer ==
    ASSUME NEW l \in Seq(HttpLexemes), Without(l, "LF")
    PROVE  Trailers[l] = 0
<1> QED
  BY NoLineEnd, TrailersIs

\* T is trailer lines, none of them empty.
Trails(T) ==
    /\ T \in Seq(HttpLexemes)
    /\ \A t \in Seq(HttpLexemes) : Trailers[T \o t] = IF Trailers[t] = 0 THEN 0 ELSE Len(T) + Trailers[t]

LEMMA TrailsNone == Trails(<<>>)
<1>1. <<>> \in Seq(HttpLexemes) /\ Len(<<>>) = 0
  OBVIOUS
<1>2. ASSUME NEW t \in Seq(HttpLexemes)
      PROVE  Trailers[<<>> \o t] = IF Trailers[t] = 0 THEN 0 ELSE Len(<<>>) + Trailers[t]
  <2>1. <<>> \o t = t
    BY Associative
  <2>2. Trailers[t] \in Nat
    BY TrailersIs
  <2> QED
    BY <1>1, <2>1, <2>2
<1> QED
  BY <1>1, <1>2 DEF Trails

LEMMA TrailsMore ==
    ASSUME NEW T, Trails(T), NEW b \in Seq(HttpLexemes), Without(b, "CR"), b # <<>>
    PROVE  Trails(T \o Ended(b))
<1> DEFINE L == Ended(b)
           Q == T \o L
<1>1. T \in Seq(HttpLexemes)
  BY DEF Trails
<1>2. /\ L \in Seq(HttpLexemes) /\ Len(L) = Len(b) + 2 /\ Len(b) \in Nat
  BY EndedType
<1>3. \A t \in Seq(HttpLexemes) : L \o t = Chunk(b, t)
  BY DEF Chunk
<1> HIDE DEF L
<1>4. Q \in Seq(HttpLexemes) /\ Len(Q) = Len(T) + Len(L) /\ Len(T) \in Nat /\ Len(L) \in Nat
  BY <1>1, <1>2, ConcatSizes
<1>5. ASSUME NEW t \in Seq(HttpLexemes)
      PROVE  Trailers[Q \o t] = IF Trailers[t] = 0 THEN 0 ELSE Len(Q) + Trailers[t]
  <2>1. Q \o t = T \o (L \o t) /\ L \o t \in Seq(HttpLexemes)
    BY <1>1, <1>2, Associative
  <2>2. Trailers[Q \o t] = IF Trailers[L \o t] = 0 THEN 0 ELSE Len(T) + Trailers[L \o t]
    BY <2>1 DEF Trails
  <2>3. Trailers[L \o t] = IF Trailers[t] = 0 THEN 0 ELSE (Len(b) + 2) + Trailers[t]
    BY <1>3, TrailerLine
  <2>4. Trailers[t] \in Nat
    BY TrailersIs
  <2> DEFINE i == Len(T)
             j == Len(b)
             k == Len(Q)
             x == Trailers[t]
  <2>5. i \in Nat /\ j \in Nat /\ k = i + (j + 2) /\ x \in Nat
    BY <1>2, <1>4, <2>4
  <2> HIDE DEF i, j, k, x, Q
  <2>6. CASE x = 0
    BY <2>2, <2>3, <2>6 DEF x
  <2>7. CASE x # 0
    <3>1. (j + 2) + x # 0 /\ i + ((j + 2) + x) = k + x
      BY <2>5, <2>7
    <3> QED
      BY <2>2, <2>3, <2>7, <3>1 DEF i, j, k, x
  <2> QED
    BY <2>6, <2>7
<1> HIDE DEF Q
<1>6. Trails(Q)
  BY <1>4, <1>5 DEF Trails
<1> QED
  BY <1>6 DEF Q, L

-----------------------------------------------------------------------------
(* Where a chunked body is cut: r is what has arrived of it, l its last      *)
(* line, n what is left of the chunk and d its data so far.                  *)

AtSize(r, l, n, d) ==
    \E P, ds : /\ Joins(P, d) /\ ds \in Seq(DOMAIN Hex) /\ n \in Nat /\ ChunkSize(ds) = n
               /\ l = ds \/ (ds # <<>> /\ l = Append(ds, "CR"))
               /\ r = P \o l

AtExtension(r, l, n, d) ==
    \E P, ds : /\ Joins(P, d) /\ ds \in Seq(DOMAIN Hex) /\ ds # <<>> /\ n \in Nat /\ ChunkSize(ds) = n
               /\ l = ds \o <<";">> \/ l = Append(ds \o <<";">>, "CR")
               /\ r = P \o l

Payload(w) == w \in Seq({"x"})

AtData(r, l, n, d) ==
    \E P, D, b, m : /\ Joins(P, D) /\ SizeLine(b, m) /\ Payload(l) /\ n \in Nat /\ n > 0 /\ Len(l) + n = m
                    /\ r = P \o Chunk(b, l) /\ d = D \o l

AtChunkEnd(r, l, n, d) ==
    \E P, D, b, w : /\ Joins(P, D) /\ SizeLine(b, Len(w)) /\ Payload(w) /\ w # <<>> /\ n = 0
                    /\ l = w \/ l = Append(w, "CR")
                    /\ r = P \o Chunk(b, l) /\ d = D \o w

AtTrailer(r, l, d) ==
    \E P, b, T : /\ Joins(P, d) /\ SizeLine(b, 0) /\ Trails(T)
                 /\ l \in {<<>>, <<"x">>, <<"CR">>, <<"x", "CR">>}
                 /\ r = P \o Chunk(b, T \o l)

Complete(r, d) ==
    r \in Seq(HttpLexemes) /\ ScanChunks[r].state = "complete" /\ ScanChunks[r].data = d

Returns(l) == l # <<>> /\ Last(l) = "CR"

LEMMA Bytes ==
    /\ "x" \in HttpLexemes /\ "CR" \in HttpLexemes /\ "LF" \in HttpLexemes /\ ";" \in HttpLexemes
    /\ DOMAIN Hex \subseteq HttpLexemes
<1> QED
  BY LexemeKinds, Zenon

LEMMA ReturnedOrNot ==
    ASSUME NEW S, NEW s \in Seq(S), "CR" \in S, Without(s, "CR")
    PROVE  ~Returns(s) /\ Returns(Append(s, "CR"))
<1>1. ~Returns(s)
  <2>1. SUFFICES ASSUME s # <<>>, Last(s) = "CR" PROVE FALSE
    BY DEF Returns
  <2>2. Len(s) \in Nat /\ Len(s) # 0
    BY <2>1
  <2>3. Len(s) \in 1 .. Len(s)
    BY <2>2
  <2> QED
    BY <2>1, <2>3 DEF Without, Last
<1>2. Returns(Append(s, "CR"))
  <2>1. Append(s, "CR") = s \o <<"CR">> /\ s \o <<"CR">> # <<>> /\ Last(s \o <<"CR">>) = "CR"
    BY AppendIs, Zenon
  <2> QED
    BY <2>1, Zenon DEF Returns
<1> QED
  BY <1>1, <1>2

LEMMA PlainIs ==
    ASSUME NEW w, Payload(w)
    PROVE  /\ w \in Seq(HttpLexemes) /\ Without(w, "CR") /\ Without(w, "LF") /\ Len(w) \in Nat
           /\ Payload(Append(w, "x")) /\ Len(Append(w, "x")) = Len(w) + 1 /\ Append(w, "x") = w \o <<"x">>
<1>1. w \in Seq({"x"}) /\ "x" \in {"x"} /\ "x" \in HttpLexemes
  BY Bytes DEF Payload
<1>2. Len(w) \in Nat /\ \A i \in 1 .. Len(w) : w[i] = "x"
  BY <1>1, LenProperties, ElementOfSeq
<1>3. w \in Seq(HttpLexemes)
  BY <1>1, <1>2, SeqDef
<1>4. Without(w, "CR") /\ Without(w, "LF")
  BY <1>2 DEF Without
<1>5. Append(w, "x") \in Seq({"x"}) /\ Len(Append(w, "x")) = Len(w) + 1
  BY <1>1, OneMore
<1>6. Append(w, "x") = w \o <<"x">>
  BY <1>1, AppendIs
<1> QED
  BY <1>2, <1>3, <1>4, <1>5, <1>6 DEF Payload

\* A line that has not ended holds no LF.
LEMMA OpenLines ==
    ASSUME NEW s \in Seq(HttpLexemes), Without(s, "LF")
    PROVE  /\ Append(s, "CR") \in Seq(HttpLexemes) /\ Without(Append(s, "CR"), "LF")
           /\ Append(s, "CR") = s \o <<"CR">> /\ <<"CR">> \in Seq(HttpLexemes)
<1>1. "CR" \in HttpLexemes
  BY Bytes
<1>2. Append(s, "CR") = s \o <<"CR">> /\ <<"CR">> \in Seq(HttpLexemes) /\ s \o <<"CR">> \in Seq(HttpLexemes)
  BY <1>1, AppendIs, Zenon
<1>3. Without(<<"CR">>, "LF")
  BY WithoutOne
<1>4. Without(s \o <<"CR">>, "LF")
  BY <1>2, <1>3, WithoutConcat, Zenon
<1> QED
  BY <1>2, <1>4, Zenon

LEMMA OpenScan ==
    ASSUME NEW l \in Seq(HttpLexemes), Without(l, "LF")
    PROVE  ScanChunks[l] = Chunks("incomplete", <<>>, 0)
<1>1. Find(l, CrLf) = 0
  BY NoLineEnd
<1>2. ScanChunks[l] = ScanFrom(l, ScanChunks[NextOf(l)])
  BY ScanChunksIs
<1>3. ScanFrom(l, ScanChunks[NextOf(l)]) = Chunks("incomplete", <<>>, 0)
  <2>1. ~ (Find(l, CrLf) > 0)
    BY <1>1
  <2> QED
    BY <1>1, <2>1, Zenon DEF ScanFrom
<1> QED
  BY <1>2, <1>3

LEMMA JoinsOpen ==
    ASSUME NEW P, NEW D, Joins(P, D), NEW t \in Seq(HttpLexemes),
           ScanChunks[t] = Chunks("incomplete", <<>>, 0)
    PROVE  /\ P \o t \in Seq(HttpLexemes) /\ ScanChunks[P \o t].state = "incomplete"
           /\ P \in Seq(HttpLexemes) /\ D \in Seq(HttpLexemes)
<1>1. P \in Seq(HttpLexemes) /\ D \in Seq(HttpLexemes)
  BY DEF Joins
<1>2. ScanChunks[P \o t] = Join(ScanChunks[t], D, Len(P))
  BY Zenon DEF Joins
<1>3. ScanChunks[t].state = "incomplete"
  BY DEF Chunks
<1>4. Join(ScanChunks[t], D, Len(P)) = ScanChunks[t]
  BY <1>3 DEF Join
<1> QED
  BY <1>1, <1>2, <1>3, <1>4, ConcatSizes

LEMMA SizeOpen ==
    ASSUME NEW r, NEW l, NEW n, NEW d, AtSize(r, l, n, d) \/ AtExtension(r, l, n, d)
    PROVE  r \in Seq(HttpLexemes) /\ ScanChunks[r].state = "incomplete"
<1>1. PICK P : Joins(P, d) /\ r = P \o l /\ l \in Seq(HttpLexemes) /\ Without(l, "LF")
  <2>1. CASE AtSize(r, l, n, d)
    <3>1. PICK P, ds : /\ Joins(P, d) /\ ds \in Seq(DOMAIN Hex) /\ r = P \o l
                       /\ l = ds \/ l = Append(ds, "CR")
      BY <2>1, Zenon DEF AtSize
    <3>2. ds \in Seq(HttpLexemes) /\ Without(ds, "LF")
      BY <3>1, DigitsWithout
    <3>3. l \in Seq(HttpLexemes) /\ Without(l, "LF")
      BY <3>1, <3>2, OpenLines, Zenon
    <3> QED
      BY <3>1, <3>3
  <2>2. CASE AtExtension(r, l, n, d)
    <3>1. PICK P, ds : /\ Joins(P, d) /\ ds \in Seq(DOMAIN Hex) /\ r = P \o l
                       /\ l = ds \o <<";">> \/ l = Append(ds \o <<";">>, "CR")
      BY <2>2, Zenon DEF AtExtension
    <3>2. ds \in Seq(HttpLexemes) /\ Without(ds, "LF")
      BY <3>1, DigitsWithout, Zenon
    <3>7. ";" \in HttpLexemes
      BY Bytes, Zenon
    <3>3. ds \o <<";">> \in Seq(HttpLexemes) /\ <<";">> \in Seq(HttpLexemes)
      BY <3>2, <3>7, AppendIs, Zenon
    <3>4. Without(<<";">>, "LF")
      BY WithoutOne, ";" # "LF", Zenon
    <3>5. Without(ds \o <<";">>, "LF")
      BY <3>2, <3>3, <3>4, WithoutConcat, Zenon
    <3>6. l \in Seq(HttpLexemes) /\ Without(l, "LF")
      BY <3>1, <3>3, <3>5, OpenLines, Zenon
    <3> QED
      BY <3>1, <3>6
  <2> QED
    BY <2>1, <2>2
<1> QED
  BY <1>1, OpenScan, JoinsOpen, Zenon

LEMMA DataOpen ==
    ASSUME NEW r, NEW l, NEW n, NEW d, AtData(r, l, n, d) \/ AtChunkEnd(r, l, n, d)
    PROVE  r \in Seq(HttpLexemes) /\ ScanChunks[r].state = "incomplete"
<1>1. PICK P, D, b, m : /\ Joins(P, D) /\ SizeLine(b, m) /\ m > 0 /\ l \in Seq(HttpLexemes) /\ Len(l) < m + 2
                        /\ r = P \o Chunk(b, l)
  <2>1. CASE AtData(r, l, n, d)
    <3>1. PICK P, D, b, m : /\ Joins(P, D) /\ SizeLine(b, m) /\ Payload(l) /\ n \in Nat /\ n > 0 /\ Len(l) + n = m
                            /\ r = P \o Chunk(b, l)
      BY <2>1, Zenon DEF AtData
    <3>2. l \in Seq(HttpLexemes) /\ Len(l) \in Nat
      BY <3>1, PlainIs, Zenon
    <3>3. m > 0 /\ Len(l) < m + 2
      BY <3>1, <3>2
    <3> QED
      BY <3>1, <3>2, <3>3, Zenon
  <2>2. CASE AtChunkEnd(r, l, n, d)
    <3>1. PICK P, D, b, w : /\ Joins(P, D) /\ SizeLine(b, Len(w)) /\ Payload(w) /\ w # <<>>
                            /\ l = w \/ l = Append(w, "CR")
                            /\ r = P \o Chunk(b, l)
      BY <2>2, Zenon DEF AtChunkEnd
    <3>2. w \in Seq(HttpLexemes) /\ Len(w) \in Nat
      BY <3>1, PlainIs, Zenon
    <3>3. "CR" \in HttpLexemes
      BY Bytes
    <3>4. Append(w, "CR") \in Seq(HttpLexemes) /\ Len(Append(w, "CR")) = Len(w) + 1
      BY <3>2, <3>3, OneMore
    <3>5. Len(w) > 0
      BY <3>1, <3>2, EmptySeq
    <3>6. l \in Seq(HttpLexemes) /\ Len(l) < Len(w) + 2
      <4>1. CASE l = w
        BY <4>1, <3>2
      <4>2. CASE l = Append(w, "CR")
        <5>1. l \in Seq(HttpLexemes) /\ Len(l) = Len(w) + 1
          BY <4>2, <3>4, Zenon
        <5> QED
          BY <5>1, <3>2
      <4> QED
        BY <3>1, <4>1, <4>2
    <3> QED
      BY <3>1, <3>5, <3>6, Zenon
  <2> QED
    BY <2>1, <2>2
<1>2. ScanChunks[Chunk(b, l)] = Chunks("incomplete", <<>>, 0)
  BY <1>1, ChunkShort, Zenon
<1>3. Chunk(b, l) \in Seq(HttpLexemes)
  BY <1>1, ChunkBegins, Zenon
<1> QED
  BY <1>1, <1>2, <1>3, JoinsOpen, Zenon

LEMMA TrailerLines ==
    ASSUME NEW l, l \in {<<>>, <<"x">>, <<"CR">>, <<"x", "CR">>}
    PROVE  l \in Seq(HttpLexemes) /\ Without(l, "LF")
<1>1. "x" \in HttpLexemes /\ "CR" \in HttpLexemes
  BY Bytes
<1>2. CASE l = <<>>
  BY <1>2 DEF Without
<1>3. CASE l = <<"x">>
  BY <1>1, <1>3, Added DEF Without
<1>4. CASE l = <<"CR">>
  BY <1>1, <1>4, Added DEF Without
<1>5. CASE l = <<"x", "CR">>
  <2>1. l \in Seq({"x", "CR"}) /\ Len(l) = 2 /\ l[1] = "x" /\ l[2] = "CR"
    BY <1>5
  <2>2. \A i \in 1 .. Len(l) : l[i] \in HttpLexemes /\ l[i] # "LF"
    BY <1>1, <2>1
  <2>3. l \in Seq(HttpLexemes)
    BY <2>1, <2>2, SeqDef
  <2> QED
    BY <2>2, <2>3 DEF Without
<1> QED
  BY <1>2, <1>3, <1>4, <1>5

LEMMA TrailerOpen ==
    ASSUME NEW r, NEW l, NEW d, AtTrailer(r, l, d)
    PROVE  r \in Seq(HttpLexemes) /\ ScanChunks[r].state = "incomplete"
<1>1. PICK P, b, T : /\ Joins(P, d) /\ SizeLine(b, 0) /\ Trails(T)
                     /\ l \in {<<>>, <<"x">>, <<"CR">>, <<"x", "CR">>}
                     /\ r = P \o Chunk(b, T \o l)
  BY Zenon DEF AtTrailer
<1>2. l \in Seq(HttpLexemes) /\ Without(l, "LF")
  BY <1>1, TrailerLines, Zenon
<1>3. T \in Seq(HttpLexemes)
  BY <1>1 DEF Trails
<1>4. T \o l \in Seq(HttpLexemes) /\ Trailers[T \o l] = 0
  <2>1. Trailers[l] = 0
    BY <1>2, NoTrailer
  <2> QED
    BY <1>1, <1>2, <1>3, <2>1, ConcatSizes DEF Trails
<1>5. ScanChunks[Chunk(b, T \o l)] = Chunks("incomplete", <<>>, 0)
  BY <1>1, <1>4, ChunkLast, Zenon
<1>6. Chunk(b, T \o l) \in Seq(HttpLexemes)
  BY <1>1, <1>4, ChunkBegins, Zenon
<1> QED
  BY <1>1, <1>5, <1>6, JoinsOpen, Zenon

LEMMA AppendOn ==
    ASSUME NEW s \in Seq(HttpLexemes), NEW t \in Seq(HttpLexemes), NEW c \in HttpLexemes
    PROVE  /\ Append(s \o t, c) = s \o Append(t, c) /\ Append(t, c) \in Seq(HttpLexemes)
           /\ s \o t \in Seq(HttpLexemes)
<1>1. s \o t \in Seq(HttpLexemes)
  BY ConcatSizes
<1>2. Append(s \o t, c) = (s \o t) \o <<c>> /\ Append(t, c) = t \o <<c>> /\ <<c>> \in Seq(HttpLexemes)
      /\ t \o <<c>> \in Seq(HttpLexemes)
  BY <1>1, AppendIs, Zenon
<1>3. (s \o t) \o <<c>> = s \o (t \o <<c>>)
  BY <1>2, AssociativeLexemes, Zenon
<1> QED
  BY <1>1, <1>2, <1>3, Zenon

LEMMA NoNumber ==
    /\ -1 \notin Nat /\ 0 \in Nat
    /\ \A n \in Nat : \A e \in Nat : n * 16 + e <= Npos => NextSize(n, e) = n * 16 + e /\ n * 16 + e \in Nat
<1>1. ASSUME NEW n \in Nat, NEW e \in Nat, n * 16 + e <= Npos
      PROVE  NextSize(n, e) = n * 16 + e /\ n * 16 + e \in Nat
  <2>1. Npos \in Nat
    BY HttpAssumption
  <2>2. ~ (n > (Npos - e) \div 16)
    BY <1>1, <2>1
  <2>3. n # -1
    BY <1>1
  <2>4. n * 16 + e \in Nat
    BY <1>1
  <2> QED
    BY <2>2, <2>3, <2>4 DEF NextSize
<1> QED
  BY <1>1

LEMMA HexValue == \A c \in DOMAIN Hex : Hex[c] \in Nat
BY DEF Hex

LEMMA SizeStarts == AtSize(<<>>, <<>>, 0, <<>>)
<1>1. Joins(<<>>, <<>>) /\ ChunkSize(<<>>) = 0 /\ <<>> \in Seq(DOMAIN Hex) /\ <<>> = <<>> \o <<>>
  <2>1. <<>> \in Seq(DOMAIN Hex) /\ <<>> = <<>> \o <<>>
    OBVIOUS
  <2> QED
    BY <2>1, JoinsNone, ChunkSizeNone
<1>2. 0 \in Nat
  OBVIOUS
<1> QED
  BY <1>1, <1>2, Zenon DEF AtSize

\* A line of digits that has not returned is the digits themselves.
DigitsAt(P, ds, r, l, n, d) ==
    /\ Joins(P, d) /\ ds \in Seq(DOMAIN Hex) /\ n \in Nat /\ ChunkSize(ds) = n /\ r = P \o l
    /\ P \in Seq(HttpLexemes) /\ ds \in Seq(HttpLexemes)
    /\ ~Returns(l) => l = ds
    /\ Returns(l) => ds # <<>> /\ l = Append(ds, "CR")

LEMMA SizeParts ==
    ASSUME NEW r, NEW l, NEW n, NEW d, AtSize(r, l, n, d)
    PROVE  \E P, ds : DigitsAt(P, ds, r, l, n, d)
<1>1. PICK P, ds : /\ Joins(P, d) /\ ds \in Seq(DOMAIN Hex) /\ n \in Nat /\ ChunkSize(ds) = n
                   /\ l = ds \/ (ds # <<>> /\ l = Append(ds, "CR"))
                   /\ r = P \o l
  BY Zenon DEF AtSize
<1>2. ds \in Seq(HttpLexemes) /\ Without(ds, "CR")
  BY <1>1, DigitsWithout, Zenon
<1>3. "CR" \in HttpLexemes
  BY Bytes, Zenon
<1>4. ~Returns(ds) /\ Returns(Append(ds, "CR"))
  BY <1>2, <1>3, ReturnedOrNot, Zenon
<1>5. P \in Seq(HttpLexemes)
  BY <1>1, Zenon DEF Joins
<1>6. (~Returns(l) => l = ds) /\ (Returns(l) => ds # <<>> /\ l = Append(ds, "CR"))
  BY <1>1, <1>4, Zenon
<1>7. DigitsAt(P, ds, r, l, n, d)
  BY <1>1, <1>2, <1>5, <1>6, Zenon DEF DigitsAt
<1> QED
  BY <1>7, Zenon

\* The digits, and a semicolon behind them.
ExtendedAt(P, ds, r, l, n, d) ==
    /\ Joins(P, d) /\ ds \in Seq(DOMAIN Hex) /\ ds # <<>> /\ n \in Nat /\ ChunkSize(ds) = n
    /\ r = P \o l
    /\ P \in Seq(HttpLexemes) /\ ds \o <<";">> \in Seq(HttpLexemes)
    /\ ~Returns(l) => l = ds \o <<";">>
    /\ Returns(l) => l = Append(ds \o <<";">>, "CR")

LEMMA ExtensionParts ==
    ASSUME NEW r, NEW l, NEW n, NEW d, AtExtension(r, l, n, d)
    PROVE  \E P, ds : ExtendedAt(P, ds, r, l, n, d)
<1>1. PICK P, ds : /\ Joins(P, d) /\ ds \in Seq(DOMAIN Hex) /\ ds # <<>> /\ n \in Nat /\ ChunkSize(ds) = n
                   /\ l = ds \o <<";">> \/ l = Append(ds \o <<";">>, "CR")
                   /\ r = P \o l
  BY Zenon DEF AtExtension
<1>2. ds \in Seq(HttpLexemes) /\ Without(ds, "CR")
  BY <1>1, DigitsWithout, Zenon
<1>3. "CR" \in HttpLexemes /\ ";" \in HttpLexemes
  BY Bytes, Zenon
<1>4. ds \o <<";">> \in Seq(HttpLexemes) /\ <<";">> \in Seq(HttpLexemes)
  BY <1>2, <1>3, AppendIs, Zenon
<1>5. Without(<<";">>, "CR")
  BY WithoutOne, ";" # "CR", Zenon
<1>6. Without(ds \o <<";">>, "CR")
  BY <1>2, <1>4, <1>5, WithoutConcat, Zenon
<1>7. ~Returns(ds \o <<";">>) /\ Returns(Append(ds \o <<";">>, "CR"))
  BY <1>3, <1>4, <1>6, ReturnedOrNot, Zenon
<1>8. P \in Seq(HttpLexemes)
  BY <1>1, Zenon DEF Joins
<1>9. (~Returns(l) => l = ds \o <<";">>) /\ (Returns(l) => l = Append(ds \o <<";">>, "CR"))
  BY <1>1, <1>7, Zenon
<1>10. ExtendedAt(P, ds, r, l, n, d)
  BY <1>1, <1>4, <1>8, <1>9, Zenon DEF ExtendedAt
<1> QED
  BY <1>10, Zenon

LEMMA SizeGrows ==
    ASSUME NEW r, NEW l, NEW n, NEW d, AtSize(r, l, n, d), ~Returns(l),
           NEW c \in DOMAIN Hex, n * 16 + Hex[c] <= Npos
    PROVE  AtSize(Append(r, c), Append(l, c), n * 16 + Hex[c], d)
<1>0a. PICK P, ds : DigitsAt(P, ds, r, l, n, d)
  BY SizeParts, Zenon
<1>1. /\ Joins(P, d) /\ ds \in Seq(DOMAIN Hex) /\ n \in Nat /\ ChunkSize(ds) = n /\ r = P \o l
      /\ P \in Seq(HttpLexemes) /\ ds \in Seq(HttpLexemes)
      /\ ~Returns(l) => l = ds
      /\ Returns(l) => ds # <<>> /\ l = Append(ds, "CR")
  BY <1>0a, Zenon DEF DigitsAt
<1>0. l = ds
  BY <1>1, Zenon
<1>2. c \in HttpLexemes
  BY Bytes, Zenon
<1>3. Append(r, c) = P \o Append(ds, c)
  BY <1>0, <1>1, <1>2, AppendOn, Zenon
<1>4. Append(ds, c) = ds \o <<c>> /\ Append(ds, c) \in Seq(DOMAIN Hex)
  BY <1>0, <1>1, AppendIs, Zenon
<1>5. ChunkSize(ds \o <<c>>) = NextSize(n, Hex[c])
  BY <1>0, <1>1, ChunkSizeMore, Zenon
<1>6. NextSize(n, Hex[c]) = n * 16 + Hex[c] /\ n * 16 + Hex[c] \in Nat
  BY <1>0, <1>1, HexValue, NoNumber, Zenon
<1>7. ChunkSize(Append(ds, c)) = n * 16 + Hex[c]
  BY <1>4, <1>5, <1>6, Zenon
<1> QED
  BY <1>0, <1>1, <1>3, <1>4, <1>6, <1>7, Zenon DEF AtSize

LEMMA SizeReturns ==
    ASSUME NEW r, NEW l, NEW n, NEW d, AtSize(r, l, n, d), ~Returns(l), l # <<>>
    PROVE  AtSize(Append(r, "CR"), Append(l, "CR"), n, d)
<1>0a. PICK P, ds : DigitsAt(P, ds, r, l, n, d)
  BY SizeParts, Zenon
<1>1. /\ Joins(P, d) /\ ds \in Seq(DOMAIN Hex) /\ n \in Nat /\ ChunkSize(ds) = n /\ r = P \o l
      /\ P \in Seq(HttpLexemes) /\ ds \in Seq(HttpLexemes)
      /\ ~Returns(l) => l = ds
      /\ Returns(l) => ds # <<>> /\ l = Append(ds, "CR")
  BY <1>0a, Zenon DEF DigitsAt
<1>0. l = ds
  BY <1>1, Zenon
<1>2. Append(r, "CR") = P \o Append(ds, "CR")
  <2>1. "CR" \in HttpLexemes
    BY Bytes, Zenon
  <2> QED
    BY <1>0, <1>1, <2>1, AppendOn, Zenon
<1> QED
  BY <1>0, <1>1, <1>2, Zenon DEF AtSize

LEMMA SizeExtended ==
    ASSUME NEW r, NEW l, NEW n, NEW d, AtSize(r, l, n, d), ~Returns(l), l # <<>>
    PROVE  AtExtension(Append(r, ";"), Append(l, ";"), n, d)
<1>0a. PICK P, ds : DigitsAt(P, ds, r, l, n, d)
  BY SizeParts, Zenon
<1>1. /\ Joins(P, d) /\ ds \in Seq(DOMAIN Hex) /\ n \in Nat /\ ChunkSize(ds) = n /\ r = P \o l
      /\ P \in Seq(HttpLexemes) /\ ds \in Seq(HttpLexemes)
      /\ ~Returns(l) => l = ds
      /\ Returns(l) => ds # <<>> /\ l = Append(ds, "CR")
  BY <1>0a, Zenon DEF DigitsAt
<1>0. l = ds
  BY <1>1, Zenon
<1>2. ";" \in HttpLexemes
  BY Bytes, Zenon
<1>3. Append(r, ";") = P \o Append(ds, ";") /\ Append(ds, ";") = ds \o <<";">>
  BY <1>0, <1>1, <1>2, AppendOn, AppendIs, Zenon
<1> QED
  BY <1>0, <1>1, <1>3, Zenon DEF AtExtension

LEMMA ExtensionReturns ==
    ASSUME NEW r, NEW l, NEW n, NEW d, AtExtension(r, l, n, d), ~Returns(l)
    PROVE  AtExtension(Append(r, "CR"), Append(l, "CR"), n, d)
<1>0a. PICK P, ds : ExtendedAt(P, ds, r, l, n, d)
  BY ExtensionParts, Zenon
<1>1. /\ Joins(P, d) /\ ds \in Seq(DOMAIN Hex) /\ ds # <<>> /\ n \in Nat /\ ChunkSize(ds) = n
      /\ r = P \o l
      /\ P \in Seq(HttpLexemes) /\ ds \o <<";">> \in Seq(HttpLexemes)
      /\ ~Returns(l) => l = ds \o <<";">>
      /\ Returns(l) => l = Append(ds \o <<";">>, "CR")
  BY <1>0a, Zenon DEF ExtendedAt
<1>0. l = ds \o <<";">>
  BY <1>1, Zenon
<1>2. Append(r, "CR") = P \o Append(ds \o <<";">>, "CR")
  <2>1. "CR" \in HttpLexemes
    BY Bytes, Zenon
  <2> QED
    BY <1>0, <1>1, <2>1, AppendOn, Zenon
<1> QED
  BY <1>0, <1>1, <1>2, Zenon DEF AtExtension

\* A line that has returned ends with the next LF.
LEMMA LineClosed ==
    ASSUME NEW P \in Seq(HttpLexemes), NEW b \in Seq(HttpLexemes), NEW r, r = P \o Append(b, "CR")
    PROVE  /\ Append(r, "LF") = P \o Ended(b)
           /\ Append(r, "LF") = P \o Chunk(b, <<>>)
<1>1. "CR" \in HttpLexemes /\ "LF" \in HttpLexemes
  BY Bytes, Zenon
<1>2. Append(b, "CR") \in Seq(HttpLexemes) /\ Append(b, "CR") = b \o <<"CR">> /\ <<"CR">> \in Seq(HttpLexemes)
  BY <1>1, AppendIs, Zenon
<1>3. Append(r, "LF") = P \o Append(b \o <<"CR">>, "LF")
  <2>1. r = P \o (b \o <<"CR">>) /\ b \o <<"CR">> \in Seq(HttpLexemes)
    BY <1>2, Zenon
  <2>2. Append(P \o (b \o <<"CR">>), "LF") = P \o Append(b \o <<"CR">>, "LF")
    BY <1>1, <2>1, AppendOn, Zenon
  <2> QED
    BY <2>1, <2>2
<1>4. Append(b \o <<"CR">>, "LF") = b \o Append(<<"CR">>, "LF")
  BY <1>1, <1>2, AppendOn, Zenon
<1>5. Append(<<"CR">>, "LF") = CrLf
  BY AppendTwo, Zenon DEF CrLf
<1>6. Append(r, "LF") = P \o Ended(b)
  BY <1>3, <1>4, <1>5, Zenon DEF Ended
<1>7. Ended(b) \in Seq(HttpLexemes)
  BY EndedType
<1>8. Ended(b) \o <<>> = Ended(b)
  BY <1>7
<1> QED
  BY <1>6, <1>8, Zenon DEF Chunk

LEMMA SizeEnds ==
    ASSUME NEW r, NEW l, NEW n, NEW d, AtSize(r, l, n, d) \/ AtExtension(r, l, n, d), Returns(l)
    PROVE  /\ n \in Nat
           /\ \E P, b : Joins(P, d) /\ SizeLine(b, n) /\ Append(r, "LF") = P \o Chunk(b, <<>>)
<1>1. CASE AtSize(r, l, n, d)
  <2>0a. PICK P, ds : DigitsAt(P, ds, r, l, n, d)
    BY <1>1, SizeParts, Zenon
  <2>1. /\ Joins(P, d) /\ ds \in Seq(DOMAIN Hex) /\ n \in Nat /\ ChunkSize(ds) = n /\ r = P \o l
        /\ P \in Seq(HttpLexemes) /\ ds \in Seq(HttpLexemes)
        /\ ~Returns(l) => l = ds
        /\ Returns(l) => ds # <<>> /\ l = Append(ds, "CR")
    BY <2>0a, Zenon DEF DigitsAt
  <2>0. ds # <<>> /\ l = Append(ds, "CR")
    BY <2>1, Zenon
  <2>2. SizeLine(ds, n)
    BY <2>0, <2>1, DigitLine, Zenon
  <2>3. Append(r, "LF") = P \o Chunk(ds, <<>>)
    BY <2>0, <2>1, LineClosed, Zenon
  <2> QED
    BY <2>0, <2>1, <2>2, <2>3, Zenon
<1>2. CASE AtExtension(r, l, n, d)
  <2>0a. PICK P, ds : ExtendedAt(P, ds, r, l, n, d)
    BY <1>2, ExtensionParts, Zenon
  <2>1. /\ Joins(P, d) /\ ds \in Seq(DOMAIN Hex) /\ ds # <<>> /\ n \in Nat /\ ChunkSize(ds) = n
        /\ r = P \o l
        /\ P \in Seq(HttpLexemes) /\ ds \o <<";">> \in Seq(HttpLexemes)
        /\ ~Returns(l) => l = ds \o <<";">>
        /\ Returns(l) => l = Append(ds \o <<";">>, "CR")
    BY <2>0a, Zenon DEF ExtendedAt
  <2>0. l = Append(ds \o <<";">>, "CR")
    BY <2>1, Zenon
  <2>2. SizeLine(ds \o <<";">>, n)
    BY <2>0, <2>1, DigitLine, Zenon
  <2>3. Append(r, "LF") = P \o Chunk(ds \o <<";">>, <<>>)
    BY <2>0, <2>1, LineClosed, Zenon
  <2> QED
    BY <2>0, <2>1, <2>2, <2>3, Zenon
<1> QED
  BY <1>1, <1>2

LEMMA PlainNone == Payload(<<>>) /\ Len(<<>>) = 0
BY DEF Payload

LEMMA DataStarts ==
    ASSUME NEW r, NEW l, NEW n, NEW d, AtSize(r, l, n, d) \/ AtExtension(r, l, n, d), Returns(l), n # 0
    PROVE  AtData(Append(r, "LF"), <<>>, n, d)
<1>1. PICK P, b : Joins(P, d) /\ SizeLine(b, n) /\ Append(r, "LF") = P \o Chunk(b, <<>>)
  BY SizeEnds, Zenon
<1>2. n \in Nat
  BY SizeEnds, Zenon
<1>3. n > 0 /\ Len(<<>>) + n = n
  BY <1>2, PlainNone
<1>4. d = d \o <<>>
  <2>1. d \in Seq(HttpLexemes)
    BY <1>1, Zenon DEF Joins
  <2> QED
    BY <2>1
<1> QED
  BY <1>1, <1>2, <1>3, <1>4, PlainNone, Zenon DEF AtData

LEMMA TrailerStarts ==
    ASSUME NEW r, NEW l, NEW d, AtSize(r, l, 0, d) \/ AtExtension(r, l, 0, d), Returns(l)
    PROVE  AtTrailer(Append(r, "LF"), <<>>, d)
<1>1. PICK P, b : Joins(P, d) /\ SizeLine(b, 0) /\ Append(r, "LF") = P \o Chunk(b, <<>>)
  BY SizeEnds, Zenon
<1>2. <<>> = <<>> \o <<>>
  OBVIOUS
<1>3. Append(r, "LF") = P \o Chunk(b, <<>> \o <<>>)
  BY <1>1, <1>2, Zenon
<1>4. <<>> \in {<<>>, <<"x">>, <<"CR">>, <<"x", "CR">>}
  OBVIOUS
<1> QED
  BY <1>1, <1>3, <1>4, TrailsNone, Zenon DEF AtTrailer

\* Behind a size line the chunk grows at its end.
LEMMA ChunkGrows ==
    ASSUME NEW P \in Seq(HttpLexemes), NEW b \in Seq(HttpLexemes), NEW t \in Seq(HttpLexemes), NEW c \in HttpLexemes
    PROVE  Append(P \o Chunk(b, t), c) = P \o Chunk(b, Append(t, c))
<1>1. Ended(b) \in Seq(HttpLexemes)
  BY EndedType, Zenon
<1>2. Chunk(b, t) \in Seq(HttpLexemes)
  BY <1>1, ConcatSizes, Zenon DEF Chunk
<1>3. Append(P \o Chunk(b, t), c) = P \o Append(Chunk(b, t), c)
  BY <1>2, AppendOn, Zenon
<1>4. Append(Chunk(b, t), c) = Chunk(b, Append(t, c))
  BY <1>1, AppendOn, Zenon DEF Chunk
<1> QED
  BY <1>3, <1>4, Zenon

LEMMA OneLess ==
    \A n, k, m \in Nat : n > 0 /\ k + n = m =>
       /\ n > 1 => n - 1 \in Nat /\ n - 1 > 0 /\ (k + 1) + (n - 1) = m
       /\ ~ (n > 1) => n - 1 = 0 /\ k + 1 = m
OBVIOUS

LEMMA DataGrows ==
    ASSUME NEW r, NEW l, NEW n, NEW d, AtData(r, l, n, d)
    PROVE  /\ n \in Nat
           /\ n > 1 => AtData(Append(r, "x"), Append(l, "x"), n - 1, Append(d, "x"))
           /\ ~ (n > 1) => AtChunkEnd(Append(r, "x"), Append(l, "x"), n - 1, Append(d, "x"))
<1>1. PICK P, D, b, m : /\ Joins(P, D) /\ SizeLine(b, m) /\ Payload(l) /\ n \in Nat /\ n > 0 /\ Len(l) + n = m
                        /\ r = P \o Chunk(b, l) /\ d = D \o l
  BY Zenon DEF AtData
<1>2. P \in Seq(HttpLexemes) /\ D \in Seq(HttpLexemes) /\ b \in Seq(HttpLexemes) /\ m \in Nat
  BY <1>1, Zenon DEF Joins, SizeLine
<1>3. l \in Seq(HttpLexemes) /\ Len(l) \in Nat /\ Payload(Append(l, "x")) /\ Len(Append(l, "x")) = Len(l) + 1
  BY <1>1, PlainIs, Zenon
<1>4. "x" \in HttpLexemes
  BY Bytes, Zenon
<1>4a. /\ P \in Seq(HttpLexemes) /\ D \in Seq(HttpLexemes) /\ b \in Seq(HttpLexemes)
       /\ l \in Seq(HttpLexemes) /\ "x" \in HttpLexemes
  BY <1>2, <1>3, <1>4, Zenon
<1>5. Append(r, "x") = P \o Chunk(b, Append(l, "x"))
  <2>1. /\ P \in Seq(HttpLexemes) /\ b \in Seq(HttpLexemes) /\ l \in Seq(HttpLexemes)
        /\ "x" \in HttpLexemes
    BY <1>4a
  <2>2. Append(P \o Chunk(b, l), "x") = P \o Chunk(b, Append(l, "x"))
    BY <2>1, ChunkGrows
  <2> QED
    BY <1>1, <2>2, Zenon
<1>6. Append(d, "x") = D \o Append(l, "x")
  <2>1. Append(D \o l, "x") = D \o Append(l, "x")
    BY <1>4a, AppendOn
  <2> QED
    BY <1>1, <2>1, Zenon
<1>7. /\ n > 1 => n - 1 \in Nat /\ n - 1 > 0 /\ (Len(l) + 1) + (n - 1) = m
      /\ ~ (n > 1) => n - 1 = 0 /\ Len(l) + 1 = m
  BY <1>1, <1>2, <1>3, OneLess, Zenon
<1>8. ASSUME n > 1 PROVE AtData(Append(r, "x"), Append(l, "x"), n - 1, Append(d, "x"))
  <2>1. n - 1 \in Nat /\ n - 1 > 0 /\ Len(Append(l, "x")) + (n - 1) = m
    BY <1>3, <1>7, <1>8, Zenon
  <2> QED
    BY <1>1, <1>3, <1>5, <1>6, <2>1, Zenon DEF AtData
<1>9. ASSUME ~ (n > 1) PROVE AtChunkEnd(Append(r, "x"), Append(l, "x"), n - 1, Append(d, "x"))
  <2>1. n - 1 = 0 /\ Len(Append(l, "x")) = m
    BY <1>3, <1>7, <1>9, Zenon
  <2>2. Append(l, "x") # <<>>
    BY <1>3, <1>4, AppendIs, Zenon
  <2>3. SizeLine(b, Len(Append(l, "x")))
    BY <1>1, <2>1, Zenon
  <2> QED
    BY <1>1, <1>3, <1>5, <1>6, <2>1, <2>2, <2>3, Zenon DEF AtChunkEnd
<1> QED
  BY <1>1, <1>8, <1>9, Zenon

EndFrom(P, D, b, w, r, l, n, d) ==
    /\ Joins(P, D) /\ SizeLine(b, Len(w)) /\ Payload(w) /\ w # <<>> /\ n = 0
    /\ r = P \o Chunk(b, l) /\ d = D \o w
    /\ P \in Seq(HttpLexemes) /\ b \in Seq(HttpLexemes) /\ w \in Seq(HttpLexemes)
    /\ ~Returns(l) => l = w
    /\ Returns(l) => l = Append(w, "CR")

LEMMA EndParts ==
    ASSUME NEW r, NEW l, NEW n, NEW d, AtChunkEnd(r, l, n, d)
    PROVE  \E P, D, b, w : EndFrom(P, D, b, w, r, l, n, d)
<1>1. PICK P, D, b, w : /\ Joins(P, D) /\ SizeLine(b, Len(w)) /\ Payload(w) /\ w # <<>> /\ n = 0
                        /\ l = w \/ l = Append(w, "CR")
                        /\ r = P \o Chunk(b, l) /\ d = D \o w
  BY Zenon DEF AtChunkEnd
<1>2. w \in Seq(HttpLexemes) /\ Without(w, "CR")
  BY <1>1, PlainIs, Zenon
<1>3. "CR" \in HttpLexemes
  BY Bytes, Zenon
<1>4. ~Returns(w) /\ Returns(Append(w, "CR"))
  BY <1>2, <1>3, ReturnedOrNot, Zenon
<1>5. P \in Seq(HttpLexemes) /\ b \in Seq(HttpLexemes)
  BY <1>1, Zenon DEF Joins, SizeLine
<1> QED
  BY <1>1, <1>2, <1>4, <1>5, Zenon DEF EndFrom

LEMMA ChunkReturns ==
    ASSUME NEW r, NEW l, NEW n, NEW d, AtChunkEnd(r, l, n, d), ~Returns(l)
    PROVE  AtChunkEnd(Append(r, "CR"), Append(l, "CR"), n, d)
<1>0. PICK P, D, b, w : EndFrom(P, D, b, w, r, l, n, d)
  BY EndParts, Zenon
<1>1. /\ Joins(P, D) /\ SizeLine(b, Len(w)) /\ Payload(w) /\ w # <<>> /\ n = 0
      /\ r = P \o Chunk(b, l) /\ d = D \o w
      /\ P \in Seq(HttpLexemes) /\ b \in Seq(HttpLexemes) /\ w \in Seq(HttpLexemes)
      /\ ~Returns(l) => l = w
      /\ Returns(l) => l = Append(w, "CR")
  BY <1>0, Zenon DEF EndFrom
<1>2. l = w
  BY <1>1, Zenon
<1>3. "CR" \in HttpLexemes
  BY Bytes, Zenon
<1>4. Append(r, "CR") = P \o Chunk(b, Append(w, "CR"))
  BY <1>1, <1>2, <1>3, ChunkGrows, Zenon
<1> QED
  BY <1>1, <1>2, <1>4, Zenon DEF AtChunkEnd

LEMMA ChunkEnds ==
    ASSUME NEW r, NEW l, NEW n, NEW d, AtChunkEnd(r, l, n, d), Returns(l)
    PROVE  n = 0 /\ AtSize(Append(r, "LF"), <<>>, 0, d)
<1>0. PICK P, D, b, w : EndFrom(P, D, b, w, r, l, n, d)
  BY EndParts, Zenon
<1>1. /\ Joins(P, D) /\ SizeLine(b, Len(w)) /\ Payload(w) /\ w # <<>> /\ n = 0
      /\ r = P \o Chunk(b, l) /\ d = D \o w
      /\ P \in Seq(HttpLexemes) /\ b \in Seq(HttpLexemes) /\ w \in Seq(HttpLexemes)
      /\ ~Returns(l) => l = w
      /\ Returns(l) => l = Append(w, "CR")
  BY <1>0, Zenon DEF EndFrom
<1>2. l = Append(w, "CR")
  BY <1>1, Zenon
<1>3. "CR" \in HttpLexemes /\ "LF" \in HttpLexemes
  BY Bytes, Zenon
<1>4. Ended(b) \in Seq(HttpLexemes) /\ Ended(w) \in Seq(HttpLexemes)
  BY <1>1, EndedType, Zenon
<1>5. Append(w, "CR") \in Seq(HttpLexemes)
  BY <1>1, <1>3, AppendIs, Zenon
<1>6. r = P \o (Ended(b) \o Append(w, "CR"))
  BY <1>1, <1>2, Zenon DEF Chunk
<1>7. P \o (Ended(b) \o Append(w, "CR")) = (P \o Ended(b)) \o Append(w, "CR")
  <2> DEFINE u == Append(w, "CR")
             e == Ended(b)
  <2>1. u \in Seq(HttpLexemes) /\ e \in Seq(HttpLexemes) /\ P \in Seq(HttpLexemes)
    BY <1>1, <1>4, <1>5
  <2> HIDE DEF u, e
  <2>2. (P \o e) \o u = P \o (e \o u)
    BY <2>1, AssociativeLexemes, Zenon
  <2> QED
    BY <2>2 DEF u, e
<1>8. P \o Ended(b) \in Seq(HttpLexemes)
  BY <1>1, <1>4, ConcatSizes, Zenon
<1>9. Append(r, "LF") = (P \o Ended(b)) \o Ended(w)
  <2> DEFINE Q == P \o Ended(b)
  <2>1. Q \in Seq(HttpLexemes) /\ w \in Seq(HttpLexemes) /\ r = Q \o Append(w, "CR")
    BY <1>1, <1>6, <1>7, <1>8
  <2> HIDE DEF Q
  <2>2. Append(r, "LF") = Q \o Ended(w)
    BY <2>1, LineClosed, Zenon
  <2> QED
    BY <2>2 DEF Q
<1>10. (P \o Ended(b)) \o Ended(w) = P \o (Ended(b) \o Ended(w))
  <2>1. P \in Seq(HttpLexemes) /\ Ended(b) \in Seq(HttpLexemes) /\ Ended(w) \in Seq(HttpLexemes)
    BY <1>1, <1>4, Zenon
  <2> QED
    BY <2>1, AssociativeLexemes
<1>11. Joins(P \o (Ended(b) \o Ended(w)), d)
  <2>1. Len(w) > 0
    <3>1. Len(w) \in Nat
      BY <1>1, PlainIs, Zenon
    <3>2. Len(w) # 0
      BY <1>1, EmptySeq
    <3> QED
      BY <3>1, <3>2
  <2> QED
    BY <1>1, <2>1, JoinsMore, Zenon
<1>12. Append(r, "LF") = (P \o (Ended(b) \o Ended(w))) \o <<>>
  <2>1. P \o (Ended(b) \o Ended(w)) \in Seq(HttpLexemes)
    BY <1>11, Zenon DEF Joins
  <2>2. (P \o (Ended(b) \o Ended(w))) \o <<>> = P \o (Ended(b) \o Ended(w))
    BY <2>1
  <2> QED
    BY <1>9, <1>10, <2>2, Zenon
<1>13. <<>> \in Seq(DOMAIN Hex) /\ 0 \in Nat /\ ChunkSize(<<>>) = 0
  BY ChunkSizeNone
<1> QED
  BY <1>1, <1>11, <1>12, <1>13, Zenon DEF AtSize

LEMMA FourLines ==
    /\ ~Returns(<<>>) /\ ~Returns(<<"x">>) /\ Returns(<<"CR">>) /\ Returns(<<"x", "CR">>)
    /\ Append(<<>>, "x") = <<"x">> /\ Append(<<>>, "CR") = <<"CR">> /\ Append(<<"x">>, "CR") = <<"x", "CR">>
    /\ <<>> # <<"CR">> /\ <<"x", "CR">> # <<"CR">>
<1>1. ~Returns(<<>>) /\ ~Returns(<<"x">>)
  BY DEF Returns, Last
<1>2. Returns(<<"CR">>)
  BY DEF Returns, Last
<1>3. Returns(<<"x", "CR">>)
  BY DEF Returns, Last
<1>4. Append(<<>>, "x") = <<"x">> /\ Append(<<>>, "CR") = <<"CR">>
  OBVIOUS
<1>5. Append(<<"x">>, "CR") = <<"x", "CR">>
  BY AppendTwo, Zenon
<1>6. <<>> # <<"CR">> /\ <<"x", "CR">> # <<"CR">>
  OBVIOUS
<1> QED
  BY <1>1, <1>2, <1>3, <1>4, <1>5, <1>6, Zenon

LEMMA TrailerGrows ==
    ASSUME NEW r, NEW l, NEW d, AtTrailer(r, l, d)
    PROVE  /\ l = <<>> => AtTrailer(Append(r, "x"), Append(l, "x"), d)
           /\ ~Returns(l) => AtTrailer(Append(r, "CR"), Append(l, "CR"), d)
<1>1. PICK P, b, T : /\ Joins(P, d) /\ SizeLine(b, 0) /\ Trails(T)
                     /\ l \in {<<>>, <<"x">>, <<"CR">>, <<"x", "CR">>}
                     /\ r = P \o Chunk(b, T \o l)
  BY Zenon DEF AtTrailer
<1>2. T \in Seq(HttpLexemes) /\ P \in Seq(HttpLexemes) /\ b \in Seq(HttpLexemes)
  BY <1>1, Zenon DEF Trails, Joins, SizeLine
<1>3. l \in Seq(HttpLexemes)
  BY <1>1, TrailerLines, Zenon
<1>4. ASSUME NEW c \in HttpLexemes PROVE Append(r, c) = P \o Chunk(b, T \o Append(l, c))
  <2>1. T \o l \in Seq(HttpLexemes) /\ Append(T \o l, c) = T \o Append(l, c)
    BY <1>2, <1>3, AppendOn, Zenon
  <2> DEFINE t == T \o l
  <2>2. t \in Seq(HttpLexemes) /\ r = P \o Chunk(b, t) /\ Append(t, c) = T \o Append(l, c)
    BY <1>1, <2>1
  <2> HIDE DEF t
  <2>3. Append(P \o Chunk(b, t), c) = P \o Chunk(b, Append(t, c))
    <3>1. P \in Seq(HttpLexemes) /\ b \in Seq(HttpLexemes) /\ t \in Seq(HttpLexemes) /\ c \in HttpLexemes
      BY <1>2, <2>2, Zenon
    <3> QED
      BY <3>1, ChunkGrows
  <2> QED
    BY <2>2, <2>3
<1>5. "CR" \in HttpLexemes /\ "x" \in HttpLexemes
  BY Bytes, Zenon
<1>6. ASSUME l = <<>> PROVE AtTrailer(Append(r, "x"), Append(l, "x"), d)
  <2>1. Append(l, "x") = <<"x">>
    BY <1>6, FourLines, Zenon
  <2>2. Append(l, "x") \in {<<>>, <<"x">>, <<"CR">>, <<"x", "CR">>}
    BY <2>1
  <2> QED
    BY <1>1, <1>4, <1>5, <2>2, Zenon DEF AtTrailer
<1>7. ASSUME ~Returns(l) PROVE AtTrailer(Append(r, "CR"), Append(l, "CR"), d)
  <2>1. l = <<>> \/ l = <<"x">>
    BY <1>1, <1>7, FourLines, Zenon
  <2>2. Append(l, "CR") = <<"CR">> \/ Append(l, "CR") = <<"x", "CR">>
    BY <2>1, FourLines, Zenon
  <2>3. Append(l, "CR") \in {<<>>, <<"x">>, <<"CR">>, <<"x", "CR">>}
    BY <2>2
  <2> QED
    BY <1>1, <1>4, <1>5, <2>3, Zenon DEF AtTrailer
<1> QED
  BY <1>6, <1>7

LEMMA EmptyEnded == Ended(<<>>) = CrLf /\ Chunk(<<>>, <<>>) = CrLf /\ Trailers[CrLf] = 2
<1>1. <<>> \in Seq(HttpLexemes) /\ Without(<<>>, "CR")
  BY WithoutOne
<1>2. <<>> \o CrLf = CrLf /\ CrLf \o <<>> = CrLf
  BY DEF CrLf
<1>3. Ended(<<>>) = CrLf /\ Chunk(<<>>, <<>>) = CrLf
  BY <1>2, Zenon DEF Ended, Chunk
<1>4. Trailers[Chunk(<<>>, <<>>)] = 2
  BY <1>1, TrailerLine, Zenon
<1> QED
  BY <1>3, <1>4, Zenon

LEMMA TrailerEnds ==
    ASSUME NEW r, NEW l, NEW d, AtTrailer(r, l, d), Returns(l)
    PROVE  /\ l = <<"CR">> => Complete(Append(r, "LF"), d)
           /\ l # <<"CR">> => AtTrailer(Append(r, "LF"), <<>>, d)
<1>1. PICK P, b, T : /\ Joins(P, d) /\ SizeLine(b, 0) /\ Trails(T)
                     /\ l \in {<<>>, <<"x">>, <<"CR">>, <<"x", "CR">>}
                     /\ r = P \o Chunk(b, T \o l)
  BY Zenon DEF AtTrailer
<1>2. T \in Seq(HttpLexemes) /\ P \in Seq(HttpLexemes) /\ b \in Seq(HttpLexemes)
  BY <1>1, Zenon DEF Trails, Joins, SizeLine
<1>3. l \in Seq(HttpLexemes)
  BY <1>1, TrailerLines, Zenon
<1>5. "CR" \in HttpLexemes /\ "LF" \in HttpLexemes /\ "x" \in HttpLexemes
  BY Bytes, Zenon
<1>4. Append(r, "LF") = P \o Chunk(b, Append(T \o l, "LF"))
  <2>1. T \o l \in Seq(HttpLexemes)
    BY <1>2, <1>3, AppendOn, <1>5, Zenon
  <2> DEFINE t == T \o l
  <2>2. t \in Seq(HttpLexemes) /\ r = P \o Chunk(b, t)
    BY <1>1, <2>1
  <2> HIDE DEF t
  <2>3. Append(P \o Chunk(b, t), "LF") = P \o Chunk(b, Append(t, "LF"))
    <3>1. /\ P \in Seq(HttpLexemes) /\ b \in Seq(HttpLexemes) /\ t \in Seq(HttpLexemes)
          /\ "LF" \in HttpLexemes
      BY <1>2, <1>5, <2>2, Zenon
    <3> QED
      BY <3>1, ChunkGrows
  <2>4. Append(r, "LF") = P \o Chunk(b, Append(t, "LF"))
    BY <2>2, <2>3
  <2> QED
    BY <2>4 DEF t
<1>6. l = <<"CR">> \/ l = <<"x", "CR">>
  BY <1>1, FourLines, Zenon
<1>7. ASSUME l = <<"CR">> PROVE Complete(Append(r, "LF"), d)
  <2>1. <<>> \in Seq(HttpLexemes) /\ l = Append(<<>>, "CR")
    BY <1>7, FourLines
  <2>2. Append(T \o l, "LF") = T \o Ended(<<>>)
    BY <1>2, <2>1, LineClosed, Zenon
  <2>3. CrLf \in Seq(HttpLexemes)
    BY <2>1, EndedType, EmptyEnded, Zenon
  <2>4. Append(T \o l, "LF") = T \o CrLf /\ T \o CrLf \in Seq(HttpLexemes)
    BY <1>2, <2>2, <2>3, EmptyEnded, ConcatSizes, Zenon
  <2>5. Trailers[T \o CrLf] = IF Trailers[CrLf] = 0 THEN 0 ELSE Len(T) + Trailers[CrLf]
    BY <1>1, <2>3, Zenon DEF Trails
  <2>6. Trailers[T \o CrLf] = Len(T) + 2 /\ Trailers[T \o CrLf] # 0
    BY <1>2, <2>5, EmptyEnded
  <2>7. ScanChunks[Chunk(b, T \o CrLf)] = Chunks("complete", <<>>, (Len(b) + 2) + Trailers[T \o CrLf])
    BY <1>1, <2>4, <2>6, ChunkLast, Zenon
  <2> DEFINE t == Chunk(b, T \o CrLf)
  <2>8. t \in Seq(HttpLexemes)
    BY <1>1, <2>4, ChunkBegins, Zenon
  <2>9. ScanChunks[t].state = "complete" /\ ScanChunks[t].data = <<>>
    BY <2>7 DEF Chunks
  <2> HIDE DEF t
  <2>10. ScanChunks[P \o t] = Join(ScanChunks[t], d, Len(P))
    BY <1>1, <2>8, Zenon DEF Joins
  <2>11. Join(ScanChunks[t], d, Len(P)).state = "complete" /\ Join(ScanChunks[t], d, Len(P)).data = d \o <<>>
    BY <2>9 DEF Join, Chunks
  <2>12. d \o <<>> = d
    <3>1. d \in Seq(HttpLexemes)
      BY <1>1, Zenon DEF Joins
    <3> QED
      BY <3>1
  <2>13. Append(r, "LF") = P \o t
    BY <1>4, <2>4, Zenon DEF t
  <2>14. P \o t \in Seq(HttpLexemes)
    BY <1>2, <2>8, ConcatSizes, Zenon
  <2> QED
    BY <2>10, <2>11, <2>12, <2>13, <2>14, Zenon DEF Complete
<1>8. ASSUME l # <<"CR">> PROVE AtTrailer(Append(r, "LF"), <<>>, d)
  <2>1. <<"x">> \in Seq(HttpLexemes) /\ l = Append(<<"x">>, "CR")
    <3>1. <<"x">> \in Seq(HttpLexemes)
      BY TrailerLines
    <3> QED
      BY <1>6, <1>8, <3>1, FourLines, Zenon
  <2>2. Append(T \o l, "LF") = T \o Ended(<<"x">>)
    BY <1>2, <2>1, LineClosed, Zenon
  <2>3. Trails(T \o Ended(<<"x">>))
    <3>1. Without(<<"x">>, "CR") /\ <<"x">> # <<>>
      BY WithoutOne
    <3> QED
      BY <1>1, <2>1, <3>1, TrailsMore, Zenon
  <2>4. (T \o Ended(<<"x">>)) \o <<>> = T \o Ended(<<"x">>)
    <3>1. T \o Ended(<<"x">>) \in Seq(HttpLexemes)
      BY <2>3, Zenon DEF Trails
    <3> QED
      BY <3>1
  <2>5. Append(r, "LF") = P \o Chunk(b, (T \o Ended(<<"x">>)) \o <<>>)
    BY <1>4, <2>2, <2>4, Zenon
  <2>6. <<>> \in {<<>>, <<"x">>, <<"CR">>, <<"x", "CR">>}
    OBVIOUS
  <2> QED
    BY <1>1, <2>3, <2>5, <2>6, Zenon DEF AtTrailer
<1> QED
  BY <1>7, <1>8

-----------------------------------------------------------------------------
(* What the account says of the text while a request breaks no rule: c is    *)
(* the text up to its last line, l that line, hd the account of the head.    *)

\* The head of a request that breaks no rule.
HeadState(hd) ==
    /\ hd \in [version : {"1.1", "1.0"}, bare : BOOLEAN, hosts : {0, 1}, length : Sizes,
               coding : {"none", "chunked"}, fields : Nat]
    /\ hd.fields <= MaxHeaders
    /\ hd.coding = "chunked" => hd.length = -1

NoGiant(l) == ~ (Len(l) > MaxHeaderLine)

AtFirst(l, hd) ==
    /\ Account(hd) = NoScan /\ hd.hosts = 0 /\ ~hd.bare
    /\ l = <<hd.version>> \/ (l = <<hd.version, "CR">> /\ NoGiant(l))

\* b is a header field, whose line has not ended; x is the scan before it and k
\* the number of hosts.
FieldBody(x, k, b, hd) ==
    /\ b \in Seq(HttpLexemes) /\ InLine(b) /\ Without(b, "CR") /\ b # <<>> /\ b[1] \in Fields
    /\ ~Refused(x, b[1]) /\ WithField(x, b[1]) = Account(hd)
    /\ b[1] \notin Plain2 => Len(b) = 1
    /\ IF b[1] = "Host" THEN k = 0 /\ hd.hosts = 1 ELSE hd.hosts = k

FieldLineIs(l, b, bare) ==
    \/ l = b /\ NoGiant(b)
    \/ l = Append(b, "CR") /\ ~bare /\ NoGiant(l)

FieldAt(c, l, hd, x, k, b) ==
    /\ x \in ScanStates /\ x.verdict = "ok"
    /\ ClosedOk(c, x, hd.bare, hd.version, k)
    /\ FieldBody(x, k, b, hd) /\ FieldLineIs(l, b, hd.bare)

AtField(c, l, hd) == \E x, k, b : FieldAt(c, l, hd, x, k, b)

HeadBreak(bare) == IF bare THEN <<"LF">> ELSE CrLf

AtFields(c, l, hd) ==
    /\ ClosedOk(c, Account(hd), hd.bare, hd.version, hd.hosts)
    /\ l = <<>> \/ (l = <<"CR">> /\ ~hd.bare)
    /\ \E h : Ready(h, hd) /\ c = h \o HeadBreak(hd.bare)

LEMMA AccountType ==
    ASSUME NEW hd, HeadState(hd)
    PROVE  /\ Account(hd) \in ScanStates /\ Account(hd).verdict = "ok" /\ Account(hd).count = hd.fields
           /\ Account(hd).length = hd.length /\ Account(hd).coding = hd.coding
           /\ hd.fields \in Nat /\ hd.version \in {"1.1", "1.0"} /\ hd.bare \in BOOLEAN /\ hd.hosts \in {0, 1}
           /\ hd.length \in Sizes /\ hd.coding \in {"none", "chunked"}
BY DEF HeadState, Account, ScanStates

\* A field that the scan takes, with or without the CR of its line's end.
LEMMA FieldRead ==
    ASSUME NEW x \in ScanStates, x.verdict = "ok", NEW k, NEW b, NEW hd, FieldBody(x, k, b, hd), NoGiant(b)
    PROVE  ScanLine(x, b) = Account(hd) /\ Account(hd) \in ScanStates /\ Account(hd).count = x.count + 1
<1>1. /\ b \in Seq(HttpLexemes) /\ b # <<>> /\ b[1] \in Fields
      /\ ~Refused(x, b[1]) /\ WithField(x, b[1]) = Account(hd)
      /\ b[1] \notin Plain2 => Len(b) = 1
  BY DEF FieldBody
<1> DEFINE f == b[1]
<1>2. f \in Fields /\ ~Refused(x, f) /\ WithField(x, f) = Account(hd)
  BY <1>1
<1>3. x.count # MaxHeaders
  BY <1>2 DEF Refused
<1>4. ScanLine(x, b) = Account(hd)
  <2>1. CASE f \in Plain2
    <3>1. Begins(b, <<f>>)
      <4>1. Len(b) \in Nat /\ Len(b) # 0
        BY <1>1
      <4> QED
        BY <4>1 DEF Begins
    <3>2. ~ (Len(b) > MaxHeaderLine)
      BY DEF NoGiant
    <3> HIDE DEF f
    <3>3. ScanLine(x, b) = [x EXCEPT !.count = @ + 1]
      BY <1>1, <1>3, <2>1, <3>1, <3>2, PlainLine, Zenon
    <3>4. f \notin DOMAIN LengthOf /\ f \notin Codings
      BY <2>1, LexemeKinds DEF Plain2, Codings
    <3>5. [x EXCEPT !.count = @ + 1] = WithField(x, f)
      BY <3>4 DEF WithField, ScanStates
    <3> QED
      BY <1>2, <3>3, <3>5
  <2>2. CASE f \notin Plain2
    <3>1. b = <<f>>
      BY <1>1, <2>2, OneLexeme
    <3> HIDE DEF f
    <3>2. ScanLine(x, <<f>>) = WithField(x, f)
      BY <1>2, GoodField, Zenon
    <3> QED
      BY <1>2, <3>1, <3>2, Zenon
  <2> QED
    BY <2>1, <2>2
<1>5. WithField(x, f) \in ScanStates
  BY <1>2, GoodField, Zenon
<1>6. WithField(x, f).count = x.count + 1
  BY DEF WithField
<1> QED
  BY <1>2, <1>4, <1>5, <1>6, Zenon

LEMMA FieldLines ==
    ASSUME NEW x, NEW k, NEW b, NEW hd, FieldBody(x, k, b, hd), NEW l, NEW bare, FieldLineIs(l, b, bare)
    PROVE  /\ l \in Seq(HttpLexemes) /\ InLine(l) /\ l # <<>> /\ l # <<"CR">> /\ NoGiant(l) /\ NoGiant(b)
           /\ l[1] = b[1] /\ l[1] \in Fields
           /\ ~Returns(l) => l = b
           /\ Returns(l) => l = Append(b, "CR") /\ l[Len(l)] = "CR" /\ ~bare
           /\ b[Len(b)] # "CR" /\ Len(b) \in Nat
<1>1. b \in Seq(HttpLexemes) /\ InLine(b) /\ Without(b, "CR") /\ b # <<>> /\ b[1] \in Fields
  BY DEF FieldBody
<1>2. "CR" \in HttpLexemes
  BY Bytes, Zenon
<1>3. ~Returns(b) /\ Returns(Append(b, "CR"))
  BY <1>1, <1>2, ReturnedOrNot, Zenon
<1>4. Len(b) \in Nat /\ Len(b) # 0
  BY <1>1
<1>5. b[Len(b)] # "CR" /\ b[1] # "CR"
  BY <1>1, <1>4 DEF Without
<1>6. CASE l = b /\ NoGiant(b)
  <2>1. b # <<"CR">>
    BY <1>5
  <2> QED
    BY <1>1, <1>3, <1>4, <1>5, <1>6, <2>1, Zenon
<1>7. CASE l = Append(b, "CR") /\ ~bare /\ NoGiant(l)
  <2>1. l \in Seq(HttpLexemes) /\ InLine(l)
    BY <1>1, <1>7, OpenLines, Zenon DEF InLine
  <2>2. Len(l) = Len(b) + 1 /\ (\A i \in 1 .. Len(b) : l[i] = b[i]) /\ l[Len(b) + 1] = "CR"
    <3>1. b \in Seq(HttpLexemes) /\ "CR" \in HttpLexemes
      BY <1>1, <1>2, Zenon
    <3>2. l = Append(b, "CR")
      BY <1>7
    <3> QED
      BY <3>1, <3>2, TextMore, Zenon
  <2>3. l[1] = b[1]
    BY <1>4, <2>2
  <2>4. l # <<>> /\ l # <<"CR">>
    BY <1>4, <1>5, <2>2, <2>3
  <2>5. NoGiant(b)
    <3>1. ~ (Len(b) + 1 > MaxHeaderLine)
      BY <1>7, <2>2 DEF NoGiant
    <3> QED
      BY <1>4, <3>1, HttpAssumption DEF NoGiant
  <2>6. l[Len(l)] = "CR"
    BY <2>2
  <2> QED
    BY <1>1, <1>3, <1>4, <1>5, <1>7, <2>1, <2>3, <2>4, <2>5, <2>6, Zenon
<1> QED
  BY <1>6, <1>7 DEF FieldLineIs

LEMMA FieldScans ==
    ASSUME NEW x \in ScanStates, x.verdict = "ok", NEW k, NEW b, NEW hd, FieldBody(x, k, b, hd),
           NEW l, NEW bare, FieldLineIs(l, b, bare)
    PROVE  ScanLine(x, l) = Account(hd) /\ Account(hd) \in ScanStates /\ Account(hd).count = x.count + 1
<1>1. NoGiant(b) /\ b \in Seq(HttpLexemes) /\ b[Len(b)] # "CR"
  <2>1. b \in Seq(HttpLexemes)
    BY DEF FieldBody
  <2>2. NoGiant(b)
    BY FieldLines
  <2>3. b[Len(b)] # "CR"
    BY FieldLines
  <2> QED
    BY <2>1, <2>2, <2>3
<1>2. ScanLine(x, b) = Account(hd) /\ Account(hd) \in ScanStates /\ Account(hd).count = x.count + 1
  BY <1>1, FieldRead, Zenon
<1>3. CASE l = b
  BY <1>2, <1>3
<1>4. CASE l = Append(b, "CR") /\ NoGiant(l)
  <2>1. Len(l) = Len(b) + 1
    <3>1. "CR" \in HttpLexemes
      BY Bytes, Zenon
    <3> QED
      BY <1>1, <1>4, <3>1, OneMore, Zenon
  <2>2. ~ (Len(b) + 1 > MaxHeaderLine)
    BY <1>4, <2>1 DEF NoGiant
  <2>3. ScanLine(x, Append(b, "CR")) = ScanLine(x, b)
    BY <1>1, <2>2, ReturnedLine, Zenon
  <2> QED
    BY <1>2, <1>4, <2>3, Zenon
<1> QED
  BY <1>2, <1>3, <1>4 DEF FieldLineIs

\* A line that ends, in the form the account remembers.
LEMMA BreakIs ==
    ASSUME NEW c \in Seq(HttpLexemes), NEW b \in Seq(HttpLexemes), NEW l, NEW bare \in BOOLEAN,
           IF bare THEN l = b ELSE l = Append(b, "CR")
    PROVE  (c \o l) \o <<"LF">> = (c \o b) \o HeadBreak(bare)
<1>1. "CR" \in HttpLexemes /\ "LF" \in HttpLexemes
  BY Bytes, Zenon
<1>2. CASE bare
  BY <1>2 DEF HeadBreak
<1>3. CASE ~bare
  <2>1. b \o <<"CR">> = Append(b, "CR") /\ b \o <<"CR">> \in Seq(HttpLexemes)
    BY <1>1, AppendIs, Zenon
  <2>2. c \o l \in Seq(HttpLexemes) /\ c \o b \in Seq(HttpLexemes)
    <3>1. l \in Seq(HttpLexemes)
      BY <1>3, <2>1
    <3> QED
      BY <3>1, ConcatSizes
  <2>3. (c \o l) \o <<"LF">> = Append(c \o l, "LF")
    BY <1>1, <2>2, AppendIs, Zenon
  <2>4. Append(c \o l, "LF") = c \o Ended(b)
    <3>1. c \o l = c \o Append(b, "CR")
      BY <1>3
    <3> QED
      BY <3>1, LineClosed, Zenon
  <2>5. c \o Ended(b) = (c \o b) \o CrLf
    <3>1. CrLf \in Seq(HttpLexemes)
      BY Patterns, Zenon
    <3>2. (c \o b) \o CrLf = c \o (b \o CrLf)
      BY <3>1, AssociativeLexemes, Zenon
    <3> QED
      BY <3>2, Zenon DEF Ended
  <2> QED
    BY <1>3, <2>3, <2>4, <2>5, Zenon DEF HeadBreak
<1> QED
  BY <1>2, <1>3

LEMMA FieldEnds ==
    ASSUME NEW c, NEW l, NEW hd, HeadState(hd), AtField(c, l, hd), Returns(l) <=> ~hd.bare
    PROVE  AtFields((c \o l) \o <<"LF">>, <<>>, hd)
<1>1. PICK x, k, b : FieldAt(c, l, hd, x, k, b)
  BY Zenon DEF AtField
<1>2. /\ x \in ScanStates /\ x.verdict = "ok"
      /\ ClosedOk(c, x, hd.bare, hd.version, k)
      /\ FieldBody(x, k, b, hd) /\ FieldLineIs(l, b, hd.bare)
  BY <1>1, Zenon DEF FieldAt
<1> DEFINE bare == hd.bare
           version == hd.version
           y == Account(hd)
           hosts == hd.hosts
<1>3. bare \in BOOLEAN /\ hosts \in {0, 1}
  BY AccountType
<1>4. /\ l \in Seq(HttpLexemes) /\ InLine(l) /\ l # <<>> /\ l # <<"CR">> /\ NoGiant(l) /\ NoGiant(b)
      /\ l[1] = b[1] /\ l[1] \in Fields
      /\ ~Returns(l) => l = b
      /\ Returns(l) => l = Append(b, "CR") /\ l[Len(l)] = "CR" /\ ~bare
      /\ b[Len(b)] # "CR" /\ Len(b) \in Nat
  BY <1>2, FieldLines, Zenon
<1>5. ScanLine(x, l) = y /\ y \in ScanStates /\ y.count = x.count + 1
  BY <1>2, FieldScans, Zenon
<1>6. ScanLine(x, b) = y
  BY <1>2, <1>4, FieldRead, Zenon
<1>7. b \in Seq(HttpLexemes) /\ InLine(b) /\ b # <<>> /\ b[1] \in Fields
      /\ IF b[1] = "Host" THEN k = 0 /\ hosts = 1 ELSE hosts = k
  BY <1>2, Zenon DEF FieldBody
<1>8. LineOk(l, bare)
  BY <1>4, Zenon DEF LineOk, NoGiant
<1>9. IF l[1] = "Host" THEN k = 0 /\ hosts = 1 ELSE hosts = k
  BY <1>4, <1>7, Zenon
<1>10. ClosedOk(c, x, bare, version, k)
  BY <1>2
<1>13. c \in Seq(HttpLexemes)
  BY <1>2, Zenon DEF ClosedOk
<1>14. IF bare THEN l = b ELSE l = Append(b, "CR")
  BY <1>3, <1>4, Zenon
<1>11. Ready(c \o b, hd)
  BY <1>2, <1>3, <1>4, <1>6, <1>7, ReadyMore, Zenon
<1> HIDE DEF bare, version, y, hosts
<1>12. ClosedOk((c \o l) \o <<"LF">>, y, bare, version, hosts)
  BY <1>2, <1>3, <1>4, <1>5, <1>8, <1>9, <1>10, OneClosed, Zenon
<1>15. (c \o l) \o <<"LF">> = (c \o b) \o HeadBreak(bare)
  BY <1>3, <1>7, <1>13, <1>14, BreakIs, Zenon
<1>16. \E h : Ready(h, hd) /\ (c \o l) \o <<"LF">> = h \o HeadBreak(hd.bare)
  BY <1>11, <1>15, Zenon DEF bare
<1> QED
  BY <1>12, <1>16, Zenon DEF AtFields, bare, version, y, hosts

LEMMA FirstEnds ==
    ASSUME NEW l, NEW hd, HeadState(hd), AtFirst(l, hd), MaxHeaderLine \in Nat \ {0},
           NEW after, HeadState(after), Account(after) = Account(hd), after.version = hd.version,
           after.hosts = hd.hosts, Returns(l) <=> ~after.bare, after.bare => after.version = "1.0"
    PROVE  AtFields(l \o <<"LF">>, <<>>, after)
<1> DEFINE v == hd.version
           bare == after.bare
<1>1. v \in {"1.1", "1.0"} /\ bare \in BOOLEAN
  BY AccountType
<1>2. l = <<v>> \/ (l = <<v, "CR">> /\ NoGiant(l))
  BY DEF AtFirst
<1>3. Account(after) = NoScan /\ after.hosts = 0 /\ after.version = v
  BY DEF AtFirst
<1>4. bare => v = "1.0"
  BY <1>3
<1>5. Ready(<<v>>, after)
  BY <1>1, <1>3, ReadyFirst, Zenon
<1> HIDE DEF v
<1>6. v \in HttpLexemes /\ v # "LF" /\ v # "CR"
  BY <1>1, LexemeKinds
<1>7. <<v>> \in Seq(HttpLexemes) /\ Without(<<v>>, "CR") /\ Without(<<v>>, "LF") /\ <<v>> # <<>>
      /\ <<v>>[Len(<<v>>)] # "CR" /\ Len(<<v>>) = 1
  BY <1>6 DEF Without
<1> DEFINE b == <<v>>
<1>8. <<v, "CR">> = Append(b, "CR")
  BY AppendTwo, Zenon
<1>9. b \in Seq(HttpLexemes) /\ Without(b, "CR") /\ Without(b, "LF") /\ b # <<>> /\ b[Len(b)] # "CR" /\ Len(b) = 1
  BY <1>7
<1>10. "CR" \in HttpLexemes
  BY Bytes, Zenon
<1>11. l = b \/ (l = Append(b, "CR") /\ NoGiant(l))
  BY <1>2, <1>8
<1>12. b # <<"CR">>
  BY <1>6
<1> HIDE DEF b
<1>13. ~Returns(b) /\ Returns(Append(b, "CR"))
  BY <1>9, <1>10, ReturnedOrNot, Zenon
<1>14. IF bare THEN l = b ELSE l = Append(b, "CR")
  BY <1>11, <1>13
<1>15. WithoutCR(b) = b /\ WithoutCR(Append(b, "CR")) = b
  BY <1>9, ReturnDropped, Zenon
<1>16. WithoutCR(l) = <<v>>
  <2>1. WithoutCR(l) = b
    BY <1>11, <1>15, Zenon
  <2> QED
    BY <2>1 DEF b
<1>17. LineOk(l, bare) /\ l \in Seq(HttpLexemes)
  <2>1. CASE l = b
    <3>1. bare
      BY <1>13, <1>14, <2>1
    <3>2. ~ (Len(l) > MaxHeaderLine)
      <4>1. Len(l) = 1
        BY <1>9, <2>1
      <4> HIDE DEF bare
      <4> QED
        BY <4>1
    <3> QED
      BY <1>9, <1>12, <2>1, <3>1, <3>2 DEF LineOk, InLine
  <2>2. CASE l = Append(b, "CR") /\ NoGiant(l)
    <3>1. l \in Seq(HttpLexemes) /\ Without(l, "LF")
      BY <1>9, <2>2, OpenLines, Zenon
    <3>2. Len(l) = Len(b) + 1 /\ l[Len(b) + 1] = "CR"
      <4>1. b \in Seq(HttpLexemes) /\ "CR" \in HttpLexemes /\ l = Append(b, "CR")
        BY <1>9, <1>10, <2>2, Zenon
      <4>2. Len(Append(b, "CR")) = Len(b) + 1 /\ Append(b, "CR")[Len(b) + 1] = "CR"
        BY <4>1, TextMore, Zenon
      <4> QED
        BY <4>1, <4>2, Zenon
    <3>3. Len(l) = 2 /\ l[Len(l)] = "CR"
      BY <1>9, <3>2
    <3>4. l # <<>> /\ l # <<"CR">>
      BY <3>3
    <3> QED
      BY <2>2, <3>1, <3>3, <3>4 DEF LineOk, InLine, NoGiant
  <2> QED
    BY <1>11, <2>1, <2>2
<1>18. ClosedOk(l \o <<"LF">>, NoScan, bare, v, 0)
  BY <1>1, <1>4, <1>16, <1>17, FirstClosed, Zenon
<1>19. l \o <<"LF">> = b \o HeadBreak(bare)
  <2>1. (<<>> \o l) \o <<"LF">> = (<<>> \o b) \o HeadBreak(bare)
    <3>1. <<>> \in Seq(HttpLexemes)
      OBVIOUS
    <3> QED
      BY <1>1, <1>9, <1>14, <3>1, BreakIs, Zenon
  <2>2. <<>> \o l = l /\ <<>> \o b = b
    BY <1>9, <1>17
  <2> QED
    BY <2>1, <2>2
<1>20. \E h : Ready(h, after) /\ l \o <<"LF">> = h \o HeadBreak(after.bare)
  BY <1>5, <1>19, Zenon DEF b, v
<1>21. ClosedOk(l \o <<"LF">>, Account(after), after.bare, after.version, after.hosts)
  BY <1>3, <1>18, Zenon DEF v
<1> QED
  BY <1>20, <1>21, Zenon DEF AtFields

LEMMA FieldStarts ==
    ASSUME NEW c, NEW hd, HeadState(hd), AtFields(c, <<>>, hd), NEW f \in Fields, ~Refused(Account(hd), f),
           ~ (f = "Host" /\ hd.hosts = 1), MaxHeaderLine \in Nat \ {0},
           NEW after, HeadState(after), after.bare = hd.bare, after.version = hd.version,
           Account(after) = WithField(Account(hd), f), after.hosts = (IF f = "Host" THEN hd.hosts + 1 ELSE hd.hosts)
    PROVE  AtField(c, <<f>>, after)
<1>1. f \in HttpLexemes /\ f # "LF" /\ f # "CR"
  BY LexemeKinds
<1>2. <<f>> \in Seq(HttpLexemes) /\ Without(<<f>>, "CR") /\ Without(<<f>>, "LF") /\ <<f>> # <<>>
      /\ <<f>>[1] = f /\ Len(<<f>>) = 1
  BY <1>1 DEF Without
<1>3. NoGiant(<<f>>)
  BY <1>2 DEF NoGiant
<1>4. IF f = "Host" THEN hd.hosts = 0 /\ after.hosts = 1 ELSE after.hosts = hd.hosts
  <2>1. hd.hosts \in {0, 1}
    BY AccountType
  <2> QED
    BY <2>1
<1>5. FieldBody(Account(hd), hd.hosts, <<f>>, after)
  BY <1>2, <1>4 DEF FieldBody, InLine
<1>6. FieldLineIs(<<f>>, <<f>>, after.bare)
  BY <1>3 DEF FieldLineIs
<1>7. Account(hd) \in ScanStates /\ Account(hd).verdict = "ok"
  BY AccountType
<1>8. ClosedOk(c, Account(hd), after.bare, after.version, hd.hosts)
  BY DEF AtFields
<1>9. FieldAt(c, <<f>>, after, Account(hd), hd.hosts, <<f>>)
  BY <1>5, <1>6, <1>7, <1>8, Zenon DEF FieldAt
<1> QED
  BY <1>9, Zenon DEF AtField

LEMMA FieldGrows ==
    ASSUME NEW c, NEW l, NEW hd, AtField(c, l, hd), ~Returns(l), l[1] \in Plain2, Len(l) # MaxHeaderLine
    PROVE  AtField(c, Append(l, "x"), hd)
<1>1. PICK x, k, b : FieldAt(c, l, hd, x, k, b)
  BY Zenon DEF AtField
<1>2. /\ x \in ScanStates /\ x.verdict = "ok"
      /\ ClosedOk(c, x, hd.bare, hd.version, k)
      /\ FieldBody(x, k, b, hd) /\ FieldLineIs(l, b, hd.bare)
  BY <1>1, Zenon DEF FieldAt
<1>3. l = b /\ NoGiant(b)
  BY <1>2, FieldLines
<1>4. b \in Seq(HttpLexemes) /\ InLine(b) /\ Without(b, "CR") /\ b # <<>> /\ b[1] \in Fields
      /\ ~Refused(x, b[1]) /\ WithField(x, b[1]) = Account(hd)
      /\ IF b[1] = "Host" THEN k = 0 /\ hd.hosts = 1 ELSE hd.hosts = k
  BY <1>2 DEF FieldBody
<1>5. "x" \in HttpLexemes /\ "x" # "LF" /\ "x" # "CR"
  BY Bytes
<1> DEFINE w == Append(b, "x")
<1>6. w = b \o <<"x">> /\ w \in Seq(HttpLexemes) /\ <<"x">> \in Seq(HttpLexemes) /\ w # <<>>
  <2>1. b \in Seq(HttpLexemes) /\ "x" \in HttpLexemes
    BY <1>4, <1>5, Zenon
  <2> QED
    BY <2>1, AppendIs, Zenon
<1>7. Len(b) \in Nat /\ Len(w) = Len(b) + 1 /\ (\A i \in 1 .. Len(b) : w[i] = b[i])
  <2>1. b \in Seq(HttpLexemes) /\ "x" \in HttpLexemes
    BY <1>4, <1>5, Zenon
  <2> QED
    BY <2>1, TextMore, Zenon
<1>8. w[1] = b[1]
  BY <1>4, <1>7
<1>9. Without(<<"x">>, "LF") /\ Without(<<"x">>, "CR")
  BY WithoutOne
<1>10. Without(w, "LF") /\ Without(w, "CR")
  BY <1>4, <1>6, <1>9, WithoutConcat, Zenon DEF InLine
<1>11. NoGiant(w)
  BY <1>3, <1>7, HttpAssumption DEF NoGiant
<1>12. FieldBody(x, k, w, hd)
  <2>1. w[1] \in Plain2
    BY <1>3, <1>8
  <2> HIDE DEF w
  <2> QED
    BY <1>4, <1>6, <1>8, <1>10, <2>1 DEF FieldBody, InLine
<1>13. FieldLineIs(w, w, hd.bare)
  BY <1>11, Zenon DEF FieldLineIs
<1>14. FieldAt(c, w, hd, x, k, w)
  BY <1>2, <1>12, <1>13, Zenon DEF FieldAt
<1> QED
  BY <1>3, <1>14, Zenon DEF AtField

LEMMA FieldReturns ==
    ASSUME NEW c, NEW l, NEW hd, AtField(c, l, hd), ~Returns(l), ~hd.bare, Len(l) # MaxHeaderLine
    PROVE  AtField(c, Append(l, "CR"), hd)
<1>1. PICK x, k, b : FieldAt(c, l, hd, x, k, b)
  BY Zenon DEF AtField
<1>2. /\ x \in ScanStates /\ x.verdict = "ok"
      /\ ClosedOk(c, x, hd.bare, hd.version, k)
      /\ FieldBody(x, k, b, hd) /\ FieldLineIs(l, b, hd.bare)
  BY <1>1, Zenon DEF FieldAt
<1>3. l = b /\ NoGiant(b)
  BY <1>2, FieldLines
<1>4. b \in Seq(HttpLexemes)
  BY <1>2 DEF FieldBody
<1>5. "CR" \in HttpLexemes
  BY Bytes, Zenon
<1>6. Len(Append(b, "CR")) = Len(b) + 1 /\ Len(b) \in Nat
  BY <1>4, <1>5, OneMore, Zenon
<1>7. NoGiant(Append(b, "CR"))
  BY <1>3, <1>6, HttpAssumption DEF NoGiant
<1>8. FieldLineIs(Append(b, "CR"), b, hd.bare)
  BY <1>7, Zenon DEF FieldLineIs
<1>9. FieldAt(c, Append(b, "CR"), hd, x, k, b)
  BY <1>2, <1>8, Zenon DEF FieldAt
<1> QED
  BY <1>3, <1>9, Zenon DEF AtField

\* The request line, before and after its CR.
LEMMA FirstLines ==
    ASSUME NEW hd, HeadState(hd)
    PROVE  /\ <<hd.version>> \in Seq(HttpLexemes) /\ Len(<<hd.version>>) = 1 /\ InLine(<<hd.version>>)
           /\ Append(<<hd.version>>, "CR") = <<hd.version, "CR">>
           /\ Append(<<hd.version>>, "CR") \in Seq(HttpLexemes) /\ Len(Append(<<hd.version>>, "CR")) = 2
           /\ InLine(Append(<<hd.version>>, "CR"))
           /\ ~Returns(<<hd.version>>) /\ Returns(Append(<<hd.version>>, "CR"))
           /\ <<hd.version>>[1] = hd.version /\ <<hd.version, "CR">>[1] = hd.version
<1> DEFINE v == hd.version
<1>1. v \in {"1.1", "1.0"}
  BY AccountType
<1> HIDE DEF v
<1>2. v \in HttpLexemes /\ v # "LF" /\ v # "CR"
  BY <1>1, LexemeKinds
<1> DEFINE b == <<v>>
<1>3. b \in Seq(HttpLexemes) /\ Len(b) = 1 /\ Without(b, "LF") /\ Without(b, "CR") /\ b[1] = v
  BY <1>2 DEF Without
<1>4. <<v, "CR">>[1] = v
  OBVIOUS
<1> HIDE DEF b
<1>5. "CR" \in HttpLexemes
  BY Bytes, Zenon
<1> DEFINE w == Append(b, "CR")
<1>9. w = <<v, "CR">>
  BY AppendTwo, Zenon DEF b
<1>6. w \in Seq(HttpLexemes) /\ Len(w) = 2 /\ w[1] = v /\ w[2] = "CR"
  <2>1. <<v, "CR">> \in Seq(HttpLexemes) /\ Len(<<v, "CR">>) = 2 /\ <<v, "CR">>[1] = v /\ <<v, "CR">>[2] = "CR"
    BY <1>2, <1>5
  <2> QED
    BY <1>9, <2>1, Zenon
<1>7. Without(w, "LF")
  BY <1>3, OpenLines, Zenon
<1>8. ~Returns(b) /\ Returns(w)
  BY <1>3, <1>5, ReturnedOrNot, Zenon
<1> QED
  BY <1>3, <1>4, <1>6, <1>7, <1>8, <1>9, Zenon DEF InLine, w, b, v

LEMMA FirstReturns ==
    ASSUME NEW l, NEW hd, HeadState(hd), AtFirst(l, hd), ~Returns(l), Len(l) # MaxHeaderLine,
           MaxHeaderLine \in Nat \ {0}
    PROVE  AtFirst(Append(l, "CR"), hd)
<1>1. l = <<hd.version>>
  <2>1. Append(<<hd.version>>, "CR") = <<hd.version, "CR">> /\ Returns(Append(<<hd.version>>, "CR"))
    BY FirstLines, Zenon
  <2>2. l # <<hd.version, "CR">>
    BY <2>1, Zenon
  <2> QED
    BY <2>2, Zenon DEF AtFirst
<1>2. Append(l, "CR") = <<hd.version, "CR">> /\ Len(Append(l, "CR")) = 2 /\ Len(l) = 1
  BY <1>1, FirstLines, Zenon
<1>3. NoGiant(Append(l, "CR"))
  BY <1>2 DEF NoGiant
<1> QED
  BY <1>2, <1>3, Zenon DEF AtFirst

\* While the head is on its way nothing is decided.
LEMMA Quiet ==
    ASSUME NEW c \in Seq(HttpLexemes), NEW l \in Seq(HttpLexemes), Closed(c), InLine(l), NoGiant(l),
           NoneBlank(c), \A p \in Ends(c) : NoGiant(LineUpTo(c, p)),
           ~ (Cardinality(Ends(c)) > MaxHeaders + 1)
    PROVE  Inspect(c \o l).framing = "incomplete" /\ NoneBlank(c \o l)
<1> DEFINE t == c \o l
           u == t \o <<"LF">>
<1>1. OneLineMore(c, l, t, u)
  BY LinesGrow, Zenon
<1> HIDE DEF t, u
<1>2. /\ t \in Seq(HttpLexemes)
      /\ Ends(t) = Ends(c) /\ Ends(u) = Ends(c) \cup {Len(t) + 1} /\ LineEnds(t) = Ends(u)
      /\ \A p \in Ends(c) : LineUpTo(t, p) = LineUpTo(c, p)
      /\ LineUpTo(t, Len(t) + 1) = l
  BY <1>1 DEF OneLineMore
<1>3. NoneBlank(t)
  BY <1>2, Zenon DEF NoneBlank
<1>4. \A p \in LineEnds(t) : ~ (Len(LineUpTo(t, p)) > MaxHeaderLine)
  <2>1. \A p \in LineEnds(t) : NoGiant(LineUpTo(t, p))
    BY <1>2
  <2> QED
    BY <2>1 DEF NoGiant
<1>5. ~ (Cardinality(Ends(t)) > MaxHeaders + 1)
  BY <1>2
<1>6. Inspect(t).framing = "incomplete"
  BY <1>2, <1>3, <1>4, <1>5, PartialHead, Zenon
<1> QED
  BY <1>3, <1>6 DEF t

LEMMA QuietClosed ==
    ASSUME NEW c, NEW x \in ScanStates, NEW bare, NEW version, NEW k, ClosedOk(c, x, bare, version, k),
           ~ (x.count > MaxHeaders), NEW l \in Seq(HttpLexemes), InLine(l), NoGiant(l)
    PROVE  Inspect(c \o l).framing = "incomplete" /\ NoneBlank(c \o l) /\ c \in Seq(HttpLexemes)
<1>1. /\ c \in Seq(HttpLexemes) /\ Closed(c) /\ NoneBlank(c)
      /\ \A p \in Ends(c) : ~ (Len(LineUpTo(c, p)) > MaxHeaderLine)
      /\ IsFiniteSet(Ends(c)) /\ Cardinality(Ends(c)) <= x.count + 1
  BY DEF ClosedOk
<1>2. \A p \in Ends(c) : NoGiant(LineUpTo(c, p))
  BY <1>1 DEF NoGiant
<1>3. ~ (Cardinality(Ends(c)) > MaxHeaders + 1)
  <2>1. Cardinality(Ends(c)) \in Nat
    BY <1>1, FS_CardinalityType
  <2>2. x.count \in Nat
    BY DEF ScanStates
  <2> DEFINE n == Cardinality(Ends(c))
             m == x.count
  <2>3. n \in Nat /\ m \in Nat /\ n <= m + 1 /\ ~ (m > MaxHeaders)
    BY <1>1, <2>1, <2>2
  <2> HIDE DEF n, m
  <2>4. ~ (n > MaxHeaders + 1)
    BY <2>3, HttpAssumption
  <2> QED
    BY <2>4 DEF n
<1> QED
  BY <1>1, <1>2, <1>3, Quiet, Zenon

LEMMA BareHeadEnds ==
    ASSUME NEW c, NEW hd, HeadState(hd), AtFields(c, <<>>, hd), hd.bare, Len(c) + 1 < Npos
    PROVE  \E h : FineHead(Append(c, "LF"), h, 2, hd) /\ After(Append(c, "LF"), Len(h) + 2) = <<>>
<1>1. PICK h : Ready(h, hd) /\ c = h \o HeadBreak(hd.bare)
  BY Zenon DEF AtFields
<1>2. h \in Seq(HttpLexemes)
  BY <1>1 DEF Ready
<1>3. "LF" \in HttpLexemes
  BY Bytes, Zenon
<1>4. c = Append(h, "LF") /\ c \in Seq(HttpLexemes)
  BY <1>1, <1>2, <1>3, AppendIs DEF HeadBreak
<1>5. NoneBlank(c) /\ hd.version = "1.0"
  BY DEF AtFields, ClosedOk
<1> DEFINE n == Len(h)
           s == Append(c, "LF")
<1>6. n \in Nat /\ Len(c) = n + 1 /\ c[n + 1] = "LF" /\ (\A i \in 1 .. n : c[i] = h[i])
  BY <1>2, <1>3, <1>4, OneMore
<1>7. s \in Seq(HttpLexemes) /\ Len(s) = n + 2 /\ (\A i \in 1 .. n : s[i] = h[i])
  <2>1. s \in Seq(HttpLexemes) /\ Len(s) = Len(c) + 1 /\ (\A i \in 1 .. Len(c) : s[i] = c[i])
    BY <1>3, <1>4, TextMore, Zenon
  <2> HIDE DEF s, n
  <2> QED
    BY <1>6, <2>1
<1>8. HeadBounds(s) = [end |-> n, separator |-> 2]
  <2>1. c # <<>> /\ c[Len(c)] = "LF"
    BY <1>4, <1>6
  <2>2. HeadBounds(Append(c, "LF")) = [end |-> Len(c) - 1, separator |-> 2]
    BY <1>4, <1>5, <2>1, BareEnd
  <2>3. Len(c) - 1 = n
    BY <1>6
  <2> QED
    BY <2>2, <2>3
<1> HIDE DEF s
<1>9. SubSeq(s, 1, n) = h /\ After(s, n + 2) = <<>>
  BY <1>2, <1>6, <1>7 DEF After
<1>10. Len(h) # Npos
  BY <1>6, HttpAssumption
<1>11. Len(h) + 2 <= Len(s)
  BY <1>6, <1>7
<1>12. hd.version \in {"1.1", "1.0"} /\ (hd.version = "1.1" => 2 = 4 /\ hd.hosts # 0) /\ 2 \in {2, 4}
  BY <1>5
<1>13. FineHead(s, h, 2, hd)
  BY <1>1, <1>7, <1>8, <1>9, <1>10, <1>11, <1>12, FineMade, Zenon
<1> QED
  BY <1>9, <1>13, Zenon DEF s

LEMMA FullHeadEnds ==
    ASSUME NEW c, NEW hd, HeadState(hd), AtFields(c, <<"CR">>, hd), ~hd.bare,
           hd.version = "1.1" => hd.hosts # 0, Len(c \o <<"CR">>) + 1 < Npos
    PROVE  \E h : /\ FineHead(Append(c \o <<"CR">>, "LF"), h, 4, hd)
                  /\ After(Append(c \o <<"CR">>, "LF"), Len(h) + 4) = <<>>
<1>1. PICK h : Ready(h, hd) /\ c = h \o HeadBreak(hd.bare)
  BY Zenon DEF AtFields
<1>2. h \in Seq(HttpLexemes)
  BY <1>1 DEF Ready
<1>3. "LF" \in HttpLexemes /\ "CR" \in HttpLexemes /\ <<"CR">> \in Seq(HttpLexemes) /\ CrLf \in Seq(HttpLexemes)
  <2>1. "LF" \in HttpLexemes /\ "CR" \in HttpLexemes
    BY Bytes, Zenon
  <2>2. CrLf \in Seq(HttpLexemes)
    BY Patterns, Zenon
  <2>3. <<"CR">> \in Seq(HttpLexemes)
    BY TrailerLines
  <2> QED
    BY <2>1, <2>2, <2>3
<1>4. c = h \o CrLf /\ c \in Seq(HttpLexemes)
  BY <1>1, <1>2, <1>3 DEF HeadBreak
<1> DEFINE n == Len(h)
           t == c \o <<"CR">>
           s == Append(t, "LF")
<1>5. n \in Nat /\ Len(c) = n + 2 /\ c[n + 1] = "CR" /\ c[n + 2] = "LF" /\ (\A i \in 1 .. n : c[i] = h[i])
  BY <1>2, <1>3, <1>4 DEF CrLf
<1>6. t \in Seq(HttpLexemes) /\ Len(t) = n + 3 /\ t[n + 1] = "CR" /\ t[n + 2] = "LF" /\ t[n + 3] = "CR"
      /\ (\A i \in 1 .. n : t[i] = h[i])
  <2>1. t \in Seq(HttpLexemes) /\ Len(t) = Len(c) + 1 /\ (\A i \in 1 .. Len(c) : t[i] = c[i])
        /\ t[Len(c) + 1] = "CR"
    <3>1. c \in Seq(HttpLexemes) /\ "CR" \in HttpLexemes
      BY <1>3, <1>4, Zenon
    <3>2. t = Append(c, "CR")
      BY <3>1, AppendIs, Zenon
    <3> HIDE DEF t
    <3> QED
      BY <3>1, <3>2, TextMore, Zenon
  <2> HIDE DEF t, n
  <2> QED
    BY <1>5, <2>1
<1>7. NoneBlank(t)
  <2>1. InLine(<<"CR">>)
    BY WithoutOne DEF InLine
  <2>2. NoneBlank(c) /\ Closed(c)
    BY DEF AtFields, ClosedOk
  <2>3. OneLineMore(c, <<"CR">>, t, t \o <<"LF">>)
    BY <1>3, <1>4, <2>1, <2>2, LinesGrow
  <2>4. Ends(t) = Ends(c) /\ \A p \in Ends(c) : LineUpTo(t, p) = LineUpTo(c, p)
    BY <2>3, Zenon DEF OneLineMore
  <2> QED
    BY <2>2, <2>4, Zenon DEF NoneBlank
<1>14. Len(t) + 1 < Npos
  OBVIOUS
<1> HIDE DEF t
<1> DEFINE m == n + 3
<1>8. s \in Seq(HttpLexemes) /\ Len(s) = n + 4 /\ (\A i \in 1 .. n : s[i] = h[i])
  <2>1. s \in Seq(HttpLexemes) /\ Len(s) = Len(t) + 1 /\ (\A i \in 1 .. Len(t) : s[i] = t[i])
    BY <1>3, <1>6, TextMore, Zenon
  <2> HIDE DEF s, n
  <2> QED
    BY <1>5, <1>6, <2>1
<1>9. HeadBounds(s) = [end |-> n, separator |-> 4]
  <2>1. m = Len(t) /\ m > 2 /\ t[m] = "CR" /\ t[m - 1] = "LF" /\ t[m - 2] = "CR"
    <3>1. m - 1 = n + 2 /\ m - 2 = n + 1 /\ m = n + 3 /\ m > 2
      BY <1>5
    <3> HIDE DEF m
    <3> QED
      BY <1>6, <3>1
  <2>2. m - 3 = n
    BY <1>5
  <2> HIDE DEF m
  <2>3. HeadBounds(Append(t, "LF")) = [end |-> m - 3, separator |-> 4]
    BY <1>6, <1>7, <2>1, FullEnd
  <2> QED
    BY <2>2, <2>3
<1> HIDE DEF s
<1>10. SubSeq(s, 1, n) = h /\ After(s, n + 4) = <<>>
  BY <1>2, <1>5, <1>8 DEF After
<1>11. Len(h) # Npos
  BY <1>5, <1>6, <1>14, HttpAssumption
<1>12. Len(h) + 4 <= Len(s)
  BY <1>5, <1>8
<1>13. hd.version \in {"1.1", "1.0"} /\ (hd.version = "1.1" => 4 = 4 /\ hd.hosts # 0) /\ 4 \in {2, 4}
  BY AccountType
<1>15. FineHead(s, h, 4, hd)
  BY <1>1, <1>8, <1>9, <1>10, <1>11, <1>12, <1>13, FineMade, Zenon
<1> QED
  BY <1>10, <1>15, Zenon DEF s, t

-----------------------------------------------------------------------------
(* The whole request: s is the text, p the phase, n what is left of the body  *)
(* or of a chunk, d the body so far.                                         *)

SizedAt(rest, p, n, d, need) ==
    /\ d \in Seq(HttpLexemes)
    /\ \/ p = "body" /\ rest = d /\ n \in Nat /\ n > 0 /\ Len(d) + n = need
       \/ p \in {"done", "over"} /\ Len(d) = need /\ \E e \in Seq(HttpLexemes) : rest = d \o e

ChunkedAt(rest, p, l, n, d) ==
    \/ p = "size" /\ AtSize(rest, l, n, d)
    \/ p = "extension" /\ AtExtension(rest, l, n, d)
    \/ p = "data" /\ AtData(rest, l, n, d)
    \/ p = "chunk end" /\ AtChunkEnd(rest, l, n, d)
    \/ p = "trailer" /\ AtTrailer(rest, l, d)
    \/ p \in {"done", "over"} /\ Complete(rest, d)

RestAt(rest, p, hd, l, n, d) ==
    \/ hd.coding = "none" /\ SizedAt(rest, p, n, d, Needed(hd))
    \/ hd.coding = "chunked" /\ ChunkedAt(rest, p, l, n, d)

BodyAt(s, p, hd, l, n, d) ==
    \E h, sep : FineHead(s, h, sep, hd) /\ RestAt(After(s, Len(h) + sep), p, hd, l, n, d)

HeadAt(s, p, hd, l) ==
    \/ p = "start" /\ s = <<>> /\ l = <<>> /\ Account(hd) = NoScan /\ hd.hosts = 0 /\ ~hd.bare
    \/ p = "line" /\ s = l /\ AtFirst(l, hd)
    \/ p = "line" /\ \E c : s = c \o l /\ AtField(c, l, hd)
    \/ p = "fields" /\ \E c : s = c \o l /\ AtFields(c, l, hd)

Good(s, p, hd, l, n, d) ==
    /\ HeadState(hd) /\ s \in Seq(HttpLexemes) /\ Len(s) < Npos
    /\ (HeadAt(s, p, hd, l) /\ d = <<>>) \/ BodyAt(s, p, hd, l, n, d)

Open(s) == s \in Seq(HttpLexemes) /\ Inspect(s).framing = "incomplete"

LEMMA NothingClosed ==
    ASSUME NEW l \in Seq(HttpLexemes), InLine(l), NoGiant(l)
    PROVE  Open(l)
<1>1. <<>> \in Seq(HttpLexemes) /\ Closed(<<>>) /\ Ends(<<>>) = {}
  BY DEF Closed, Ends
<1>2. NoneBlank(<<>>) /\ \A p \in Ends(<<>>) : NoGiant(LineUpTo(<<>>, p))
  BY <1>1 DEF NoneBlank
<1>3. ~ (Cardinality(Ends(<<>>)) > MaxHeaders + 1)
  <2> DEFINE m == Cardinality(Ends(<<>>))
  <2>1. m = 0
    BY <1>1, FS_EmptySet, Zenon
  <2> HIDE DEF m
  <2>2. ~ (m > MaxHeaders + 1)
    BY <2>1, HttpAssumption
  <2> QED
    BY <2>2 DEF m
<1>4. Inspect(<<>> \o l).framing = "incomplete"
  BY <1>1, <1>2, <1>3, Quiet
<1>5. <<>> \o l = l
  OBVIOUS
<1> QED
  BY <1>4, <1>5 DEF Open

LEMMA HeadOpen ==
    ASSUME NEW s, NEW p, NEW hd, NEW l, HeadState(hd), HeadAt(s, p, hd, l), MaxHeaderLine \in Nat \ {0}
    PROVE  Open(s) /\ p \in {"start", "line", "fields"}
<1>1. CASE p = "start" /\ s = <<>>
  <2>1. <<>> \in Seq(HttpLexemes) /\ InLine(<<>>) /\ NoGiant(<<>>)
    BY DEF InLine, Without, NoGiant
  <2> QED
    BY <1>1, <2>1, NothingClosed
<1>2. CASE p = "line" /\ s = l /\ AtFirst(l, hd)
  <2>1. CASE l = <<hd.version>>
    <3>1. NoGiant(<<hd.version>>)
      BY FirstLines DEF NoGiant
    <3>2. <<hd.version>> \in Seq(HttpLexemes) /\ InLine(<<hd.version>>)
      BY FirstLines, Zenon
    <3>3. l \in Seq(HttpLexemes) /\ InLine(l) /\ NoGiant(l)
      BY <2>1, <3>1, <3>2, Zenon
    <3> QED
      BY <1>2, <3>3, NothingClosed
  <2>2. CASE l = <<hd.version, "CR">> /\ NoGiant(l)
    <3>1. <<hd.version, "CR">> \in Seq(HttpLexemes) /\ InLine(<<hd.version, "CR">>)
      <4>1. Append(<<hd.version>>, "CR") = <<hd.version, "CR">> /\ Append(<<hd.version>>, "CR") \in Seq(HttpLexemes)
            /\ InLine(Append(<<hd.version>>, "CR"))
        BY FirstLines, Zenon
      <4> QED
        BY <4>1, Zenon
    <3>2. l \in Seq(HttpLexemes) /\ InLine(l) /\ NoGiant(l)
      BY <2>2, <3>1, Zenon
    <3> QED
      BY <1>2, <3>2, NothingClosed
  <2> QED
    BY <1>2, <2>1, <2>2 DEF AtFirst
<1>3. CASE p = "line" /\ \E c : s = c \o l /\ AtField(c, l, hd)
  <2>1. PICK c : s = c \o l /\ AtField(c, l, hd)
    BY <1>3
  <2>2. PICK x, k, b : FieldAt(c, l, hd, x, k, b)
    BY <2>1, Zenon DEF AtField
  <2>3. x \in ScanStates /\ x.verdict = "ok" /\ ClosedOk(c, x, hd.bare, hd.version, k)
        /\ FieldBody(x, k, b, hd) /\ FieldLineIs(l, b, hd.bare)
    BY <2>2, Zenon DEF FieldAt
  <2>4. l \in Seq(HttpLexemes) /\ InLine(l) /\ NoGiant(l)
    BY <2>3, FieldLines, Zenon
  <2>5. Account(hd).count = x.count + 1
    BY <2>3, FieldScans, Zenon
  <2>6. ~ (x.count > MaxHeaders)
    <3>1. Account(hd).count = hd.fields /\ hd.fields \in Nat /\ hd.fields <= MaxHeaders
      BY AccountType DEF HeadState
    <3>2. x.count \in Nat
      BY <2>3 DEF ScanStates
    <3> DEFINE m == x.count
               e == hd.fields
    <3>3. m \in Nat /\ e \in Nat /\ e = m + 1 /\ e <= MaxHeaders
      BY <2>5, <3>1, <3>2
    <3> HIDE DEF m, e
    <3>4. ~ (m > MaxHeaders)
      BY <3>3, HttpAssumption
    <3> QED
      BY <3>4 DEF m
  <2>7. Inspect(c \o l).framing = "incomplete" /\ c \in Seq(HttpLexemes)
    BY <2>3, <2>4, <2>6, QuietClosed
  <2>8. c \o l \in Seq(HttpLexemes)
    BY <2>4, <2>7, ConcatSizes
  <2> QED
    BY <1>3, <2>1, <2>7, <2>8 DEF Open
<1>4. CASE p = "fields" /\ \E c : s = c \o l /\ AtFields(c, l, hd)
  <2>1. PICK c : s = c \o l /\ AtFields(c, l, hd)
    BY <1>4
  <2>2. ClosedOk(c, Account(hd), hd.bare, hd.version, hd.hosts) /\ (l = <<>> \/ l = <<"CR">>)
    BY <2>1 DEF AtFields
  <2>3. l \in Seq(HttpLexemes) /\ Without(l, "LF")
    BY <2>2, TrailerLines
  <2>4. Len(l) \in Nat /\ ~ (Len(l) > 1)
    <3>1. CASE l = <<>>
      BY <3>1
    <3>2. CASE l = <<"CR">>
      BY <3>2
    <3> QED
      BY <2>2, <3>1, <3>2
  <2>5. NoGiant(l)
    <3> DEFINE m == Len(l)
    <3>1. m \in Nat /\ ~ (m > 1)
      BY <2>4
    <3> HIDE DEF m
    <3>2. ~ (m > MaxHeaderLine)
      BY <3>1
    <3> QED
      BY <3>2 DEF m, NoGiant
  <2>6. Account(hd) \in ScanStates /\ ~ (Account(hd).count > MaxHeaders)
    <3>1. Account(hd) \in ScanStates /\ Account(hd).count = hd.fields /\ hd.fields \in Nat /\ hd.fields <= MaxHeaders
      BY AccountType DEF HeadState
    <3> DEFINE e == hd.fields
    <3>2. e \in Nat /\ e <= MaxHeaders
      BY <3>1
    <3> HIDE DEF e
    <3>3. ~ (e > MaxHeaders)
      BY <3>2, HttpAssumption
    <3> QED
      BY <3>1, <3>3 DEF e
  <2>7. Inspect(c \o l).framing = "incomplete" /\ c \in Seq(HttpLexemes)
    BY <2>2, <2>3, <2>5, <2>6, QuietClosed DEF InLine
  <2>8. c \o l \in Seq(HttpLexemes)
    BY <2>3, <2>7, ConcatSizes
  <2> QED
    BY <1>4, <2>1, <2>7, <2>8 DEF Open
<1> QED
  BY <1>1, <1>2, <1>3, <1>4 DEF HeadAt

\* What inspect and parse say once the head has been read.
Says(s, p, d) ==
    /\ p \notin {"done", "over"} => Inspect(s).framing = "incomplete"
    /\ p \in {"done", "over"} => /\ Inspect(s).framing = "complete"
                                 /\ HttpParse(s) = [ok |-> TRUE, body |-> d]

LEMMA BodyType ==
    ASSUME NEW hd, HeadState(hd)
    PROVE  Needed(hd) \in Nat
BY AccountType DEF Needed, Sizes

LEMMA SizedSays ==
    ASSUME NEW s, NEW h, NEW sep, NEW hd, HeadState(hd), FineHead(s, h, sep, hd), hd.coding = "none", Len(s) < Npos,
           NEW p, NEW n, NEW d, SizedAt(After(s, Len(h) + sep), p, n, d, Needed(hd))
    PROVE  Says(s, p, d)
<1> DEFINE rest == After(s, Len(h) + sep)
           need == Needed(hd)
<1>1. /\ Len(rest) < need => Inspect(s).framing = "incomplete"
      /\ ~ (Len(rest) < need) => /\ Inspect(s).framing = "complete"
                                 /\ HttpParse(s) = [ok |-> TRUE, body |-> SubSeq(rest, 1, need)]
  <2>1. hd.length \in Sizes
    BY AccountType, Zenon
  <2> QED
    BY <2>1, FineSized
<1>2. need \in Nat
  BY BodyType, Zenon
<1>3. /\ d \in Seq(HttpLexemes)
      /\ \/ p = "body" /\ rest = d /\ n \in Nat /\ n > 0 /\ Len(d) + n = need
         \/ p \in {"done", "over"} /\ Len(d) = need /\ \E e \in Seq(HttpLexemes) : rest = d \o e
  BY DEF SizedAt
<1> HIDE DEF rest, need
<1>4. CASE p = "body" /\ rest = d /\ n \in Nat /\ n > 0 /\ Len(d) + n = need
  <2>1. Len(rest) \in Nat
    BY <1>3, <1>4
  <2>2. Len(rest) < need
    BY <1>4, <2>1
  <2> QED
    BY <1>1, <1>4, <2>2 DEF Says
<1>5. CASE p \in {"done", "over"} /\ Len(d) = need /\ \E e \in Seq(HttpLexemes) : rest = d \o e
  <2>1. PICK e \in Seq(HttpLexemes) : rest = d \o e
    BY <1>5
  <2>2. Len(rest) = Len(d) + Len(e) /\ Len(e) \in Nat /\ rest \in Seq(HttpLexemes)
    BY <1>3, <2>1
  <2>3. ~ (Len(rest) < need)
    BY <1>2, <1>5, <2>2
  <2>4. SubSeq(rest, 1, need) = d
    <3>1. SubSeq(d \o e, 1, Len(d)) = d
      BY <1>3
    <3> QED
      BY <1>5, <2>1, <3>1
  <2> QED
    BY <1>1, <1>5, <2>3, <2>4 DEF Says
<1> QED
  BY <1>3, <1>4, <1>5

LEMMA ChunkedSays ==
    ASSUME NEW s, NEW h, NEW sep, NEW hd, HeadState(hd), FineHead(s, h, sep, hd), hd.coding = "chunked",
           NEW p, NEW l, NEW n, NEW d, ChunkedAt(After(s, Len(h) + sep), p, l, n, d)
    PROVE  Says(s, p, d)
<1> DEFINE rest == After(s, Len(h) + sep)
           scan == ScanChunks[rest]
<1>1. /\ scan.state = "incomplete" => Inspect(s).framing = "incomplete"
      /\ scan.state = "complete" => /\ Inspect(s).framing = "complete"
                                    /\ HttpParse(s) = [ok |-> TRUE, body |-> scan.data]
  <2>1. hd.length = -1
    BY DEF HeadState
  <2> QED
    BY <2>1, FineChunked
<1> HIDE DEF rest
<1>2. CASE p \in {"done", "over"} /\ Complete(rest, d)
  BY <1>1, <1>2 DEF Complete, Says
<1>3. ASSUME p \in {"size", "extension", "data", "chunk end", "trailer"}, scan.state = "incomplete"
      PROVE  Says(s, p, d)
  BY <1>1, <1>3 DEF Says
<1>4. CASE (p = "size" /\ AtSize(rest, l, n, d)) \/ (p = "extension" /\ AtExtension(rest, l, n, d))
  BY <1>3, <1>4, SizeOpen
<1>5. CASE (p = "data" /\ AtData(rest, l, n, d)) \/ (p = "chunk end" /\ AtChunkEnd(rest, l, n, d))
  BY <1>3, <1>5, DataOpen
<1>6. CASE p = "trailer" /\ AtTrailer(rest, l, d)
  BY <1>3, <1>6, TrailerOpen
<1>7. ChunkedAt(rest, p, l, n, d)
  BY DEF rest
<1> QED
  BY <1>2, <1>4, <1>5, <1>6, <1>7, Zenon DEF ChunkedAt

LEMMA GoodSays ==
    ASSUME NEW s, NEW p, NEW hd, NEW l, NEW n, NEW d, Good(s, p, hd, l, n, d)
    PROVE  Says(s, p, d)
<1>1. HeadState(hd) /\ s \in Seq(HttpLexemes) /\ Len(s) < Npos
      /\ (HeadAt(s, p, hd, l) \/ BodyAt(s, p, hd, l, n, d))
  BY DEF Good
<1>2. CASE HeadAt(s, p, hd, l)
  <2>1. MaxHeaderLine \in Nat \ {0}
    BY HttpAssumption
  <2>2. Open(s) /\ p \in {"start", "line", "fields"}
    BY <1>1, <1>2, <2>1, HeadOpen
  <2> QED
    BY <2>2 DEF Open, Says
<1>3. CASE BodyAt(s, p, hd, l, n, d)
  <2>1. PICK h, sep : FineHead(s, h, sep, hd) /\ RestAt(After(s, Len(h) + sep), p, hd, l, n, d)
    BY <1>3, Zenon DEF BodyAt
  <2>2. CASE hd.coding = "none" /\ SizedAt(After(s, Len(h) + sep), p, n, d, Needed(hd))
    BY <1>1, <2>1, <2>2, SizedSays, Zenon
  <2>3. CASE hd.coding = "chunked" /\ ChunkedAt(After(s, Len(h) + sep), p, l, n, d)
    BY <1>1, <2>1, <2>3, ChunkedSays, Zenon
  <2> QED
    BY <2>1, <2>2, <2>3, Zenon DEF RestAt
<1> QED
  BY <1>1, <1>2, <1>3

-----------------------------------------------------------------------------
(* What the client sends behind the head.                                    *)

LEMMA RestStep ==
    ASSUME NEW s, NEW p, NEW hd, NEW l, NEW n, NEW d, BodyAt(s, p, hd, l, n, d), NEW c \in HttpLexemes,
           NEW p2, NEW l2, NEW n2, NEW d2,
           \A r \in Seq(HttpLexemes) : RestAt(r, p, hd, l, n, d) => RestAt(Append(r, c), p2, hd, l2, n2, d2)
    PROVE  BodyAt(Append(s, c), p2, hd, l2, n2, d2)
<1>1. PICK h, sep : FineHead(s, h, sep, hd) /\ RestAt(After(s, Len(h) + sep), p, hd, l, n, d)
  BY Zenon DEF BodyAt
<1>2. /\ FineHead(Append(s, c), h, sep, hd)
      /\ After(s, Len(h) + sep) \in Seq(HttpLexemes)
      /\ After(Append(s, c), Len(h) + sep) = Append(After(s, Len(h) + sep), c)
  <2>1. FineHead(s, h, sep, hd)
    BY <1>1
  <2> QED
    BY <2>1, FineStays
<1>3. RestAt(After(Append(s, c), Len(h) + sep), p2, hd, l2, n2, d2)
  BY <1>1, <1>2, Zenon
<1> QED
  BY <1>2, <1>3, Zenon DEF BodyAt

\* The phase tells the coding.
LEMMA RestKind ==
    ASSUME NEW r, NEW p, NEW hd, NEW l, NEW n, NEW d, RestAt(r, p, hd, l, n, d)
    PROVE  /\ p \in {"body", "done", "over", "size", "extension", "data", "chunk end", "trailer"}
           /\ p = "body" => hd.coding = "none" /\ SizedAt(r, p, n, d, Needed(hd))
           /\ p \in {"size", "extension", "data", "chunk end", "trailer"} =>
                 hd.coding = "chunked" /\ ChunkedAt(r, p, l, n, d)
BY DEF RestAt, SizedAt, ChunkedAt

AfterByte(p, n) == IF n > 1 THEN p ELSE IF p = "body" THEN "done" ELSE "chunk end"

LEMMA RestByte ==
    ASSUME NEW r \in Seq(HttpLexemes), NEW p \in {"body", "data"}, NEW hd, NEW l, NEW n, NEW d,
           RestAt(r, p, hd, l, n, d)
    PROVE  RestAt(Append(r, "x"), AfterByte(p, n), hd, Append(l, "x"), n - 1, Append(d, "x"))
<1>1. CASE p = "body"
  <2>1. hd.coding = "none" /\ SizedAt(r, p, n, d, Needed(hd))
    BY <1>1, RestKind
  <2> DEFINE need == Needed(hd)
             e == Append(d, "x")
  <2>2. d \in Seq(HttpLexemes) /\ r = d /\ n \in Nat /\ n > 0 /\ Len(d) + n = need
    BY <1>1, <2>1 DEF SizedAt
  <2>3. e \in Seq(HttpLexemes) /\ Len(e) = Len(d) + 1 /\ Len(d) \in Nat
    <3>1. "x" \in HttpLexemes
      BY Bytes, Zenon
    <3> QED
      BY <2>2, <3>1, OneMore, Zenon
  <2>4. need \in Nat
    BY <2>2, <2>3
  <2>5. Append(r, "x") = e
    BY <2>2
  <2> HIDE DEF need, e
  <2>6. /\ n > 1 => n - 1 \in Nat /\ n - 1 > 0 /\ (Len(d) + 1) + (n - 1) = need
        /\ ~ (n > 1) => n - 1 = 0 /\ Len(d) + 1 = need
    BY <2>2, <2>3, <2>4, OneLess, Zenon
  <2>7. SizedAt(e, AfterByte(p, n), n - 1, e, need)
    <3>1. CASE n > 1
      BY <1>1, <2>3, <2>6, <3>1 DEF SizedAt, AfterByte
    <3>2. CASE ~ (n > 1)
      <4>1. AfterByte(p, n) = "done"
        BY <1>1, <3>2 DEF AfterByte
      <4>2. Len(e) = need
        BY <2>3, <2>6, <3>2
      <4>3. e = e \o <<>> /\ <<>> \in Seq(HttpLexemes)
        BY <2>3
      <4> QED
        BY <2>3, <4>1, <4>2, <4>3, Zenon DEF SizedAt
    <3> QED
      BY <3>1, <3>2
  <2> QED
    BY <2>1, <2>5, <2>7, Zenon DEF RestAt, need, e
<1>2. CASE p = "data"
  <2>1. hd.coding = "chunked" /\ AtData(r, l, n, d)
    BY <1>2, RestKind DEF ChunkedAt
  <2>2. /\ n > 1 => AtData(Append(r, "x"), Append(l, "x"), n - 1, Append(d, "x"))
        /\ ~ (n > 1) => AtChunkEnd(Append(r, "x"), Append(l, "x"), n - 1, Append(d, "x"))
    BY <2>1, DataGrows, Zenon
  <2>3. CASE n > 1
    BY <1>2, <2>1, <2>2, <2>3, Zenon DEF RestAt, ChunkedAt, AfterByte
  <2>4. CASE ~ (n > 1)
    <3>1. AfterByte(p, n) = "chunk end"
      BY <1>2, <2>4 DEF AfterByte
    <3> QED
      BY <2>1, <2>2, <2>4, <3>1, Zenon DEF RestAt, ChunkedAt
  <2> QED
    BY <2>3, <2>4
<1> QED
  BY <1>1, <1>2

LEMMA RestDigit ==
    ASSUME NEW r \in Seq(HttpLexemes), NEW hd, NEW l, NEW n, NEW d, RestAt(r, "size", hd, l, n, d), ~Returns(l),
           NEW c \in DOMAIN Hex, ~ (n * 16 + Hex[c] > Npos)
    PROVE  RestAt(Append(r, c), "size", hd, Append(l, c), n * 16 + Hex[c], d)
<1>1. hd.coding = "chunked" /\ AtSize(r, l, n, d)
  BY RestKind DEF ChunkedAt
<1>2. n \in Nat
  BY <1>1 DEF AtSize
<1>3. n * 16 + Hex[c] <= Npos
  <2> DEFINE m == n * 16 + Hex[c]
  <2>1. m \in Nat
    BY <1>2, HexValue
  <2>2. ~ (m > Npos)
    OBVIOUS
  <2> HIDE DEF m
  <2>3. m <= Npos
    BY <2>1, <2>2, HttpAssumption
  <2> QED
    BY <2>3 DEF m
<1>4. AtSize(Append(r, c), Append(l, c), n * 16 + Hex[c], d)
  BY <1>1, <1>3, SizeGrows, Zenon
<1> QED
  BY <1>1, <1>4, Zenon DEF RestAt, ChunkedAt

LEMMA RestExtension ==
    ASSUME NEW r \in Seq(HttpLexemes), NEW hd, NEW l, NEW n, NEW d, RestAt(r, "size", hd, l, n, d), ~Returns(l),
           l # <<>>
    PROVE  RestAt(Append(r, ";"), "extension", hd, Append(l, ";"), n, d)
<1>1. hd.coding = "chunked" /\ AtSize(r, l, n, d)
  BY RestKind DEF ChunkedAt
<1>2. AtExtension(Append(r, ";"), Append(l, ";"), n, d)
  BY <1>1, SizeExtended, Zenon
<1> QED
  BY <1>1, <1>2, Zenon DEF RestAt, ChunkedAt

LEMMA RestReturn ==
    ASSUME NEW r \in Seq(HttpLexemes), NEW p \in {"size", "extension", "chunk end", "trailer"}, NEW hd, NEW l, NEW n, NEW d,
           RestAt(r, p, hd, l, n, d), ~Returns(l), ~ (p = "size" /\ l = <<>>)
    PROVE  RestAt(Append(r, "CR"), p, hd, Append(l, "CR"), n, d)
<1>1. hd.coding = "chunked" /\ ChunkedAt(r, p, l, n, d)
  BY RestKind
<1>2. CASE p = "size"
  <2>1. AtSize(r, l, n, d) /\ l # <<>>
    BY <1>1, <1>2 DEF ChunkedAt
  <2>2. AtSize(Append(r, "CR"), Append(l, "CR"), n, d)
    BY <2>1, SizeReturns, Zenon
  <2> QED
    BY <1>1, <1>2, <2>2, Zenon DEF RestAt, ChunkedAt
<1>3. CASE p = "extension"
  <2>1. AtExtension(r, l, n, d)
    BY <1>1, <1>3 DEF ChunkedAt
  <2>2. AtExtension(Append(r, "CR"), Append(l, "CR"), n, d)
    BY <2>1, ExtensionReturns, Zenon
  <2> QED
    BY <1>1, <1>3, <2>2, Zenon DEF RestAt, ChunkedAt
<1>4. CASE p = "chunk end"
  <2>1. AtChunkEnd(r, l, n, d)
    BY <1>1, <1>4 DEF ChunkedAt
  <2>2. AtChunkEnd(Append(r, "CR"), Append(l, "CR"), n, d)
    BY <2>1, ChunkReturns, Zenon
  <2> QED
    BY <1>1, <1>4, <2>2, Zenon DEF RestAt, ChunkedAt
<1>5. CASE p = "trailer"
  <2>1. AtTrailer(r, l, d)
    BY <1>1, <1>5 DEF ChunkedAt
  <2>2. AtTrailer(Append(r, "CR"), Append(l, "CR"), d)
    BY <2>1, TrailerGrows, Zenon
  <2> QED
    BY <1>1, <1>5, <2>2, Zenon DEF RestAt, ChunkedAt
<1> QED
  BY <1>2, <1>3, <1>4, <1>5

AfterLine(p, l, n) ==
    CASE p = "chunk end" -> "size"
      [] p = "trailer" -> IF l = <<"CR">> THEN "done" ELSE "trailer"
      [] OTHER -> IF n = 0 THEN "trailer" ELSE "data"

LEMMA RestLine ==
    ASSUME NEW r \in Seq(HttpLexemes), NEW p \in {"size", "extension", "chunk end", "trailer"}, NEW hd, NEW l, NEW n, NEW d,
           RestAt(r, p, hd, l, n, d), Returns(l)
    PROVE  RestAt(Append(r, "LF"), AfterLine(p, l, n), hd, <<>>, n, d)
<1>1. hd.coding = "chunked" /\ ChunkedAt(r, p, l, n, d)
  BY RestKind
<1>2. CASE p = "size" \/ p = "extension"
  <2>1. AtSize(r, l, n, d) \/ AtExtension(r, l, n, d)
    BY <1>1, <1>2 DEF ChunkedAt
  <2>2. AfterLine(p, l, n) = IF n = 0 THEN "trailer" ELSE "data"
    BY <1>2 DEF AfterLine
  <2>3. CASE n = 0
    <3>1. AtTrailer(Append(r, "LF"), <<>>, d)
      BY <2>1, <2>3, TrailerStarts, Zenon
    <3>2. AfterLine(p, l, n) = "trailer"
      BY <2>2, <2>3
    <3> QED
      BY <1>1, <3>1, <3>2, Zenon DEF RestAt, ChunkedAt
  <2>4. CASE n # 0
    <3>1. AtData(Append(r, "LF"), <<>>, n, d)
      BY <2>1, <2>4, DataStarts, Zenon
    <3>2. AfterLine(p, l, n) = "data"
      BY <2>2, <2>4
    <3> QED
      BY <1>1, <3>1, <3>2, Zenon DEF RestAt, ChunkedAt
  <2> QED
    BY <2>3, <2>4
<1>3. CASE p = "chunk end"
  <2>1. AtChunkEnd(r, l, n, d)
    BY <1>1, <1>3 DEF ChunkedAt
  <2>2. n = 0 /\ AtSize(Append(r, "LF"), <<>>, 0, d)
    BY <2>1, ChunkEnds, Zenon
  <2>3. AfterLine(p, l, n) = "size"
    BY <1>3 DEF AfterLine
  <2>4. AtSize(Append(r, "LF"), <<>>, n, d)
    BY <2>2, Zenon
  <2> QED
    BY <1>1, <2>3, <2>4, Zenon DEF RestAt, ChunkedAt
<1>4. CASE p = "trailer"
  <2>1. AtTrailer(r, l, d)
    BY <1>1, <1>4 DEF ChunkedAt
  <2>2. /\ l = <<"CR">> => Complete(Append(r, "LF"), d)
        /\ l # <<"CR">> => AtTrailer(Append(r, "LF"), <<>>, d)
    BY <2>1, TrailerEnds, Zenon
  <2>3. AfterLine(p, l, n) = IF l = <<"CR">> THEN "done" ELSE "trailer"
    BY <1>4 DEF AfterLine
  <2>4. CASE l = <<"CR">>
    <3>1. AfterLine(p, l, n) = "done"
      BY <2>3, <2>4
    <3>2. AfterLine(p, l, n) \in {"done", "over"}
      BY <3>1
    <3> QED
      BY <1>1, <2>2, <2>4, <3>2, Zenon DEF RestAt, ChunkedAt
  <2>5. CASE l # <<"CR">>
    <3>1. AfterLine(p, l, n) = "trailer"
      BY <2>3, <2>5
    <3> QED
      BY <1>1, <2>2, <2>5, <3>1, Zenon DEF RestAt, ChunkedAt
  <2> QED
    BY <2>4, <2>5
<1> QED
  BY <1>2, <1>3, <1>4

LEMMA RestTrailer ==
    ASSUME NEW r \in Seq(HttpLexemes), NEW hd, NEW l, NEW n, NEW d, RestAt(r, "trailer", hd, l, n, d), l = <<>>
    PROVE  RestAt(Append(r, "x"), "trailer", hd, Append(l, "x"), n, d)
<1>1. hd.coding = "chunked" /\ AtTrailer(r, l, d)
  BY RestKind DEF ChunkedAt
<1>2. AtTrailer(Append(r, "x"), Append(l, "x"), d)
  BY <1>1, TrailerGrows, Zenon
<1> QED
  BY <1>1, <1>2, Zenon DEF RestAt, ChunkedAt

LEMMA RestOver ==
    ASSUME NEW r \in Seq(HttpLexemes), NEW hd, NEW l, NEW l2, NEW n, NEW d, RestAt(r, "done", hd, l, n, d),
           NEW c \in HttpLexemes
    PROVE  RestAt(Append(r, c), "over", hd, l2, n, d)
<1>1. CASE hd.coding = "none" /\ SizedAt(r, "done", n, d, Needed(hd))
  <2>1. PICK e \in Seq(HttpLexemes) : r = d \o e
    BY <1>1 DEF SizedAt
  <2>2. d \in Seq(HttpLexemes) /\ Len(d) = Needed(hd)
    BY <1>1 DEF SizedAt
  <2>3. Append(r, c) = d \o Append(e, c) /\ Append(e, c) \in Seq(HttpLexemes)
    BY <2>1, <2>2, AppendOn, Zenon
  <2>4. SizedAt(Append(r, c), "over", n, d, Needed(hd))
    BY <2>2, <2>3 DEF SizedAt
  <2> QED
    BY <1>1, <2>4, Zenon DEF RestAt
<1>2. CASE hd.coding = "chunked" /\ Complete(r, d)
  <2>1. ScanChunks[Append(r, c)] = ScanChunks[r] /\ Append(r, c) \in Seq(HttpLexemes)
    <3>1. ScanChunks[r].state = "complete"
      BY <1>2 DEF Complete
    <3> QED
      BY <3>1, ScanStays, OneMore
  <2>2. Complete(Append(r, c), d)
    BY <1>2, <2>1 DEF Complete
  <2> QED
    BY <1>2, <2>2 DEF RestAt, ChunkedAt
<1> QED
  BY <1>1, <1>2 DEF RestAt, ChunkedAt

-----------------------------------------------------------------------------
(* Each step of a client that breaks no rule keeps the account true.          *)

LEMMA GoodKinds ==
    ASSUME NEW s, NEW p, NEW hd, NEW l, NEW n, NEW d, Good(s, p, hd, l, n, d)
    PROVE  /\ p = "start" => s = <<>> /\ l = <<>> /\ Account(hd) = NoScan /\ hd.hosts = 0 /\ ~hd.bare /\ d = <<>>
           /\ p = "line" => d = <<>> /\ ((s = l /\ AtFirst(l, hd)) \/ \E c : s = c \o l /\ AtField(c, l, hd))
           /\ p = "fields" => d = <<>> /\ \E c : s = c \o l /\ AtFields(c, l, hd)
           /\ p \notin {"start", "line", "fields"} => BodyAt(s, p, hd, l, n, d)
           /\ HeadState(hd) /\ s \in Seq(HttpLexemes)
<1>1. HeadState(hd) /\ s \in Seq(HttpLexemes) /\ ((HeadAt(s, p, hd, l) /\ d = <<>>) \/ BodyAt(s, p, hd, l, n, d))
  BY Zenon DEF Good
<1>2. ASSUME BodyAt(s, p, hd, l, n, d) PROVE p \notin {"start", "line", "fields"}
  <2>1. PICK h, sep : FineHead(s, h, sep, hd) /\ RestAt(After(s, Len(h) + sep), p, hd, l, n, d)
    BY <1>2, Zenon DEF BodyAt
  <2>2. p \in {"body", "done", "over", "size", "extension", "data", "chunk end", "trailer"}
    BY <2>1, RestKind, Zenon
  <2> QED
    BY <2>2
<1>3. HeadAt(s, p, hd, l) => p \in {"start", "line", "fields"}
  BY DEF HeadAt
<1>4. p = "start" => s = <<>> /\ l = <<>> /\ Account(hd) = NoScan /\ hd.hosts = 0 /\ ~hd.bare /\ d = <<>>
  BY <1>1, <1>2 DEF HeadAt
<1>5. p = "line" => d = <<>> /\ ((s = l /\ AtFirst(l, hd)) \/ \E c : s = c \o l /\ AtField(c, l, hd))
  BY <1>1, <1>2 DEF HeadAt
<1>6. p = "fields" => d = <<>> /\ \E c : s = c \o l /\ AtFields(c, l, hd)
  BY <1>1, <1>2 DEF HeadAt
<1> QED
  BY <1>1, <1>3, <1>4, <1>5, <1>6

\* A text with a lexeme more.
LEMMA Longer ==
    ASSUME NEW s \in Seq(HttpLexemes), NEW c \in HttpLexemes, Len(s) + 1 < Npos
    PROVE  Append(s, c) \in Seq(HttpLexemes) /\ Len(Append(s, c)) < Npos
<1>1. Append(s, c) \in Seq(HttpLexemes) /\ Len(Append(s, c)) = Len(s) + 1
  BY OneMore, Zenon
<1> QED
  BY <1>1

LEMMA GoodBody ==
    ASSUME NEW s, NEW p, NEW hd, NEW l, NEW n, NEW d, Good(s, p, hd, l, n, d), p \notin {"start", "line", "fields"},
           NEW c \in HttpLexemes, Len(s) + 1 < Npos, NEW p2, NEW l2, NEW n2, NEW d2,
           \A r \in Seq(HttpLexemes) : RestAt(r, p, hd, l, n, d) => RestAt(Append(r, c), p2, hd, l2, n2, d2)
    PROVE  Good(Append(s, c), p2, hd, l2, n2, d2)
<1>1. HeadState(hd) /\ s \in Seq(HttpLexemes) /\ BodyAt(s, p, hd, l, n, d)
  BY GoodKinds, Zenon
<1>2. BodyAt(Append(s, c), p2, hd, l2, n2, d2)
  BY <1>1, RestStep, Zenon
<1>3. Append(s, c) \in Seq(HttpLexemes) /\ Len(Append(s, c)) < Npos
  BY <1>1, Longer, Zenon
<1> QED
  BY <1>1, <1>2, <1>3, Zenon DEF Good

LEMMA GoodHead ==
    ASSUME NEW s \in Seq(HttpLexemes), NEW c \in HttpLexemes, Len(s) + 1 < Npos, NEW hd, HeadState(hd),
           NEW p, NEW l, NEW n, HeadAt(Append(s, c), p, hd, l)
    PROVE  Good(Append(s, c), p, hd, l, n, <<>>)
<1>1. Append(s, c) \in Seq(HttpLexemes) /\ Len(Append(s, c)) < Npos
  BY Longer, Zenon
<1> QED
  BY <1>1, Zenon DEF Good

GoodNow == Good(text, phase, head, line, left, body)

LEMMA ReturnedIs == Returned <=> Returns(line)
BY Zenon DEF Returned, Returns

LEMMA GoodRequestLine ==
    ASSUME GoodNow, NEW l \in {"1.1", "1.0", "short"}, RequestLine(l), ~flawed'
    PROVE  GoodNow'
<1>1. /\ phase = "start" /\ text' = Append(text, l) /\ Len(text) + 1 < Npos
      /\ line' = (IF l = "LF" THEN <<>> ELSE Append(line, l)) /\ phase' = "line"
      /\ head' = [head EXCEPT !.version = l] /\ left' = left /\ body' = body /\ l # "short"
  BY DEF RequestLine, Send, Goto, Flaw
<1>2. /\ text = <<>> /\ line = <<>> /\ Account(head) = NoScan /\ head.hosts = 0 /\ ~head.bare /\ body = <<>>
      /\ HeadState(head) /\ text \in Seq(HttpLexemes)
  BY <1>1, GoodKinds DEF GoodNow
<1>3. l \in {"1.1", "1.0"} /\ l \in HttpLexemes /\ l # "LF"
  BY <1>1, LexemeKinds
<1>4. text' = <<l>> /\ line' = <<l>>
  <2>1. Append(<<>>, l) = <<l>>
    OBVIOUS
  <2> QED
    BY <1>1, <1>2, <1>3, <2>1
<1> DEFINE hd == [head EXCEPT !.version = l]
<1>5. /\ HeadState(hd) /\ Account(hd) = Account(head) /\ hd.hosts = head.hosts /\ hd.bare = head.bare /\ hd.version = l
  BY <1>2, <1>3 DEF HeadState, Account
<1> HIDE DEF hd
<1>6. AtFirst(<<l>>, hd)
  BY <1>2, <1>5, Zenon DEF AtFirst
<1>7. HeadAt(<<l>>, "line", hd, <<l>>)
  BY <1>6, Zenon DEF HeadAt
<1>8. Good(Append(text, l), "line", hd, <<l>>, left, <<>>)
  <2>1. HeadAt(Append(text, l), "line", hd, <<l>>)
    BY <1>1, <1>4, <1>7, Zenon
  <2> QED
    BY <1>1, <1>2, <1>3, <1>5, <2>1, GoodHead, Zenon
<1> QED
  BY <1>1, <1>2, <1>4, <1>8, Zenon DEF GoodNow, hd

LEMMA LengthIs == \A f \in DOMAIN LengthOf : LengthOf[f] \in Nat
BY HttpAssumption DEF LengthOf

\* The account of a field that breaks no rule.
LEMMA GoodFieldLine ==
    ASSUME GoodNow, NEW l \in Fields \cup {"fold", "nocolon"}, FieldLine(l), ~flawed'
    PROVE  GoodNow'
<1>1. /\ phase = "fields" /\ line = <<>> /\ text' = Append(text, l) /\ Len(text) + 1 < Npos
      /\ line' = (IF l = "LF" THEN <<>> ELSE Append(line, l)) /\ phase' = "line"
      /\ head' = [head EXCEPT !.fields = @ + 1,
                              !.hosts = IF l = "Host" THEN @ + 1 ELSE @,
                              !.length = IF l \in DOMAIN LengthOf THEN LengthOf[l] ELSE @,
                              !.coding = IF l \in Codings THEN l ELSE @]
      /\ left' = left /\ body' = body
  BY DEF FieldLine, Send, Goto
<1>2. /\ l \notin {"fold", "nocolon", "CLbad", "gzip"}
      /\ ~ (l = "Host" /\ head.hosts = 1)
      /\ ~ (l \in Codings /\ (head.length # -1 \/ head.coding # "none"))
      /\ ~ (l \in DOMAIN LengthOf /\ (head.coding # "none" \/ head.length \notin {-1, LengthOf[l]}))
      /\ head.fields # MaxHeaders
  BY DEF FieldLine, Flaw
<1>3. /\ HeadState(head) /\ text \in Seq(HttpLexemes) /\ body = <<>>
      /\ \E c : text = c \o line /\ AtFields(c, line, head)
  <2>1. Good(text, phase, head, line, left, body) /\ phase = "fields"
    BY <1>1 DEF GoodNow
  <2> QED
    BY <2>1, GoodKinds
<1>4. l \in Fields /\ l \in HttpLexemes /\ l # "LF"
  BY <1>2, LexemeKinds
<1>5. PICK c : text = c \o <<>> /\ AtFields(c, <<>>, head)
  BY <1>1, <1>3, Zenon
<1>6. c \in Seq(HttpLexemes) /\ text = c
  <2>1. c \in Seq(HttpLexemes)
    BY <1>5, Zenon DEF AtFields, ClosedOk
  <2> QED
    BY <1>5, <2>1
<1>7. ~Refused(Account(head), l)
  <2>1. Account(head).length = head.length /\ Account(head).coding = head.coding /\ Account(head).count = head.fields
    BY <1>3, AccountType, Zenon
  <2> QED
    BY <1>2, <2>1 DEF Refused
<1> DEFINE hd == [head EXCEPT !.fields = @ + 1,
                              !.hosts = IF l = "Host" THEN @ + 1 ELSE @,
                              !.length = IF l \in DOMAIN LengthOf THEN LengthOf[l] ELSE @,
                              !.coding = IF l \in Codings THEN l ELSE @]
<1>8. /\ head \in [version : {"1.1", "1.0"}, bare : BOOLEAN, hosts : {0, 1}, length : Sizes,
                   coding : {"none", "chunked"}, fields : Nat]
      /\ head.fields <= MaxHeaders /\ (head.coding = "chunked" => head.length = -1)
  BY <1>3 DEF HeadState
<1>9. /\ hd.fields = head.fields + 1 /\ hd.version = head.version /\ hd.bare = head.bare
      /\ hd.hosts = (IF l = "Host" THEN head.hosts + 1 ELSE head.hosts)
      /\ hd.length = (IF l \in DOMAIN LengthOf THEN LengthOf[l] ELSE head.length)
      /\ hd.coding = (IF l \in Codings THEN l ELSE head.coding)
  BY <1>8
<1>10. hd \in [version : {"1.1", "1.0"}, bare : BOOLEAN, hosts : {0, 1}, length : Sizes,
               coding : {"none", "chunked"}, fields : Nat]
  <2> DEFINE H == IF l = "Host" THEN head.hosts + 1 ELSE head.hosts
             L == IF l \in DOMAIN LengthOf THEN LengthOf[l] ELSE head.length
             C == IF l \in Codings THEN l ELSE head.coding
  <2>1. L \in Sizes
    BY <1>8, LengthIs DEF Sizes
  <2>2. C \in {"none", "chunked"}
    BY <1>2, <1>8 DEF Codings
  <2>3. H \in {0, 1}
    BY <1>2, <1>8
  <2>4. hd = [head EXCEPT !.fields = @ + 1, !.hosts = H, !.length = L, !.coding = C]
    OBVIOUS
  <2> DEFINE V == head.version
             B == head.bare
             F == head.fields
  <2>5. V \in {"1.1", "1.0"} /\ B \in BOOLEAN /\ F + 1 \in Nat
    BY <1>8
  <2>6. hd = [version |-> V, bare |-> B, hosts |-> H, length |-> L, coding |-> C, fields |-> F + 1]
    <3> HIDE DEF hd, H, L, C
    <3> QED
      BY <1>8, <2>4
  <2> DEFINE G == F + 1
  <2> HIDE DEF hd, H, L, C, V, B, G
  <2> QED
    BY <2>1, <2>2, <2>3, <2>5, <2>6
<1> HIDE DEF hd
<1>11. hd.fields <= MaxHeaders
  <2> DEFINE m == head.fields
  <2>1. m \in Nat /\ m <= MaxHeaders /\ m # MaxHeaders /\ hd.fields = m + 1
    BY <1>2, <1>8, <1>9
  <2> HIDE DEF m
  <2> QED
    BY <2>1, HttpAssumption
<1>12. hd.coding = "chunked" => hd.length = -1
  <2>1. l \in Codings => l \notin DOMAIN LengthOf
    BY LexemeKinds DEF Codings
  <2> QED
    BY <1>2, <1>8, <1>9, <2>1
<1>13. HeadState(hd)
  BY <1>10, <1>11, <1>12 DEF HeadState
<1>14. Account(hd) = WithField(Account(head), l)
  BY <1>9 DEF Account, WithField
<1>15. AtField(c, <<l>>, hd)
  <2>1. MaxHeaderLine \in Nat \ {0}
    BY HttpAssumption
  <2> QED
    BY <1>2, <1>3, <1>4, <1>5, <1>7, <1>9, <1>13, <1>14, <2>1, FieldStarts
<1>16. line' = <<l>> /\ Append(text, l) = c \o <<l>>
  <2>1. Append(<<>>, l) = <<l>>
    OBVIOUS
  <2>2. Append(c, l) = c \o <<l>>
    BY <1>4, <1>6, AppendIs, Zenon
  <2> QED
    BY <1>1, <1>4, <1>6, <2>1, <2>2
<1>17. HeadAt(Append(text, l), "line", hd, <<l>>)
  BY <1>15, <1>16, Zenon DEF HeadAt
<1>18. Good(Append(text, l), "line", hd, <<l>>, left, <<>>)
  BY <1>1, <1>3, <1>4, <1>13, <1>17, GoodHead, Zenon
<1> QED
  BY <1>1, <1>3, <1>16, <1>18, Zenon DEF GoodNow, hd

LEMMA GoodLineByte ==
    ASSUME GoodNow, LineByte, ~flawed'
    PROVE  GoodNow'
<1>1. /\ phase = "line" /\ text' = Append(text, "x") /\ Len(text) + 1 < Npos /\ line' = Append(line, "x")
      /\ phase' = phase /\ head' = head /\ left' = left /\ body' = body
      /\ line[1] \in {"Host", "Other", "fold", "nocolon"} /\ Len(line) # MaxHeaderLine /\ ~Returned
  BY DEF LineByte, Send, Flaw
<1>2. /\ HeadState(head) /\ text \in Seq(HttpLexemes) /\ body = <<>>
      /\ (text = line /\ AtFirst(line, head)) \/ \E c : text = c \o line /\ AtField(c, line, head)
  BY <1>1, GoodKinds DEF GoodNow
<1>3. ~Returns(line) /\ "x" \in HttpLexemes
  BY <1>1, ReturnedIs, Bytes, Zenon
<1>4. ~AtFirst(line, head)
  <2> SUFFICES ASSUME AtFirst(line, head) PROVE FALSE
    OBVIOUS
  <2>1. line = <<head.version>> \/ line = <<head.version, "CR">>
    BY DEF AtFirst
  <2>2. line[1] = head.version
    BY <1>2, <2>1, FirstLines
  <2>3. head.version \in {"1.1", "1.0"}
    BY <1>2, AccountType
  <2> QED
    BY <1>1, <2>2, <2>3
<1>5. PICK c : text = c \o line /\ AtField(c, line, head)
  BY <1>2, <1>4
<1>6. PICK x, k, b : FieldAt(c, line, head, x, k, b)
  BY <1>5, Zenon DEF AtField
<1>7. ClosedOk(c, x, head.bare, head.version, k) /\ FieldBody(x, k, b, head) /\ FieldLineIs(line, b, head.bare)
  BY <1>6, Zenon DEF FieldAt
<1>8. line[1] \in Fields /\ line \in Seq(HttpLexemes)
  BY <1>7, FieldLines
<1>9. line[1] \in Plain2
  BY <1>1, <1>8 DEF Plain2, Fields, Lengths, Codings
<1>10. c \in Seq(HttpLexemes)
  BY <1>7, Zenon DEF ClosedOk
<1>11. AtField(c, Append(line, "x"), head)
  BY <1>1, <1>3, <1>5, <1>9, FieldGrows, Zenon
<1>12. Append(text, "x") = c \o Append(line, "x")
  BY <1>3, <1>5, <1>8, <1>10, AppendOn, Zenon
<1>13. HeadAt(Append(text, "x"), "line", head, Append(line, "x"))
  BY <1>11, <1>12, Zenon DEF HeadAt
<1>14. Good(Append(text, "x"), "line", head, Append(line, "x"), left, <<>>)
  BY <1>1, <1>2, <1>3, <1>13, GoodHead, Zenon
<1> QED
  BY <1>1, <1>2, <1>14, Zenon DEF GoodNow

LEMMA GoodLineReturn ==
    ASSUME GoodNow, LineReturn, ~edge'
    PROVE  GoodNow'
<1>1. /\ phase = "line" /\ text' = Append(text, "CR") /\ Len(text) + 1 < Npos /\ line' = Append(line, "CR")
      /\ phase' = phase /\ head' = head /\ left' = left /\ body' = body
      /\ Len(line) # MaxHeaderLine /\ ~Returned /\ (head.bare => head.version # "1.0")
  BY DEF LineReturn, Send, Newer
<1>2. /\ HeadState(head) /\ text \in Seq(HttpLexemes) /\ body = <<>>
      /\ (text = line /\ AtFirst(line, head)) \/ \E c : text = c \o line /\ AtField(c, line, head)
  <2>1. phase = "line"
    BY <1>1
  <2> QED
    BY <2>1, GoodKinds DEF GoodNow
<1>3. ~Returns(line) /\ "CR" \in HttpLexemes
  BY <1>1, ReturnedIs, Bytes, Zenon
<1>4. HeadAt(Append(text, "CR"), "line", head, Append(line, "CR"))
  <2>1. CASE text = line /\ AtFirst(line, head)
    <3>1. MaxHeaderLine \in Nat \ {0}
      BY HttpAssumption
    <3>2. AtFirst(Append(line, "CR"), head)
      BY <1>1, <1>2, <1>3, <2>1, <3>1, FirstReturns
    <3>3. Append(text, "CR") = Append(line, "CR")
      BY <2>1
    <3> QED
      BY <3>2, <3>3, Zenon DEF HeadAt
  <2>2. CASE \E c : text = c \o line /\ AtField(c, line, head)
    <3>1. PICK c : text = c \o line /\ AtField(c, line, head)
      BY <2>2
    <3>2. PICK x, k, b : FieldAt(c, line, head, x, k, b)
      BY <3>1, Zenon DEF AtField
    <3>3. ClosedOk(c, x, head.bare, head.version, k) /\ FieldBody(x, k, b, head) /\ FieldLineIs(line, b, head.bare)
      BY <3>2, Zenon DEF FieldAt
    <3>4. line \in Seq(HttpLexemes)
      BY <3>3, FieldLines
    <3>5. c \in Seq(HttpLexemes) /\ (head.bare => head.version = "1.0")
      BY <3>3, Zenon DEF ClosedOk
    <3>6. ~head.bare
      BY <1>1, <3>5
    <3>7. AtField(c, Append(line, "CR"), head)
      BY <1>1, <1>3, <3>1, <3>6, FieldReturns, Zenon
    <3>8. Append(text, "CR") = c \o Append(line, "CR")
      BY <1>3, <3>1, <3>4, <3>5, AppendOn, Zenon
    <3> QED
      BY <3>7, <3>8, Zenon DEF HeadAt
  <2> QED
    BY <1>2, <2>1, <2>2
<1>5. Good(Append(text, "CR"), "line", head, Append(line, "CR"), left, <<>>)
  BY <1>1, <1>2, <1>3, <1>4, GoodHead, Zenon
<1> QED
  BY <1>1, <1>2, <1>5, Zenon DEF GoodNow

\* The kind of line end that the account remembers.
Barer(hd, q) == [hd EXCEPT !.bare = @ \/ q]

LEMMA BarerIs ==
    ASSUME NEW hd, HeadState(hd), NEW q \in BOOLEAN
    PROVE  /\ HeadState(Barer(hd, q)) /\ Account(Barer(hd, q)) = Account(hd) /\ Barer(hd, q).version = hd.version
           /\ Barer(hd, q).hosts = hd.hosts /\ Barer(hd, q).bare = (hd.bare \/ q)
           /\ (hd.bare \/ q) = hd.bare => Barer(hd, q) = hd
<1> DEFINE after == Barer(hd, q)
<1>1. hd \in [version : {"1.1", "1.0"}, bare : BOOLEAN, hosts : {0, 1}, length : Sizes,
              coding : {"none", "chunked"}, fields : Nat]
  BY DEF HeadState
<1>2. (hd.bare \/ q) \in BOOLEAN
  OBVIOUS
<1> DEFINE B == hd.bare \/ q
<1>3. after = [hd EXCEPT !.bare = B] /\ B \in BOOLEAN
  BY DEF Barer
<1> HIDE DEF B
<1>4. /\ after.version = hd.version /\ after.hosts = hd.hosts /\ after.bare = B
      /\ after.length = hd.length /\ after.coding = hd.coding /\ after.fields = hd.fields
      /\ after \in [version : {"1.1", "1.0"}, bare : BOOLEAN, hosts : {0, 1}, length : Sizes,
                    coding : {"none", "chunked"}, fields : Nat]
  BY <1>1, <1>3
<1>5. HeadState(after) /\ Account(after) = Account(hd)
  BY <1>4 DEF HeadState, Account
<1>6. B = hd.bare => after = hd
  BY <1>1, <1>3
<1> QED
  BY <1>4, <1>5, <1>6 DEF B

LEMMA GoodLineEnd ==
    ASSUME GoodNow, LineEnd, ~flawed'
    PROVE  GoodNow'
<1> DEFINE q == ~Returned
<1>1. /\ phase = "line" /\ text' = Append(text, "LF") /\ Len(text) + 1 < Npos /\ line' = <<>>
      /\ phase' = "fields" /\ head' = [head EXCEPT !.bare = @ \/ q] /\ left' = left /\ body' = body
      /\ head.version # "1.0" \/ Ends(text) = {} \/ q = head.bare
      /\ ~ (q /\ head.version # "1.0")
  BY DEF LineEnd, Send, Goto, Flaw, Newer
<1>2. /\ HeadState(head) /\ text \in Seq(HttpLexemes) /\ body = <<>>
      /\ (text = line /\ AtFirst(line, head)) \/ \E c : text = c \o line /\ AtField(c, line, head)
  <2>1. phase = "line"
    BY <1>1
  <2> QED
    BY <2>1, GoodKinds DEF GoodNow
<1>3. Returned <=> Returns(line)
  BY ReturnedIs, Zenon
<1>4. "LF" \in HttpLexemes /\ q \in BOOLEAN
  BY Bytes, Zenon
<1> DEFINE hd == Barer(head, q)
<1>5. /\ HeadState(hd) /\ Account(hd) = Account(head) /\ hd.version = head.version
      /\ hd.hosts = head.hosts /\ hd.bare = (head.bare \/ q)
      /\ (head.bare \/ q) = head.bare => hd = head
  BY <1>2, <1>4, BarerIs
<1>6. head.bare \in BOOLEAN
  BY <1>2, AccountType, Zenon
<1>7. head' = hd
  BY <1>1 DEF Barer
<1> HIDE DEF hd, q
<1>8. AtFields(text \o <<"LF">>, <<>>, hd)
  <2>1. CASE text = line /\ AtFirst(line, head)
    <3>1. ~head.bare
      BY <2>1 DEF AtFirst
    <3>2. Returns(line) <=> ~hd.bare
      BY <1>3, <1>5, <3>1 DEF q
    <3>3. hd.bare => hd.version = "1.0"
      BY <1>1, <1>5, <3>1
    <3>4. MaxHeaderLine \in Nat \ {0}
      BY HttpAssumption
    <3>5. AtFields(line \o <<"LF">>, <<>>, hd)
      BY <1>2, <1>5, <2>1, <3>2, <3>3, <3>4, FirstEnds
    <3> QED
      BY <2>1, <3>5
  <2>2. CASE \E c : text = c \o line /\ AtField(c, line, head)
    <3>1. PICK c : text = c \o line /\ AtField(c, line, head)
      BY <2>2
    <3>2. PICK x, k, b : FieldAt(c, line, head, x, k, b)
      BY <3>1, Zenon DEF AtField
    <3>3. ClosedOk(c, x, head.bare, head.version, k) /\ FieldBody(x, k, b, head) /\ FieldLineIs(line, b, head.bare)
      BY <3>2, Zenon DEF FieldAt
    <3>4. line \in Seq(HttpLexemes)
      BY <3>3, FieldLines
    <3>5. c \in Seq(HttpLexemes) /\ (head.bare => head.version = "1.0") /\ Closed(c) /\ c # <<>>
      BY <3>3, Zenon DEF ClosedOk
    <3>6. Ends(text) # {}
      <4>1. Len(c) \in Nat /\ Len(c) # 0 /\ c[Len(c)] = "LF"
        BY <3>5 DEF Closed
      <4>2. Len(text) = Len(c) + Len(line) /\ Len(line) \in Nat /\ text[Len(c)] = c[Len(c)]
        BY <3>1, <3>4, <3>5, <4>1
      <4>3. Len(c) \in DOMAIN text
        BY <1>2, <4>1, <4>2
      <4> QED
        BY <4>1, <4>2, <4>3 DEF Ends
    <3>7. (head.bare \/ q) = head.bare /\ (q <=> head.bare)
      BY <1>1, <1>4, <1>6, <3>5, <3>6
    <3>8. hd = head /\ (Returns(line) <=> ~head.bare)
      BY <1>3, <1>5, <3>7 DEF q
    <3>9. AtFields((c \o line) \o <<"LF">>, <<>>, head)
      BY <1>2, <3>1, <3>8, FieldEnds, Zenon
    <3> QED
      BY <3>1, <3>8, <3>9, Zenon
  <2> QED
    BY <1>2, <2>1, <2>2
<1>9. Append(text, "LF") = text \o <<"LF">> /\ text \o <<"LF">> \in Seq(HttpLexemes)
  BY <1>2, <1>4, AppendIs, Zenon
<1>10. text \o <<"LF">> = (text \o <<"LF">>) \o <<>>
  BY <1>9
<1>11. HeadAt(Append(text, "LF"), "fields", hd, <<>>)
  BY <1>8, <1>9, <1>10, Zenon DEF HeadAt
<1>12. Good(Append(text, "LF"), "fields", hd, <<>>, left, <<>>)
  BY <1>1, <1>2, <1>4, <1>5, <1>11, GoodHead, Zenon
<1> QED
  BY <1>1, <1>2, <1>7, <1>12, Zenon DEF GoodNow

LEMMA GoodHeadReturn ==
    ASSUME GoodNow, HeadReturn
    PROVE  GoodNow'
<1>1. /\ phase = "fields" /\ line = <<>> /\ text' = Append(text, "CR") /\ Len(text) + 1 < Npos
      /\ line' = Append(line, "CR") /\ phase' = phase /\ head' = head /\ left' = left /\ body' = body
      /\ head.bare => head.version # "1.0"
  BY DEF HeadReturn, Send, Newer
<1>2. /\ HeadState(head) /\ text \in Seq(HttpLexemes) /\ body = <<>>
      /\ \E c : text = c \o line /\ AtFields(c, line, head)
  <2>1. phase = "fields"
    BY <1>1
  <2> QED
    BY <2>1, GoodKinds DEF GoodNow
<1>3. PICK c : text = c \o <<>> /\ AtFields(c, <<>>, head)
  BY <1>1, <1>2, Zenon
<1>4. c \in Seq(HttpLexemes) /\ (head.bare => head.version = "1.0")
  BY <1>3, Zenon DEF AtFields, ClosedOk
<1>5. text = c /\ ~head.bare
  BY <1>1, <1>3, <1>4
<1>6. AtFields(c, <<"CR">>, head)
  BY <1>3, <1>5, Zenon DEF AtFields
<1>7. "CR" \in HttpLexemes
  BY Bytes, Zenon
<1>8. line' = <<"CR">> /\ Append(text, "CR") = c \o <<"CR">>
  <2>1. Append(c, "CR") = c \o <<"CR">>
    BY <1>4, <1>7, AppendIs, Zenon
  <2> QED
    BY <1>1, <1>5, <2>1, FourLines
<1>9. HeadAt(Append(text, "CR"), "fields", head, <<"CR">>)
  BY <1>6, <1>8, Zenon DEF HeadAt
<1>10. Good(Append(text, "CR"), "fields", head, <<"CR">>, left, <<>>)
  BY <1>1, <1>2, <1>7, <1>9, GoodHead, Zenon
<1> QED
  BY <1>1, <1>2, <1>8, <1>10, Zenon DEF GoodNow

LEMMA RestStarts ==
    ASSUME NEW hd, HeadState(hd), NEW p, NEW n,
           n = (IF hd.coding = "chunked" THEN 0 ELSE Max({0, hd.length})),
           p = (IF hd.coding = "chunked" THEN "size" ELSE IF n > 0 THEN "body" ELSE "done")
    PROVE  RestAt(<<>>, p, hd, <<>>, n, <<>>)
<1>1. CASE hd.coding = "chunked"
  <2>1. n = 0 /\ p = "size"
    BY <1>1
  <2> QED
    BY <1>1, <2>1, SizeStarts, Zenon DEF RestAt, ChunkedAt
<1>2. CASE hd.coding # "chunked"
  <2>1. hd.coding = "none" /\ hd.length \in Sizes
    BY <1>2, AccountType
  <2> DEFINE m == hd.length
             need == Needed(hd)
  <2>2. n = Max({0, m}) /\ m \in Sizes
    BY <1>2, <2>1
  <2>3. need = IF m = -1 THEN 0 ELSE m
    BY DEF Needed
  <2>4. need \in Nat
    BY BodyType, Zenon
  <2> HIDE DEF m, need
  <2>5. n = need
    BY <2>2, <2>3, MaxNeeded
  <2>6. Len(<<>>) = 0 /\ <<>> \in Seq(HttpLexemes) /\ <<>> = <<>> \o <<>>
    OBVIOUS
  <2>7. SizedAt(<<>>, p, n, <<>>, need)
    <3>1. CASE n > 0
      <4>1. p = "body"
        BY <1>2, <3>1
      <4>2. Len(<<>>) + n = need
        BY <2>4, <2>5, <2>6
      <4> QED
        BY <2>4, <2>5, <2>6, <3>1, <4>1, <4>2, Zenon DEF SizedAt
    <3>2. CASE ~ (n > 0)
      <4>1. p \in {"done", "over"}
        BY <1>2, <3>2
      <4>2. Len(<<>>) = need
        BY <2>4, <2>5, <2>6, <3>2
      <4> QED
        BY <2>6, <4>1, <4>2, Zenon DEF SizedAt
    <3> QED
      BY <3>1, <3>2
  <2> QED
    BY <2>1, <2>7, Zenon DEF RestAt, need
<1> QED
  BY <1>1, <1>2

LEMMA GoodHeadEnd ==
    ASSUME GoodNow, HeadEnd, ~flawed'
    PROVE  GoodNow'
<1>1. /\ phase = "fields" /\ line \in {<<>>, <<"CR">>} /\ text' = Append(text, "LF") /\ Len(text) + 1 < Npos
      /\ line' = <<>> /\ head' = head /\ body' = body
  BY DEF HeadEnd, Send
<1>2. /\ head.version # "1.0" \/ (line = <<>>) = head.bare
      /\ ~ (head.version # "1.0" /\ (line = <<>> \/ head.hosts = 0))
  BY DEF HeadEnd, Flaw, Newer
<1>3. /\ left' = (IF head.coding = "chunked" THEN 0 ELSE Max({0, head.length}))
      /\ phase' = (IF head.coding = "chunked" THEN "size" ELSE IF left' > 0 THEN "body" ELSE "done")
  BY DEF HeadEnd, Goto
<1>4. /\ HeadState(head) /\ text \in Seq(HttpLexemes) /\ body = <<>>
      /\ \E c : text = c \o line /\ AtFields(c, line, head)
  <2>1. phase = "fields"
    BY <1>1
  <2> QED
    BY <2>1, GoodKinds DEF GoodNow
<1>5. PICK c : text = c \o line /\ AtFields(c, line, head)
  BY <1>4
<1>6. "LF" \in HttpLexemes
  BY Bytes, Zenon
<1>7. c \in Seq(HttpLexemes) /\ (head.bare => head.version = "1.0")
  BY <1>5, Zenon DEF AtFields, ClosedOk
<1> DEFINE s == Append(text, "LF")
<1>8. \E h, sep : FineHead(s, h, sep, head) /\ After(s, Len(h) + sep) = <<>>
  <2>1. CASE line = <<>>
    <3>1. head.bare
      BY <1>2, <2>1
    <3>2. text = c
      BY <1>5, <1>7, <2>1
    <3>3. AtFields(c, <<>>, head) /\ Len(c) + 1 < Npos
      BY <1>1, <1>5, <2>1, <3>2
    <3>4. \E h : FineHead(Append(c, "LF"), h, 2, head) /\ After(Append(c, "LF"), Len(h) + 2) = <<>>
      BY <1>4, <3>1, <3>3, BareHeadEnds, Zenon
    <3> QED
      BY <3>2, <3>4, Zenon
  <2>2. CASE line = <<"CR">>
    <3>1. line # <<>>
      BY <2>2
    <3>2. ~head.bare
      BY <1>2, <1>7, <3>1
    <3>3. head.version = "1.1" => head.hosts # 0
      BY <1>2
    <3>4. AtFields(c, <<"CR">>, head) /\ text = c \o <<"CR">> /\ Len(c \o <<"CR">>) + 1 < Npos
      BY <1>1, <1>5, <2>2
    <3>5. \E h : /\ FineHead(Append(c \o <<"CR">>, "LF"), h, 4, head)
                 /\ After(Append(c \o <<"CR">>, "LF"), Len(h) + 4) = <<>>
      BY <1>4, <3>2, <3>3, <3>4, FullHeadEnds, Zenon
    <3> QED
      BY <3>4, <3>5, Zenon
  <2> QED
    BY <1>1, <2>1, <2>2
<1>9. RestAt(<<>>, phase', head, <<>>, left', <<>>)
  BY <1>3, <1>4, RestStarts, Zenon
<1>10. BodyAt(s, phase', head, <<>>, left', <<>>)
  BY <1>8, <1>9, Zenon DEF BodyAt
<1>11. s \in Seq(HttpLexemes) /\ Len(s) < Npos
  BY <1>1, <1>4, <1>6, Longer, Zenon
<1>12. Good(s, phase', head, <<>>, left', <<>>)
  BY <1>4, <1>10, <1>11, Zenon DEF Good
<1> QED
  BY <1>1, <1>4, <1>12, Zenon DEF GoodNow

LEMMA GoodBodyByte ==
    ASSUME GoodNow, BodyByte
    PROVE  GoodNow'
<1>1. /\ phase \in {"body", "data"} /\ text' = Append(text, "x") /\ Len(text) + 1 < Npos
      /\ line' = Append(line, "x") /\ head' = head /\ body' = Append(body, "x") /\ left' = left - 1
      /\ phase' = AfterByte(phase, left)
  BY DEF BodyByte, Send, Goto, AfterByte
<1>2. "x" \in HttpLexemes /\ phase \notin {"start", "line", "fields"}
  BY <1>1, Bytes
<1>3. \A r \in Seq(HttpLexemes) : RestAt(r, phase, head, line, left, body) =>
         RestAt(Append(r, "x"), AfterByte(phase, left), head, Append(line, "x"), left - 1, Append(body, "x"))
  BY <1>1, RestByte, Zenon
<1>4. Good(Append(text, "x"), AfterByte(phase, left), head, Append(line, "x"), left - 1, Append(body, "x"))
  BY <1>1, <1>2, <1>3, GoodBody, Zenon DEF GoodNow
<1> QED
  BY <1>1, <1>4, Zenon DEF GoodNow

LEMMA GoodSizeDigit ==
    ASSUME GoodNow, NEW c \in DOMAIN Hex, SizeDigit(c), ~flawed'
    PROVE  GoodNow'
<1>1. /\ phase = "size" /\ text' = Append(text, c) /\ Len(text) + 1 < Npos
      /\ line' = (IF c = "LF" THEN <<>> ELSE Append(line, c)) /\ phase' = phase /\ head' = head /\ body' = body
      /\ left' = left * 16 + Hex[c] /\ ~ (left' > Npos) /\ ~Returned
  BY DEF SizeDigit, Send, Flaw
<1>2. c \in HttpLexemes /\ c # "LF" /\ phase \notin {"start", "line", "fields"}
  BY <1>1, LexemeKinds
<1>3. ~Returns(line) /\ ~ (left * 16 + Hex[c] > Npos)
  BY <1>1, ReturnedIs, Zenon
<1>4. \A r \in Seq(HttpLexemes) : RestAt(r, "size", head, line, left, body) =>
         RestAt(Append(r, c), "size", head, Append(line, c), left * 16 + Hex[c], body)
  BY <1>3, RestDigit, Zenon
<1>5. Good(Append(text, c), "size", head, Append(line, c), left * 16 + Hex[c], body)
  BY <1>1, <1>2, <1>4, GoodBody, Zenon DEF GoodNow
<1> QED
  BY <1>1, <1>2, <1>5, Zenon DEF GoodNow

LEMMA GoodExtension ==
    ASSUME GoodNow, NEW c \in {";", "x"}, Extension(c), ~flawed'
    PROVE  GoodNow'
<1>1. /\ phase = "size" /\ text' = Append(text, c) /\ Len(text) + 1 < Npos
      /\ line' = (IF c = "LF" THEN <<>> ELSE Append(line, c)) /\ phase' = "extension" /\ head' = head /\ body' = body
      /\ left' = left /\ line # <<>> /\ c = ";" /\ ~Returned
  BY DEF Extension, Send, Goto, Flaw
<1>2. ";" \in HttpLexemes /\ c # "LF" /\ phase \notin {"start", "line", "fields"}
  BY <1>1, Bytes
<1>3. ~Returns(line)
  BY <1>1, ReturnedIs, Zenon
<1>4. \A r \in Seq(HttpLexemes) : RestAt(r, "size", head, line, left, body) =>
         RestAt(Append(r, ";"), "extension", head, Append(line, ";"), left, body)
  BY <1>1, <1>3, RestExtension, Zenon
<1>5. Good(Append(text, ";"), "extension", head, Append(line, ";"), left, body)
  BY <1>1, <1>2, <1>4, GoodBody, Zenon DEF GoodNow
<1> QED
  BY <1>1, <1>2, <1>5, Zenon DEF GoodNow

LEMMA GoodChunkReturn ==
    ASSUME GoodNow, ChunkReturn, ~flawed'
    PROVE  GoodNow'
<1>1. /\ phase \in {"size", "extension", "chunk end", "trailer"} /\ text' = Append(text, "CR") /\ Len(text) + 1 < Npos
      /\ line' = Append(line, "CR") /\ phase' = phase /\ head' = head /\ body' = body
      /\ left' = left /\ ~ (phase = "size" /\ line = <<>>) /\ ~Returned
  BY DEF ChunkReturn, Send, Flaw
<1>2. "CR" \in HttpLexemes /\ phase \notin {"start", "line", "fields"}
  BY <1>1, Bytes
<1>3. ~Returns(line)
  BY <1>1, ReturnedIs, Zenon
<1>4. \A r \in Seq(HttpLexemes) : RestAt(r, phase, head, line, left, body) =>
         RestAt(Append(r, "CR"), phase, head, Append(line, "CR"), left, body)
  BY <1>1, <1>3, RestReturn, Zenon
<1>5. Good(Append(text, "CR"), phase, head, Append(line, "CR"), left, body)
  BY <1>1, <1>2, <1>4, GoodBody, Zenon DEF GoodNow
<1> QED
  BY <1>1, <1>5, Zenon DEF GoodNow

LEMMA GoodChunkLine ==
    ASSUME GoodNow, ChunkLine
    PROVE  GoodNow'
<1>1. /\ phase \in {"size", "extension", "chunk end", "trailer"} /\ text' = Append(text, "LF") /\ Len(text) + 1 < Npos
      /\ line' = <<>> /\ phase' = AfterLine(phase, line, left) /\ head' = head /\ body' = body
      /\ left' = left /\ Returned
  BY DEF ChunkLine, Send, Goto, AfterLine
<1>2. "LF" \in HttpLexemes /\ phase \notin {"start", "line", "fields"}
  BY <1>1, Bytes
<1>3. Returns(line)
  BY <1>1, ReturnedIs, Zenon
<1>4. \A r \in Seq(HttpLexemes) : RestAt(r, phase, head, line, left, body) =>
         RestAt(Append(r, "LF"), AfterLine(phase, line, left), head, <<>>, left, body)
  BY <1>1, <1>3, RestLine, Zenon
<1>5. Good(Append(text, "LF"), AfterLine(phase, line, left), head, <<>>, left, body)
  BY <1>1, <1>2, <1>4, GoodBody, Zenon DEF GoodNow
<1> QED
  BY <1>1, <1>5, Zenon DEF GoodNow

LEMMA GoodTrailerByte ==
    ASSUME GoodNow, TrailerByte
    PROVE  GoodNow'
<1>1. /\ phase = "trailer" /\ text' = Append(text, "x") /\ Len(text) + 1 < Npos
      /\ line' = Append(line, "x") /\ phase' = phase /\ head' = head /\ body' = body
      /\ left' = left /\ line = <<>>
  BY DEF TrailerByte, Send
<1>2. "x" \in HttpLexemes /\ phase \notin {"start", "line", "fields"}
  BY <1>1, Bytes
<1>4. \A r \in Seq(HttpLexemes) : RestAt(r, "trailer", head, line, left, body) =>
         RestAt(Append(r, "x"), "trailer", head, Append(line, "x"), left, body)
  BY <1>1, RestTrailer, Zenon
<1>5. Good(Append(text, "x"), "trailer", head, Append(line, "x"), left, body)
  BY <1>1, <1>2, <1>4, GoodBody, Zenon DEF GoodNow
<1> QED
  BY <1>1, <1>5, Zenon DEF GoodNow

LEMMA GoodNextRequest ==
    ASSUME GoodNow, NextRequest
    PROVE  GoodNow'
<1>1. PICK c \in {"1.1", "LF"} : Send(c)
  BY DEF NextRequest
<1>2. /\ phase = "done" /\ text' = Append(text, c) /\ Len(text) + 1 < Npos
      /\ phase' = "over" /\ head' = head /\ body' = body /\ left' = left
  BY <1>1 DEF NextRequest, Send, Goto
<1>3. c \in HttpLexemes /\ phase \notin {"start", "line", "fields"}
  BY <1>2, LexemeKinds
<1>4. \A r \in Seq(HttpLexemes) : RestAt(r, "done", head, line, left, body) =>
         RestAt(Append(r, c), "over", head, line', left, body)
  BY <1>3, RestOver, Zenon
<1>5. Good(Append(text, c), "over", head, line', left, body)
  BY <1>2, <1>3, <1>4, GoodBody, Zenon DEF GoodNow
<1> QED
  BY <1>2, <1>5, Zenon DEF GoodNow

\* While the client breaks no rule and no line is exactly at the limit, the
\* account is right.
HttpGood == ~flawed /\ ~edge => GoodNow

LEMMA GoodStarts == HttpInit => HttpGood
<1> SUFFICES ASSUME HttpInit PROVE GoodNow
  BY DEF HttpGood
<1> DEFINE hd == [version |-> "1.1", bare |-> FALSE, hosts |-> 0, length |-> -1, coding |-> "none",
                  fields |-> 0]
<1>1. text = <<>> /\ phase = "start" /\ line = <<>> /\ body = <<>> /\ head = hd
  BY DEF HttpInit
<1>2. hd \in [version : {"1.1", "1.0"}, bare : BOOLEAN, hosts : {0, 1}, length : Sizes,
              coding : {"none", "chunked"}, fields : Nat]
  BY DEF Sizes
<1>3. hd.fields <= MaxHeaders /\ (hd.coding = "chunked" => hd.length = -1)
  BY HttpAssumption
<1>4. HeadState(hd)
  BY <1>2, <1>3, Zenon DEF HeadState
<1>5. Account(hd) = NoScan /\ hd.hosts = 0 /\ ~hd.bare
  BY DEF Account, NoScan
<1>6. HeadAt(<<>>, "start", hd, <<>>)
  BY <1>5, Zenon DEF HeadAt
<1>7. <<>> \in Seq(HttpLexemes) /\ Len(<<>>) < Npos
  BY HttpAssumption
<1> HIDE DEF hd
<1>8. Good(<<>>, "start", hd, <<>>, left, <<>>)
  BY <1>4, <1>6, <1>7, Zenon DEF Good
<1> QED
  BY <1>1, <1>8, Zenon DEF GoodNow

\* A broken rule stays broken.
LEMMA StaysBroken == HttpRead => (flawed => flawed') /\ (edge => edge')
<1> SUFFICES ASSUME HttpRead PROVE (flawed => flawed') /\ (edge => edge')
  OBVIOUS
<1> USE DEF Flaw
<1>1. CASE \E l \in {"1.1", "1.0", "short"} : RequestLine(l)
  <2>1. PICK l \in {"1.1", "1.0", "short"} : RequestLine(l)
    BY <1>1
  <2>2. (flawed => flawed') /\ edge' = edge
    BY <2>1 DEF RequestLine
  <2> QED
    BY <2>2
<1>2. CASE \E l \in Fields \cup {"fold", "nocolon"} : FieldLine(l)
  <2>1. PICK l \in Fields \cup {"fold", "nocolon"} : FieldLine(l)
    BY <1>2
  <2>2. (flawed => flawed') /\ edge' = edge
    BY <2>1 DEF FieldLine
  <2> QED
    BY <2>2
<1>3. CASE LineByte
  BY <1>3, Zenon DEF LineByte
<1>4. CASE LineReturn
  BY <1>4, Zenon DEF LineReturn
<1>5. CASE LineEnd
  BY <1>5, Zenon DEF LineEnd
<1>6. CASE HeadReturn
  BY <1>6, Zenon DEF HeadReturn
<1>7. CASE HeadEnd
  BY <1>7, Zenon DEF HeadEnd
<1>8. CASE BodyByte
  BY <1>8, Zenon DEF BodyByte
<1>9. CASE \E d \in DOMAIN Hex : SizeDigit(d)
  <2>1. PICK d \in DOMAIN Hex : SizeDigit(d)
    BY <1>9
  <2>2. (flawed => flawed') /\ edge' = edge
    BY <2>1 DEF SizeDigit
  <2> QED
    BY <2>2
<1>10. CASE \E l \in {";", "x"} : Extension(l)
  <2>1. PICK l \in {";", "x"} : Extension(l)
    BY <1>10
  <2>2. (flawed => flawed') /\ edge' = edge
    BY <2>1 DEF Extension
  <2> QED
    BY <2>2
<1>11. CASE ChunkReturn
  BY <1>11, Zenon DEF ChunkReturn
<1>12. CASE ChunkLine
  BY <1>12, Zenon DEF ChunkLine
<1>13. CASE ChunkJunk
  BY <1>13, Zenon DEF ChunkJunk
<1>14. CASE TrailerByte
  BY <1>14, Zenon DEF TrailerByte
<1>15. CASE NextRequest
  BY <1>15, Zenon DEF NextRequest
<1> QED
  BY <1>1, <1>2, <1>3, <1>4, <1>5, <1>6, <1>7, <1>8, <1>9, <1>10, <1>11, <1>12, <1>13, <1>14, <1>15, Zenon DEF HttpRead

LEMMA GoodStep == HttpGood /\ [HttpRead]_httpVars => HttpGood'
<1> SUFFICES ASSUME HttpGood, [HttpRead]_httpVars, ~flawed', ~edge' PROVE GoodNow'
  BY DEF HttpGood
<1>1. CASE UNCHANGED httpVars
  <2>1. GoodNow
    BY <1>1 DEF HttpGood, httpVars
  <2> QED
    BY <1>1, <2>1 DEF GoodNow, httpVars
<1>2. CASE HttpRead
  <2>1. GoodNow
    BY <1>2, StaysBroken, Zenon DEF HttpGood
  <2>2. ~ChunkJunk
    BY Zenon DEF ChunkJunk, Flaw
  <2>3. CASE \E l \in {"1.1", "1.0", "short"} : RequestLine(l)
    BY <2>1, <2>3, GoodRequestLine, Zenon
  <2>4. CASE \E l \in Fields \cup {"fold", "nocolon"} : FieldLine(l)
    BY <2>1, <2>4, GoodFieldLine, Zenon
  <2>5. CASE LineByte \/ LineReturn \/ LineEnd \/ HeadReturn \/ HeadEnd
    BY <2>1, <2>5, GoodLineByte, GoodLineReturn, GoodLineEnd, GoodHeadReturn, GoodHeadEnd, Zenon
  <2>6. CASE \E d \in DOMAIN Hex : SizeDigit(d)
    BY <2>1, <2>6, GoodSizeDigit, Zenon
  <2>7. CASE \E l \in {";", "x"} : Extension(l)
    BY <2>1, <2>7, GoodExtension, Zenon
  <2>8. CASE BodyByte \/ ChunkReturn \/ ChunkLine \/ TrailerByte \/ NextRequest
    BY <2>1, <2>8, GoodBodyByte, GoodChunkReturn, GoodChunkLine, GoodTrailerByte, GoodNextRequest, Zenon
  <2> QED
    BY <1>2, <2>2, <2>3, <2>4, <2>5, <2>6, <2>7, <2>8, Zenon DEF HttpRead
<1> QED
  BY <1>1, <1>2

LEMMA GoodHolds == HttpSpec => []HttpGood
BY GoodStarts, GoodStep, PTL DEF HttpSpec

\* No prefix of a request that breaks no rule is rejected, of whatever form and
\* length, wherever the network cuts it.
THEOREM NoPrefixRejected == HttpSpec => []NoFalseAlarm
<1>1. HttpGood => NoFalseAlarm
  <2> SUFFICES ASSUME HttpGood, ~edge, Inspect(text).framing \in {"bad", "many", "unsupported"}, ~flawed
               PROVE  FALSE
    BY DEF NoFalseAlarm
  <2>1. Says(text, phase, body)
    BY GoodSays, Zenon DEF HttpGood, GoodNow
  <2> QED
    BY <2>1 DEF Says
<1> QED
  BY <1>1, GoodHolds, PTL

-----------------------------------------------------------------------------
(* Requests no continuation can save *)

\* No text that begins so is a request that parse accepts.
Doomed(s) == \A a \in Seq(HttpLexemes) : Begins(a, s) => ~HttpParse(a).ok

LEMMA DoomedStays ==
    ASSUME NEW s \in Seq(HttpLexemes), NEW c \in HttpLexemes, Doomed(s)
    PROVE  Doomed(Append(s, c))
<1>1. Append(s, c) = s \o <<c>> /\ <<c>> \in Seq(HttpLexemes)
  BY AppendIs, Zenon
<1>2. \A a : Begins(a, Append(s, c)) => Begins(a, s)
  BY <1>1, BeginsIs, Zenon
<1> QED
  BY <1>2, Zenon DEF Doomed

\* What a text that parse accepts has.
Parsed(a, h, sep) ==
    /\ a \in Seq(HttpLexemes) /\ h \in Seq(HttpLexemes) /\ Len(h) \in Nat /\ Len(a) \in Nat
    /\ HeadBounds(a).end = Len(h) /\ HeadBounds(a).separator = sep /\ Len(h) # Npos
    /\ Begins(a, h) /\ Len(h) + sep <= Len(a)
    /\ ~Dead(ScanHead(h)) /\ LineEndingsOk(h, sep)
    /\ WithoutCR(FirstLine(h)) \in {<<"1.1">>, <<"1.0">>}
    /\ \A p \in HeaderLines(h) : LineUpTo(h, p)[1] \in Fields
    /\ HostsOk(h)
    /\ ScanHead(h).coding = "chunked" => ScanChunks[After(a, Len(h) + sep)].state = "complete"

\* Where its head ends.
EndsHead(a, n, sep) ==
    \/ sep = 2 /\ a[n + 1] = "LF" /\ a[n + 2] = "LF"
    \/ sep = 4 /\ a[n + 1] = "CR" /\ a[n + 2] = "LF" /\ a[n + 3] = "CR" /\ a[n + 4] = "LF"

LEMMA EndOfHead ==
    ASSUME NEW a \in Seq(HttpLexemes), HeadBounds(a).end # Npos
    PROVE  /\ HeadBounds(a).end \in Nat /\ Len(a) \in Nat
           /\ HeadBounds(a).end + HeadBounds(a).separator <= Len(a)
           /\ EndsHead(a, HeadBounds(a).end, HeadBounds(a).separator)
<1> DEFINE lf == Find(a, Blank2)
           crlf == Find(a, Blank4)
<1>1. /\ lf \in Nat /\ crlf \in Nat /\ Len(a) \in Nat
      /\ lf # 0 => lf + 2 <= Len(a) + 1 /\ At(a, lf, Blank2)
      /\ crlf # 0 => crlf + 4 <= Len(a) + 1 /\ At(a, crlf, Blank4)
  BY FindIs, Patterns
<1>2. \/ lf # 0 /\ HeadBounds(a) = [end |-> lf - 1, separator |-> 2]
      \/ crlf # 0 /\ HeadBounds(a) = [end |-> crlf - 1, separator |-> 4]
  BY <1>1 DEF HeadBounds, Blank2, Blank4
<1> HIDE DEF lf, crlf
<1>3. CASE lf # 0 /\ HeadBounds(a) = [end |-> lf - 1, separator |-> 2]
  <2>1. 1 \in DOMAIN Blank2 /\ 2 \in DOMAIN Blank2 /\ Blank2[1] = "LF" /\ Blank2[2] = "LF"
    BY DEF Blank2
  <2>2. a[lf + 1 - 1] = "LF" /\ a[lf + 2 - 1] = "LF"
    BY <1>1, <1>3, <2>1, Zenon DEF At
  <2> DEFINE n == lf - 1
  <2>3. n \in Nat /\ lf + 1 - 1 = n + 1 /\ lf + 2 - 1 = n + 2 /\ n + 2 <= Len(a)
    BY <1>1, <1>3
  <2> HIDE DEF n
  <2>4. EndsHead(a, n, 2)
    BY <2>2, <2>3, Zenon DEF EndsHead
  <2>5. HeadBounds(a).end = n /\ HeadBounds(a).separator = 2
    BY <1>3 DEF n
  <2> QED
    BY <1>1, <2>3, <2>4, <2>5, Zenon
<1>4. CASE crlf # 0 /\ HeadBounds(a) = [end |-> crlf - 1, separator |-> 4]
  <2>1. /\ 1 \in DOMAIN Blank4 /\ 2 \in DOMAIN Blank4 /\ 3 \in DOMAIN Blank4 /\ 4 \in DOMAIN Blank4
        /\ Blank4[1] = "CR" /\ Blank4[2] = "LF" /\ Blank4[3] = "CR" /\ Blank4[4] = "LF"
    BY DEF Blank4
  <2>2. a[crlf + 1 - 1] = "CR" /\ a[crlf + 2 - 1] = "LF" /\ a[crlf + 3 - 1] = "CR" /\ a[crlf + 4 - 1] = "LF"
    BY <1>1, <1>4, <2>1, Zenon DEF At
  <2> DEFINE n == crlf - 1
  <2>3. /\ n \in Nat /\ crlf + 1 - 1 = n + 1 /\ crlf + 2 - 1 = n + 2 /\ crlf + 3 - 1 = n + 3
        /\ crlf + 4 - 1 = n + 4 /\ n + 4 <= Len(a)
    BY <1>1, <1>4
  <2> HIDE DEF n
  <2>4. EndsHead(a, n, 4)
    BY <2>2, <2>3, Zenon DEF EndsHead
  <2>5. HeadBounds(a).end = n /\ HeadBounds(a).separator = 4
    BY <1>4 DEF n
  <2> QED
    BY <1>1, <2>3, <2>4, <2>5, Zenon
<1> QED
  BY <1>2, <1>3, <1>4

LEMMA PrefixIs ==
    ASSUME NEW a \in Seq(HttpLexemes), NEW n \in Nat, n <= Len(a)
    PROVE  /\ SubSeq(a, 1, n) \in Seq(HttpLexemes) /\ Len(SubSeq(a, 1, n)) = n
           /\ Begins(a, SubSeq(a, 1, n))
<1>1. /\ SubSeq(a, 0 + 1, n) \in Seq(HttpLexemes) /\ Len(SubSeq(a, 0 + 1, n)) = n - 0
      /\ \A i \in 1 .. n - 0 : SubSeq(a, 0 + 1, n)[i] = a[0 + i]
  <2>1. 0 \in Nat /\ 0 <= n
    OBVIOUS
  <2> QED
    BY <2>1, Stretch
<1>2. 0 + 1 = 1 /\ n - 0 = n /\ \A i \in 1 .. n : 0 + i = i
  OBVIOUS
<1> DEFINE w == SubSeq(a, 1, n)
<1>3. w \in Seq(HttpLexemes) /\ Len(w) = n /\ \A i \in 1 .. n : w[i] = a[i]
  BY <1>1, <1>2
<1> HIDE DEF w
<1>4. Begins(a, w)
  BY <1>3, Zenon DEF Begins
<1> QED
  BY <1>3, <1>4, Zenon DEF w

LEMMA ParsedIs ==
    ASSUME NEW a \in Seq(HttpLexemes), HttpParse(a).ok
    PROVE  \E h, sep : Parsed(a, h, sep)
<1> DEFINE n == HeadBounds(a).end
           sep == HeadBounds(a).separator
           h == SubSeq(a, 1, n)
           scan == ScanHead(h)
<1>1. HttpParse(a) # Unparsed
  BY DEF Unparsed
<1>2. /\ n # Npos /\ ~Dead(scan) /\ LineEndingsOk(h, sep)
      /\ WithoutCR(FirstLine(h)) \in {<<"1.1">>, <<"1.0">>}
      /\ \A p \in HeaderLines(h) : LineUpTo(h, p)[1] \in Fields
      /\ HostsOk(h)
      /\ scan.coding = "chunked" => ScanChunks[After(a, n + sep)].state = "complete"
  BY <1>1, Zenon DEF HttpParse, ScanChunked, Dead
<1>3. n \in Nat /\ n + sep <= Len(a) /\ Len(a) \in Nat /\ sep \in {2, 4}
  BY <1>2, EndOfHead DEF EndsHead
<1> HIDE DEF n, sep
<1>4. n <= Len(a)
  BY <1>3
<1>5. h \in Seq(HttpLexemes) /\ Len(h) = n /\ Begins(a, h)
  BY <1>3, <1>4, PrefixIs
<1> HIDE DEF h
<1>6. Parsed(a, h, sep)
  BY <1>2, <1>3, <1>5, Zenon DEF Parsed, n, sep
<1> QED
  BY <1>6

LEMMA ParsedEnds ==
    ASSUME NEW a, NEW h, NEW sep, Parsed(a, h, sep)
    PROVE  EndsHead(a, Len(h), sep) /\ sep \in {2, 4} /\ Len(h) + sep <= Len(a)
<1>1. a \in Seq(HttpLexemes) /\ HeadBounds(a).end = Len(h) /\ HeadBounds(a).separator = sep
      /\ Len(h) + sep <= Len(a) /\ Len(h) \in Nat /\ Len(a) \in Nat
  BY Zenon DEF Parsed
<1>2. HeadBounds(a).end # Npos
  BY Zenon DEF Parsed
<1> QED
  BY <1>1, <1>2, EndOfHead DEF EndsHead

\* No terminator lies inside the lines of a head.
LEMMA EndsBeyond ==
    ASSUME NEW a, NEW h, NEW sep, Parsed(a, h, sep), NEW s \in Seq(HttpLexemes), Begins(a, s), NoneBlank(s)
    PROVE  Len(s) < Len(h) + sep
<1> DEFINE n == Len(h)
           m == Len(s)
<1>1. n \in Nat /\ m \in Nat /\ EndsHead(a, n, sep) /\ sep \in {2, 4}
  BY ParsedEnds, LenProperties, Zenon DEF Parsed
<1>2. \A i \in 1 .. m : a[i] = s[i]
  BY Zenon DEF Begins
<1>3. Find(s, Blank2) = 0 /\ Find(s, Blank4) = 0
  BY NoTerminator
<1> HIDE DEF n, m
<1>4. SUFFICES ASSUME n + sep <= m PROVE FALSE
  BY <1>1 DEF n, m
<1> DEFINE p == n + 1
<1>5. p \in Nat /\ p > 0 /\ n + 1 \in 1 .. m /\ n + 2 \in 1 .. m
  BY <1>1, <1>4
<1>6. CASE sep = 2
  <2>1. s[n + 1] = "LF" /\ s[n + 2] = "LF"
    BY <1>1, <1>2, <1>5, <1>6 DEF EndsHead
  <2>2. p + 1 - 1 = n + 1 /\ p + 2 - 1 = n + 2 /\ p + 2 <= m + 1
    BY <1>1, <1>4, <1>6
  <2>3. DOMAIN Blank2 = {1, 2} /\ Blank2[1] = "LF" /\ Blank2[2] = "LF"
    BY DEF Blank2
  <2> HIDE DEF p
  <2>4. At(s, p, Blank2)
    BY <2>1, <2>2, <2>3, Zenon DEF At
  <2>5. p + Len(Blank2) <= Len(s) + 1
    BY <2>2, Patterns DEF m
  <2> QED
    BY <1>3, <1>5, <2>4, <2>5, FindIs, Patterns, Zenon
<1>7. CASE sep = 4
  <2>1. n + 3 \in 1 .. m /\ n + 4 \in 1 .. m
    BY <1>1, <1>4, <1>7
  <2>2. s[n + 1] = "CR" /\ s[n + 2] = "LF" /\ s[n + 3] = "CR" /\ s[n + 4] = "LF"
    BY <1>1, <1>2, <1>5, <1>7, <2>1 DEF EndsHead
  <2>3. p + 1 - 1 = n + 1 /\ p + 2 - 1 = n + 2 /\ p + 3 - 1 = n + 3 /\ p + 4 - 1 = n + 4 /\ p + 4 <= m + 1
    BY <1>1, <1>4, <1>7
  <2>4. DOMAIN Blank4 = {1, 2, 3, 4} /\ Blank4[1] = "CR" /\ Blank4[2] = "LF" /\ Blank4[3] = "CR" /\ Blank4[4] = "LF"
    BY DEF Blank4
  <2> HIDE DEF p
  <2>5. At(s, p, Blank4)
    BY <2>2, <2>3, <2>4, Zenon DEF At
  <2>6. p + Len(Blank4) <= Len(s) + 1
    BY <2>3, Patterns DEF m
  <2> QED
    BY <1>3, <1>5, <2>5, <2>6, FindIs, Patterns, Zenon
<1> QED
  BY <1>1, <1>6, <1>7

\* A head holds all of a line that has begun.
LEMMA HeadCovers ==
    ASSUME NEW a, NEW h, NEW sep, Parsed(a, h, sep), NEW s \in Seq(HttpLexemes), Begins(a, s), NoneBlank(s),
           s # <<>>, s[Len(s)] \notin {"CR", "LF"}
    PROVE  Begins(h, s)
<1> DEFINE n == Len(h)
           m == Len(s)
<1>1. /\ n \in Nat /\ m \in Nat /\ EndsHead(a, n, sep) /\ sep \in {2, 4} /\ m < n + sep
      /\ Begins(a, h)
  BY EndsBeyond, ParsedEnds, LenProperties, Zenon DEF Parsed
<1>2. m # 0 /\ m \in 1 .. m
  <2>1. Len(s) # 0 /\ Len(s) \in Nat
    BY EmptySeq, LenProperties
  <2> QED
    BY <2>1
<1>3. a[m] \notin {"CR", "LF"}
  BY <1>2, Zenon DEF Begins
<1> HIDE DEF n, m
<1>4. m <= n
  <2>1. SUFFICES ASSUME n < m PROVE FALSE
    BY <1>1
  <2>2. m = n + 1 \/ m = n + 2 \/ m = n + 3
    BY <1>1, <2>1
  <2> QED
    BY <1>1, <1>3, <2>2 DEF EndsHead
<1>5. \A i \in 1 .. m : h[i] = s[i]
  <2>1. SUFFICES ASSUME NEW i \in 1 .. m PROVE h[i] = s[i]
    OBVIOUS
  <2>2. i \in 1 .. n
    BY <1>1, <1>4
  <2> QED
    BY <1>1, <2>2, Zenon DEF Begins, n, m
<1> QED
  BY <1>4, <1>5, Zenon DEF Begins, n, m

\* The request line is not one the server knows.
LEMMA DoomedFirst ==
    ASSUME NEW l \in Seq(HttpLexemes), InLine(l), l # <<>>, l[Len(l)] # "CR",
           \A v \in {"1.1", "1.0"} : ~Begins(<<v>>, l)
    PROVE  Doomed(l)
<1> SUFFICES ASSUME NEW a \in Seq(HttpLexemes), Begins(a, l), HttpParse(a).ok PROVE FALSE
  BY DEF Doomed
<1>1. PICK h, sep : Parsed(a, h, sep)
  BY ParsedIs
<1>2. Len(l) \in 1 .. Len(l)
  <2>1. Len(l) # 0 /\ Len(l) \in Nat
    BY EmptySeq, LenProperties
  <2> QED
    BY <2>1
<1>3. l[Len(l)] # "LF" /\ NoneBlank(l)
  <2>1. Ends(l) = {}
    BY LenProperties DEF InLine, Without, Ends
  <2> QED
    BY <1>2, <2>1, Zenon DEF InLine, Without, NoneBlank
<1>4. Begins(h, l) /\ h \in Seq(HttpLexemes)
  BY <1>1, <1>3, HeadCovers, Zenon DEF Parsed
<1>5. Begins(FirstLine(h), l) /\ FirstLine(h) \in Seq(HttpLexemes)
  BY <1>4, FirstGrows
<1>6. Begins(WithoutCR(FirstLine(h)), l)
  BY <1>5, WithoutReturn
<1>7. WithoutCR(FirstLine(h)) \in {<<"1.1">>, <<"1.0">>}
  BY <1>1, Zenon DEF Parsed
<1> QED
  BY <1>6, <1>7, Zenon

\* An open line behind complete ones leaves no room for a terminator.
LEMMA StillOpen ==
    ASSUME NEW c \in Seq(HttpLexemes), NEW l \in Seq(HttpLexemes), Closed(c), InLine(l), NoneBlank(c)
    PROVE  /\ NoneBlank(c \o l) /\ c \o l \in Seq(HttpLexemes)
           /\ l # <<>> => c \o l # <<>> /\ (c \o l)[Len(c \o l)] = l[Len(l)] /\ l[Len(l)] # "LF"
<1> DEFINE t == c \o l
           u == t \o <<"LF">>
<1>1. OneLineMore(c, l, t, u)
  BY LinesGrow
<1> HIDE DEF u
<1>2. NoneBlank(t) /\ t \in Seq(HttpLexemes)
  BY <1>1, Zenon DEF OneLineMore, NoneBlank
<1>3. ASSUME l # <<>> PROVE t # <<>> /\ t[Len(t)] = l[Len(l)] /\ l[Len(l)] # "LF"
  <2>1. Len(l) # 0 /\ Len(l) \in Nat
    BY <1>3, EmptySeq, LenProperties
  <2>2. t # <<>> /\ Last(t) = l[Len(l)]
    BY <1>3, LastOfConcat
  <2>3. Len(l) \in 1 .. Len(l)
    BY <2>1
  <2> QED
    BY <2>2, <2>3, Zenon DEF Last, InLine, Without
<1> QED
  BY <1>2, <1>3

LEMMA OpenCovers ==
    ASSUME NEW c \in Seq(HttpLexemes), NEW l \in Seq(HttpLexemes), Closed(c), InLine(l), NoneBlank(c),
           l # <<>>, l[Len(l)] # "CR", NEW a, NEW h, NEW sep, Parsed(a, h, sep), Begins(a, c \o l)
    PROVE  Begins(h, c \o l) /\ h \in Seq(HttpLexemes)
<1>1. /\ NoneBlank(c \o l) /\ c \o l \in Seq(HttpLexemes) /\ c \o l # <<>>
      /\ (c \o l)[Len(c \o l)] \notin {"CR", "LF"}
  BY StillOpen
<1> QED
  BY <1>1, HeadCovers, Zenon DEF Parsed

\* scan_head refuses every line that begins so.
LEMMA DoomedLine ==
    ASSUME NEW c \in Seq(HttpLexemes), NEW l \in Seq(HttpLexemes), Closed(c), c # <<>>, InLine(l), NoneBlank(c),
           l # <<>>, l[Len(l)] # "CR", NEW x, Known(c, x),
           \A r \in Seq(HttpLexemes) : Begins(r, l) => Dead(ScanLine(x, r))
    PROVE  Doomed(c \o l)
<1> SUFFICES ASSUME NEW a \in Seq(HttpLexemes), Begins(a, c \o l), HttpParse(a).ok PROVE FALSE
  BY DEF Doomed
<1>1. PICK h, sep : Parsed(a, h, sep)
  BY ParsedIs
<1>2. Begins(h, c \o l) /\ h \in Seq(HttpLexemes)
  BY <1>1, OpenCovers, Zenon
<1>3. Dead(ScanHead(h))
  BY <1>2, DeadLine
<1> QED
  BY <1>1, <1>3, Zenon DEF Parsed

\* A field that has begun is one of the lines that parse reads.
LEMMA FieldIsRead ==
    ASSUME NEW c \in Seq(HttpLexemes), Closed(c), c # <<>>, NoneBlank(c), NEW x, Known(c, x),
           NEW f \in Fields \cup {"fold", "nocolon"}, NEW a, NEW h, NEW sep, Parsed(a, h, sep), Begins(a, c \o <<f>>)
    PROVE  \E p \in HeaderLines(h) : p \in Nat /\ p > Len(c) /\ LineUpTo(h, p)[1] = f
<1>1. /\ <<f>> \in Seq(HttpLexemes) /\ InLine(<<f>>) /\ <<f>> # <<>> /\ <<f>>[Len(<<f>>)] # "CR"
      /\ Len(<<f>>) = 1
  <2>1. f \in HttpLexemes /\ f # "LF" /\ f # "CR"
    BY LexemeKinds
  <2>2. <<f>> \in Seq(HttpLexemes) /\ <<f>> # <<>> /\ Len(<<f>>) = 1 /\ <<f>>[1] = f
    BY <2>1
  <2> QED
    BY <2>1, <2>2, WithoutOne, Zenon DEF InLine
<1>2. Begins(h, c \o <<f>>) /\ h \in Seq(HttpLexemes)
  BY <1>1, OpenCovers
<1>3. PICK p : ScannedLine(h, c, <<f>>, x, p)
  BY <1>1, <1>2, ScanAtLine
<1>4. /\ p \in Nat /\ p > Len(c) + 1 /\ p \in HeaderEnds(h) /\ LineUpTo(h, p) \in Seq(HttpLexemes)
      /\ Begins(LineUpTo(h, p), <<f>>)
  BY <1>1, <1>3 DEF ScannedLine
<1>5. WithoutCR(LineUpTo(h, p)) # <<>> /\ LineUpTo(h, p)[1] = f
  BY <1>4, FieldFirst
<1>6. p > Len(c)
  BY <1>4, LenProperties
<1> QED
  BY <1>4, <1>5, <1>6 DEF HeaderLines

LEMMA DoomedName ==
    ASSUME NEW c \in Seq(HttpLexemes), Closed(c), c # <<>>, NoneBlank(c), NEW x, Known(c, x)
    PROVE  Doomed(c \o <<"nocolon">>)
<1> SUFFICES ASSUME NEW a \in Seq(HttpLexemes), Begins(a, c \o <<"nocolon">>), HttpParse(a).ok PROVE FALSE
  BY DEF Doomed
<1>1. PICK h, sep : Parsed(a, h, sep)
  BY ParsedIs
<1>2. PICK p \in HeaderLines(h) : LineUpTo(h, p)[1] = "nocolon"
  BY <1>1, FieldIsRead
<1>3. LineUpTo(h, p)[1] \in Fields
  BY <1>1, Zenon DEF Parsed
<1> QED
  BY <1>2, <1>3 DEF Fields, Lengths, Codings

LEMMA LineType ==
    ASSUME NEW c \in Seq(HttpLexemes), NEW p \in Ends(c)
    PROVE  LineUpTo(c, p) \in Seq(HttpLexemes)
<1>1. p \in Nat /\ p > 0 /\ p <= Len(c) /\ Len(c) \in Nat
  BY LeastLine
<1>2. PICK m \in Nat : m < p /\ (m = 0 \/ m \in Ends(c)) /\ \A q \in Ends(c) : m < q => p <= q
  BY <1>1, LineBegins
<1>3. LineUpTo(c, p) = SubSeq(c, m + 1, p - 1)
  BY <1>1, <1>2, LineIs
<1>4. p - 1 \in Nat /\ m <= p - 1 /\ p - 1 <= Len(c)
  BY <1>1, <1>2
<1> QED
  BY <1>2, <1>3, <1>4, Stretch

\* A second Host.
LEMMA DoomedHost ==
    ASSUME NEW c, NEW x, NEW bare, NEW version, ClosedOk(c, x, bare, version, 1)
    PROVE  Doomed(c \o <<"Host">>)
<1> SUFFICES ASSUME NEW a \in Seq(HttpLexemes), Begins(a, c \o <<"Host">>), HttpParse(a).ok PROVE FALSE
  BY DEF Doomed
<1>1. /\ c \in Seq(HttpLexemes) /\ Closed(c) /\ c # <<>> /\ NoneBlank(c) /\ Known(c, x)
      /\ Counts(HostEnds(c), 1)
  BY Zenon DEF ClosedOk
<1>2. PICK h, sep : Parsed(a, h, sep)
  BY ParsedIs
<1>3. PICK p \in HeaderLines(h) : p \in Nat /\ p > Len(c) /\ LineUpTo(h, p)[1] = "Host"
  <2>1. "Host" \in Fields \cup {"fold", "nocolon"}
    BY DEF Fields
  <2> QED
    BY <1>1, <1>2, <2>1, FieldIsRead
<1>4. PICK q : q \in HostEnds(c)
  BY <1>1 DEF Counts
<1>5. q \in HeaderEnds(c) /\ q \in Ends(c) /\ LineUpTo(c, q)[1] = "Host" /\ q # Min(LineEnds(c))
  BY <1>4 DEF HostEnds, ClosedHeaders, HeaderEnds
<1>6. Begins(h, c) /\ h \in Seq(HttpLexemes)
  <2>1. <<"Host">> \in Seq(HttpLexemes) /\ InLine(<<"Host">>) /\ <<"Host">> # <<>>
        /\ <<"Host">>[Len(<<"Host">>)] # "CR"
    <3>1. "Host" \in HttpLexemes
      BY DEF HttpLexemes, Fields
    <3>2. <<"Host">> \in Seq(HttpLexemes) /\ <<"Host">> # <<>> /\ Len(<<"Host">>) = 1 /\ <<"Host">>[1] = "Host"
      BY <3>1
    <3> QED
      BY <3>2, WithoutOne, Zenon DEF InLine
  <2>2. Begins(h, c \o <<"Host">>) /\ h \in Seq(HttpLexemes)
    BY <1>1, <1>2, <2>1, OpenCovers
  <2> QED
    BY <1>1, <2>1, <2>2, BeginsIs, Zenon
<1>7. q \in Ends(h) /\ LineUpTo(h, q) = LineUpTo(c, q) /\ Min(LineEnds(h)) = Min(LineEnds(c))
  BY <1>1, <1>5, <1>6, LinesStay, FirstStays
<1>8. WithoutCR(LineUpTo(h, q)) # <<>>
  <2>1. LineUpTo(c, q) # <<>> /\ LineUpTo(c, q) # <<"CR">>
    BY <1>1, <1>5, Zenon DEF NoneBlank
  <2>2. LineUpTo(c, q) \in Seq(HttpLexemes)
    BY <1>1, <1>5, LineType
  <2> QED
    BY <1>7, <2>1, <2>2, NoneLeft
<1>9. q \in Hosts(h) /\ p \in Hosts(h)
  BY <1>3, <1>5, <1>7, <1>8 DEF Hosts, HeaderLines, HeaderEnds, LineEnds
<1>10. q # p
  <2>1. q <= Len(c) /\ Len(c) \in Nat /\ q \in Nat
    BY <1>1, <1>5, LeastLine
  <2> QED
    BY <1>3, <2>1
<1>11. IsFiniteSet(Hosts(h))
  <2>1. Hosts(h) \subseteq 1 .. Len(h) + 1 /\ Len(h) \in Nat
    BY <1>6, LeastLine DEF Hosts, HeaderLines, HeaderEnds
  <2>2. 1 \in Int /\ Len(h) + 1 \in Int
    BY <2>1
  <2> QED
    BY <2>1, <2>2, FS_Interval, FS_Subset
<1>12. Cardinality(Hosts(h)) # 1 /\ Hosts(h) # {}
  BY <1>9, <1>10, <1>11, FS_Singleton
<1> QED
  BY <1>2, <1>12, Zenon DEF Parsed, HostsOk

\* A bare LF at the end of a line of an HTTP/1.1 head.
LEMMA DoomedBare ==
    ASSUME NEW c \in Seq(HttpLexemes), NEW l \in Seq(HttpLexemes), Closed(c), InLine(l), NoneBlank(c),
           l # <<>>, l[Len(l)] # "CR", NEW t, t = c \o l, WithoutCR(FirstLine(t)) = <<"1.1">>
    PROVE  Doomed(t \o <<"LF">>)
<1> DEFINE u == t \o <<"LF">>
           n == Len(t)
<1> SUFFICES ASSUME NEW a \in Seq(HttpLexemes), Begins(a, u), HttpParse(a).ok PROVE FALSE
  BY DEF Doomed
<1>1. PICK h, sep : Parsed(a, h, sep)
  BY ParsedIs
<1>2. OneLineMore(c, l, t, u)
  BY LinesGrow
<1>3. /\ t \in Seq(HttpLexemes) /\ u \in Seq(HttpLexemes) /\ Len(u) = n + 1 /\ n \in Nat
      /\ n + 1 \in Ends(u) /\ LineUpTo(u, n + 1) = l /\ Begins(u, t) /\ Closed(u)
      /\ FirstLine(u) = FirstLine(t)
  BY <1>2, LenProperties DEF OneLineMore
<1>4. Begins(a, t) /\ u # <<>>
  <2>1. Len(a) \in Nat
    BY LenProperties
  <2>2. u # <<>>
    BY <1>3
  <2> HIDE DEF u
  <2>3. Begins(a, t)
    BY <1>3, <2>1, BeginsOn, Zenon
  <2> QED
    BY <2>2, <2>3
<1>5. Begins(h, t) /\ h \in Seq(HttpLexemes)
  BY <1>1, <1>4, OpenCovers
<1>6. LineEndingsOk(h, sep) /\ EndsHead(a, Len(h), sep) /\ Len(h) \in Nat /\ Begins(a, h)
  BY <1>1, ParsedEnds, Zenon DEF Parsed
<1>7. a[n + 1] = "LF"
  <2>1. n + 1 \in 1 .. Len(u) /\ u[n + 1] = "LF"
    BY <1>3 DEF Ends
  <2> HIDE DEF u, n
  <2> QED
    BY <2>1, Zenon DEF Begins
<1> HIDE DEF u, n
<1>8. CASE Len(h) = n
  <2>1. h = t
    BY <1>3, <1>5, <1>8, BeginsIs, Zenon DEF n
  <2>2. sep = 4
    BY <1>6, <2>1, Zenon DEF LineEndingsOk, AtLeast11
  <2>3. a[Len(h) + 1] = "CR"
    BY <1>6, <2>2 DEF EndsHead
  <2> QED
    BY <1>7, <1>8, <2>3
<1>9. CASE Len(h) # n
  <2>1. n + 1 <= Len(h)
    BY <1>3, <1>5, <1>6, <1>9 DEF Begins, n
  <2>2. Begins(h, u)
    <3>1. ASSUME NEW i \in 1 .. n + 1 PROVE h[i] = u[i]
      <4>1. i \in 1 .. Len(h) /\ i \in 1 .. Len(u)
        BY <1>3, <1>6, <2>1
      <4> QED
        BY <1>6, <4>1, Zenon DEF Begins
    <3> QED
      BY <1>3, <2>1, <3>1 DEF Begins
  <2>3. n + 1 \in Ends(h) /\ LineUpTo(h, n + 1) = l
    BY <1>3, <1>5, <2>2, LinesStay
  <2>4. FirstLine(h) = FirstLine(t)
    BY <1>3, <1>4, <1>5, <2>2, FirstStays
  <2>5. LineUpTo(h, n + 1) = <<>> \/ Last(LineUpTo(h, n + 1)) = "CR"
    BY <1>6, <2>3, <2>4, Zenon DEF LineEndingsOk, AtLeast11
  <2> QED
    BY <2>3, <2>5 DEF Last
<1> QED
  BY <1>8, <1>9

\* Without its last LF, a head begins with the same line.
LEMMA FirstSame ==
    ASSUME NEW c \in Seq(HttpLexemes), Closed(c), c # <<>>, NEW h \in Seq(HttpLexemes),
           Len(h) + 1 = Len(c), Begins(c, h)
    PROVE  FirstLine(h) = FirstLine(c)
<1> DEFINE n == Len(h)
           m == Min(LineEnds(c))
           k == Min(LineEnds(h))
<1>1. n \in Nat /\ Len(c) = n + 1 /\ n <= Len(c)
  BY LenProperties
<1>2. \A i \in 1 .. n : h[i] = c[i]
  BY Zenon DEF Begins
<1>3. /\ \A p \in 1 .. n : p \in Ends(h) <=> p \in Ends(c)
      /\ \A p \in 1 .. n + 1 : LineUpTo(h, p) = LineUpTo(c, p)
  <2>1. n <= Len(h)
    BY <1>1
  <2> HIDE DEF n
  <2> QED
    BY <1>1, <1>2, <2>1, SameLines
<1>4. n + 1 \in Ends(c)
  BY <1>1, LenProperties DEF Closed, Ends
<1>5. /\ m \in Nat /\ m \in LineEnds(c) /\ \A q \in LineEnds(c) : m <= q
      /\ k \in Nat /\ k \in LineEnds(h) /\ \A q \in LineEnds(h) : k <= q
      /\ Ends(c) \subseteq 1 .. n + 1 /\ Ends(h) \subseteq 1 .. n
  BY <1>1, LeastLine
<1>6. LineEnds(h) = Ends(h) \cup {n + 1} /\ LineEnds(c) = Ends(c) \cup {n + 2}
  BY <1>1 DEF LineEnds
<1> HIDE DEF n, m, k
<1>7. m \in Ends(c) /\ m <= n + 1
  BY <1>1, <1>4, <1>5, <1>6
<1>8. m \in LineEnds(h) /\ k \in LineEnds(c)
  <2>1. m \in 1 .. n \/ m = n + 1
    BY <1>1, <1>5, <1>7
  <2>2. k \in 1 .. n \/ k = n + 1
    BY <1>1, <1>5, <1>6
  <2> QED
    BY <1>3, <1>4, <1>5, <1>6, <1>7, <2>1, <2>2
<1>9. m = k /\ m \in 1 .. n + 1
  <2>1. m <= k /\ k <= m
    BY <1>5, <1>8
  <2> QED
    BY <1>1, <1>5, <1>7, <2>1
<1>10. LineUpTo(h, m) = LineUpTo(c, m)
  BY <1>3, <1>9
<1> QED
  BY <1>9, <1>10 DEF FirstLine, m, k

\* An HTTP/1.1 head that ends in a bare LF.
LEMMA DoomedEnd ==
    ASSUME NEW c \in Seq(HttpLexemes), Closed(c), c # <<>>, NoneBlank(c),
           NEW n, n = Len(c), n > 1, c[n - 1] = "CR", WithoutCR(FirstLine(c)) = <<"1.1">>
    PROVE  Doomed(c \o <<"LF">>)
<1> DEFINE u == c \o <<"LF">>
<1> SUFFICES ASSUME NEW a \in Seq(HttpLexemes), Begins(a, u), HttpParse(a).ok PROVE FALSE
  BY DEF Doomed
<1>1. PICK h, sep : Parsed(a, h, sep)
  BY ParsedIs
<1>2. "LF" \in HttpLexemes
  BY LexemeKinds
<1>3. /\ u \in Seq(HttpLexemes) /\ Len(u) = n + 1 /\ n \in Nat /\ u[n + 1] = "LF"
      /\ \A i \in 1 .. n : u[i] = c[i]
  BY <1>2, Added, LenProperties
<1> HIDE DEF u
<1>4. Begins(u, c)
  BY <1>3 DEF Begins
<1>5. Begins(a, c) /\ Len(a) \in Nat
  BY <1>3, <1>4, BeginsOn, LenProperties
<1>6. a[n - 1] = "CR" /\ a[n] = "LF" /\ a[n + 1] = "LF" /\ n + 1 <= Len(a)
  <2>1. n \in 1 .. Len(c) /\ n - 1 \in 1 .. Len(c) /\ n + 1 \in 1 .. Len(u)
    BY <1>3
  <2>2. a[n] = c[n] /\ a[n - 1] = c[n - 1] /\ a[n + 1] = u[n + 1]
    BY <1>5, <2>1, Zenon DEF Begins
  <2>3. n + 1 <= Len(a)
    BY <1>3 DEF Begins
  <2> QED
    BY <1>3, <2>2, <2>3 DEF Closed
<1>7. Find(a, Blank2) # 0 /\ Find(a, Blank2) <= n /\ Find(a, Blank2) \in Nat
  <2>1. n + 1 - 1 = n /\ n + 2 - 1 = n + 1 /\ n > 0
    BY <1>3
  <2>2. DOMAIN Blank2 = {1, 2} /\ Blank2[1] = "LF" /\ Blank2[2] = "LF"
    BY DEF Blank2
  <2>3. At(a, n, Blank2)
    BY <1>6, <2>1, <2>2, Zenon DEF At
  <2>4. n + Len(Blank2) <= Len(a) + 1
    BY <1>3, <1>5, <1>6, Patterns
  <2>5. /\ \A p \in Nat : p > 0 /\ p + Len(Blank2) <= Len(a) + 1 /\ At(a, p, Blank2)
                             => Find(a, Blank2) # 0 /\ Find(a, Blank2) <= p
        /\ Find(a, Blank2) \in Nat
    <3>1. Blank2 \in Seq(HttpLexemes) /\ Blank2 # <<>>
      BY Patterns, Zenon
    <3> QED
      BY <3>1, FindIs, ZenonT(30)
  <2> QED
    BY <1>3, <2>1, <2>3, <2>4, <2>5, Zenon
<1>8. /\ Len(h) \in Nat /\ HeadBounds(a).end = Len(h) /\ n < Len(h) + sep /\ EndsHead(a, Len(h), sep)
      /\ sep \in {2, 4} /\ h \in Seq(HttpLexemes) /\ LineEndingsOk(h, sep) /\ Begins(a, h)
  BY <1>1, <1>5, EndsBeyond, ParsedEnds, Zenon DEF Parsed
<1>9. Len(h) + 1 <= n
  <2>1. Find(a, Blank4) \in Nat
    BY FindIs, Patterns
  <2>2. HeadBounds(a).end + 1 <= Find(a, Blank2)
    BY <1>7, <2>1 DEF HeadBounds, Blank2, Blank4
  <2> QED
    BY <1>3, <1>7, <1>8, <2>2
<1>10. sep = 2
  <2> SUFFICES ASSUME sep # 2 PROVE FALSE
    OBVIOUS
  <2> DEFINE m == Len(h)
  <2>1. a[m + 1] = "CR" /\ a[m + 2] = "LF" /\ a[m + 3] = "CR" /\ a[m + 4] = "LF" /\ sep = 4
    BY <1>8 DEF EndsHead
  <2>2. m \in Nat /\ m + 1 <= n /\ n < m + 4
    BY <1>8, <1>9, <2>1
  <2> HIDE DEF m
  <2>3. n = m + 1 \/ n = m + 2 \/ n = m + 3
    BY <1>3, <2>2
  <2>4. CASE n = m + 2
    BY <1>6, <2>1, <2>2, <2>4
  <2>5. CASE n # m + 2
    BY <1>6, <2>1, <2>3, <2>5
  <2> QED
    BY <2>4, <2>5
<1>11. Len(h) + 1 = n
  BY <1>3, <1>8, <1>9, <1>10
<1>12. Begins(c, h)
  <2>1. ASSUME NEW i \in 1 .. Len(h) PROVE c[i] = h[i]
    <3>1. i \in 1 .. Len(c)
      BY <1>3, <1>8, <1>11
    <3> QED
      BY <1>5, <1>8, <3>1, Zenon DEF Begins
  <2>2. Len(h) <= Len(c)
    BY <1>3, <1>8, <1>11
  <2> QED
    BY <2>1, <2>2, Zenon DEF Begins
<1>13. FirstLine(h) = FirstLine(c)
  BY <1>8, <1>11, <1>12, FirstSame
<1>14. sep = 4
  BY <1>8, <1>13, Zenon DEF LineEndingsOk, AtLeast11
<1> QED
  BY <1>10, <1>14

\* What is found in a text is found first in all that begin so; what is not is
\* not found inside it.
LEMMA FindExtends ==
    ASSUME NEW a \in Seq(HttpLexemes), NEW s \in Seq(HttpLexemes), Begins(a, s),
           NEW pat \in Seq(HttpLexemes), pat # <<>>
    PROVE  /\ Find(s, pat) # 0 => Find(a, pat) = Find(s, pat)
           /\ Find(s, pat) = 0 => Find(a, pat) = 0 \/ Find(a, pat) + Len(pat) > Len(s) + 1
<1> DEFINE n == Len(s)
           k == Len(pat)
           f == Find(s, pat)
           g == Find(a, pat)
<1>1. n \in Nat /\ k \in Nat /\ Len(a) \in Nat /\ n <= Len(a) /\ DOMAIN pat = 1 .. k
  BY LenProperties DEF Begins
<1>2. \A i \in 1 .. n : a[i] = s[i]
  BY Zenon DEF Begins
<1>3. /\ f \in Nat /\ g \in Nat
      /\ f # 0 => f + k <= n + 1 /\ At(s, f, pat)
      /\ g # 0 => g + k <= Len(a) + 1 /\ At(a, g, pat)
      /\ \A p \in Nat : p > 0 /\ p + k <= n + 1 /\ At(s, p, pat) => f # 0 /\ f <= p
      /\ \A p \in Nat : p > 0 /\ p + k <= Len(a) + 1 /\ At(a, p, pat) => g # 0 /\ g <= p
  BY FindIs
<1> HIDE DEF n, k, f, g
<1>4. ASSUME NEW p \in Nat, p > 0, p + k <= n + 1 PROVE At(a, p, pat) <=> At(s, p, pat)
  <2>1. ASSUME NEW i \in DOMAIN pat PROVE a[p + i - 1] = s[p + i - 1]
    <3>1. p + i - 1 \in 1 .. n
      BY <1>1, <1>4
    <3> QED
      BY <1>2, <3>1
  <2> QED
    BY <2>1, Zenon DEF At
<1>5. ASSUME f # 0 PROVE g = f
  <2>1. f > 0 /\ f + k <= n + 1 /\ At(a, f, pat) /\ f + k <= Len(a) + 1
    BY <1>1, <1>3, <1>4, <1>5
  <2>2. g # 0 /\ g <= f
    BY <1>3, <2>1
  <2>3. g > 0 /\ g + k <= n + 1
    BY <1>1, <1>3, <2>1, <2>2
  <2>4. At(s, g, pat)
    BY <1>3, <1>4, <2>2, <2>3
  <2>5. f <= g
    BY <1>3, <2>3, <2>4
  <2> QED
    BY <1>3, <2>2, <2>5
<1>6. ASSUME f = 0, g # 0 PROVE g + k > n + 1
  <2> SUFFICES ASSUME ~ (g + k > n + 1) PROVE FALSE
    OBVIOUS
  <2>1. g > 0 /\ g + k <= n + 1
    BY <1>1, <1>3, <1>6
  <2>2. At(s, g, pat)
    BY <1>3, <1>4, <1>6, <2>1
  <2> QED
    BY <1>3, <1>6, <2>1, <2>2
<1> QED
  BY <1>5, <1>6 DEF n, k, f, g

\* The end of a head is the same in every text that begins so.
LEMMA BoundsExtend ==
    ASSUME NEW a \in Seq(HttpLexemes), NEW s \in Seq(HttpLexemes), Begins(a, s), HeadBounds(s).end # Npos
    PROVE  HeadBounds(a) = HeadBounds(s)
<1> DEFINE lf == Find(s, Blank2)
           crlf == Find(s, Blank4)
           lf2 == Find(a, Blank2)
           crlf2 == Find(a, Blank4)
           n == Len(s)
<1>1. /\ lf \in Nat /\ crlf \in Nat /\ n \in Nat /\ lf2 \in Nat /\ crlf2 \in Nat
      /\ lf # 0 => lf + 2 <= n + 1
      /\ crlf # 0 => crlf + 4 <= n + 1
      /\ lf2 # 0 => At(a, lf2, Blank2)
      /\ crlf2 # 0 => At(a, crlf2, Blank4)
  BY FindIs, Patterns
<1>2. /\ lf # 0 => lf2 = lf
      /\ crlf # 0 => crlf2 = crlf
      /\ lf = 0 => lf2 = 0 \/ lf2 + 2 > n + 1
      /\ crlf = 0 => crlf2 = 0 \/ crlf2 + 4 > n + 1
  <2>1. /\ lf # 0 => lf2 = lf
        /\ lf = 0 => lf2 = 0 \/ lf2 + Len(Blank2) > n + 1
    BY FindExtends, Patterns, Zenon
  <2>2. /\ crlf # 0 => crlf2 = crlf
        /\ crlf = 0 => crlf2 = 0 \/ crlf2 + Len(Blank4) > n + 1
    BY FindExtends, Patterns, Zenon
  <2> HIDE DEF lf, crlf, lf2, crlf2, n
  <2> QED
    BY <2>1, <2>2, Patterns
<1>3. /\ HeadBounds(s) = IF lf = 0 /\ crlf = 0 THEN [end |-> Npos, separator |-> 0]
                         ELSE IF crlf = 0 \/ (lf # 0 /\ lf < crlf) THEN [end |-> lf - 1, separator |-> 2]
                         ELSE [end |-> crlf - 1, separator |-> 4]
      /\ HeadBounds(a) = IF lf2 = 0 /\ crlf2 = 0 THEN [end |-> Npos, separator |-> 0]
                         ELSE IF crlf2 = 0 \/ (lf2 # 0 /\ lf2 < crlf2) THEN [end |-> lf2 - 1, separator |-> 2]
                         ELSE [end |-> crlf2 - 1, separator |-> 4]
  BY Zenon DEF HeadBounds, Blank2, Blank4
<1> HIDE DEF lf, crlf, lf2, crlf2, n
<1>4. ~ (lf = 0 /\ crlf = 0)
  BY <1>3
<1>5. CASE crlf = 0 \/ (lf # 0 /\ lf < crlf)
  <2>1. lf # 0 /\ lf2 = lf
    BY <1>2, <1>4, <1>5
  <2>2. crlf2 = 0 \/ lf < crlf2
    <3> SUFFICES ASSUME crlf2 # 0, ~ (lf < crlf2) PROVE FALSE
      OBVIOUS
    <3>1. crlf2 + 4 > n + 1 /\ lf + 2 <= n + 1 /\ crlf2 <= lf
      BY <1>1, <1>2, <1>5, <2>1
    <3>2. crlf2 = lf \/ crlf2 + 1 = lf
      BY <1>1, <3>1
    <3>3. /\ 1 \in DOMAIN Blank4 /\ 3 \in DOMAIN Blank4 /\ Blank4[1] = "CR" /\ Blank4[3] = "CR"
          /\ 1 \in DOMAIN Blank2 /\ 2 \in DOMAIN Blank2 /\ Blank2[1] = "LF" /\ Blank2[2] = "LF"
      BY DEF Blank2, Blank4
    <3>4. a[crlf2 + 1 - 1] = "CR" /\ a[crlf2 + 3 - 1] = "CR" /\ a[lf + 1 - 1] = "LF" /\ a[lf + 2 - 1] = "LF"
      BY <1>1, <2>1, <3>3, Zenon DEF At
    <3>5. CASE crlf2 = lf
      BY <3>4, <3>5
    <3>6. CASE crlf2 + 1 = lf
      <4>1. crlf2 + 3 - 1 = lf + 2 - 1
        BY <1>1, <3>6
      <4> QED
        BY <3>4, <4>1
    <3> QED
      BY <3>2, <3>5, <3>6
  <2> QED
    BY <1>3, <1>5, <2>1, <2>2
<1>6. CASE ~ (crlf = 0 \/ (lf # 0 /\ lf < crlf))
  <2>1. crlf # 0 /\ crlf2 = crlf
    BY <1>2, <1>6
  <2>2. ~ (lf2 # 0 /\ lf2 < crlf2)
    BY <1>1, <1>2, <1>6, <2>1
  <2> QED
    BY <1>3, <1>4, <1>6, <2>1, <2>2
<1> QED
  BY <1>5, <1>6

\* A text that continues a complete head has the same head.
LEMMA SameHead ==
    ASSUME NEW a, NEW h2, NEW sep2, Parsed(a, h2, sep2), NEW s \in Seq(HttpLexemes), Begins(a, s),
           NEW h \in Seq(HttpLexemes), NEW sep, HeadBounds(s).end = Len(h), HeadBounds(s).separator = sep,
           Len(h) # Npos, Begins(s, h)
    PROVE  h2 = h /\ sep2 = sep
<1>1. /\ a \in Seq(HttpLexemes) /\ h2 \in Seq(HttpLexemes) /\ Begins(a, h2)
      /\ HeadBounds(a).end = Len(h2) /\ HeadBounds(a).separator = sep2 /\ Len(a) \in Nat /\ Len(h2) \in Nat
  BY Zenon DEF Parsed
<1>2. HeadBounds(s).end # Npos /\ HeadBounds(s).end = Len(h) /\ HeadBounds(s).separator = sep
  BY Zenon
<1>3. HeadBounds(a) = HeadBounds(s)
  BY <1>1, <1>2, BoundsExtend, Zenon
<1>4. Len(h2) = Len(h) /\ sep2 = sep
  BY <1>1, <1>2, <1>3
<1>5. Begins(a, h)
  BY <1>1, BeginsOn, Zenon
<1>6. Begins(h2, h)
  BY <1>1, <1>4, <1>5 DEF Begins
<1>7. h = h2
  BY <1>1, <1>4, <1>6, BeginsIs, Zenon
<1> QED
  BY <1>4, <1>7

\* An HTTP/1.1 head without a Host.
LEMMA DoomedHostless ==
    ASSUME NEW c \in Seq(HttpLexemes), Closed(c), NoneBlank(c), NEW hd, hd.version = "1.1", hd.hosts = 0,
           NEW h, Ready(h, hd), c = h \o CrLf, Len(c) + 1 < Npos
    PROVE  Doomed((c \o <<"CR">>) \o <<"LF">>)
<1> DEFINE s == c \o <<"CR">>
           u == s \o <<"LF">>
           n == Len(h)
<1>1. h \in Seq(HttpLexemes) /\ WithoutCR(FirstLine(h)) = <<"1.1">> /\ Hosts(h) = {}
  BY DEF Ready, Counts
<1>2. "CR" \in HttpLexemes /\ "LF" \in HttpLexemes /\ <<"CR">> \in Seq(HttpLexemes) /\ InLine(<<"CR">>)
      /\ <<"LF">> \in Seq(HttpLexemes)
  <2>1. "CR" \in HttpLexemes /\ "LF" \in HttpLexemes
    BY LexemeKinds
  <2> QED
    BY <2>1, WithoutOne DEF InLine
<1>3. NoneBlank(s) /\ s \in Seq(HttpLexemes)
  BY <1>2, StillOpen
<1>4. /\ n \in Nat /\ Len(c) = n + 2 /\ c[n + 1] = "CR" /\ c[n + 2] = "LF" /\ Begins(c, h)
  <2>1. Len(CrLf) = 2 /\ CrLf[1] = "CR" /\ CrLf[2] = "LF" /\ CrLf \in Seq(HttpLexemes)
    BY Patterns DEF CrLf
  <2>2. Begins(c, h)
    BY <1>1, <2>1, BeginsIs, Zenon
  <2> DEFINE e == CrLf
  <2>3. e \in Seq(HttpLexemes) /\ Len(e) = 2 /\ e[1] = "CR" /\ e[2] = "LF" /\ c = h \o e
    BY <2>1
  <2> HIDE DEF e
  <2>4. n \in Nat /\ Len(c) = n + 2 /\ c[n + 1] = "CR" /\ c[n + 2] = "LF"
    <3>0. e \in Seq(HttpLexemes) /\ h \in Seq(HttpLexemes)
      BY <1>1, <2>3
    <3>1. Len(h \o e) = Len(h) + Len(e) /\ \A i \in 1 .. Len(e) : (h \o e)[Len(h) + i] = e[i]
      BY <3>0, ConcatParts
    <3>2. 1 \in 1 .. 2 /\ 2 \in 1 .. 2 /\ n \in Nat
      BY <1>1, LenProperties
    <3> QED
      BY <2>3, <3>1, <3>2
  <2> QED
    BY <2>2, <2>4
<1>5. /\ Len(s) = n + 3 /\ s[n + 3] = "CR" /\ \A i \in 1 .. n + 2 : s[i] = c[i]
  <2>1. /\ Len(c \o <<"CR">>) = Len(c) + 1 /\ \A i \in 1 .. Len(c) : (c \o <<"CR">>)[i] = c[i]
        /\ (c \o <<"CR">>)[Len(c) + 1] = "CR"
    BY <1>2, Added
  <2>2. n + 2 + 1 = n + 3
    BY <1>4
  <2> QED
    BY <1>4, <2>1, <2>2
<1>6. u = Append(s, "LF") /\ u \in Seq(HttpLexemes) /\ Begins(u, s) /\ Begins(s, c)
  <2>1. Begins(u, s) /\ Begins(s, c)
    BY <1>2, <1>3, BeginsIs, Zenon
  <2>2. u = Append(s, "LF") /\ u \in Seq(HttpLexemes)
    BY <1>2, <1>3, AppendIs, Zenon
  <2> QED
    BY <2>1, <2>2
<1> HIDE DEF s, u, n
<1>7. HeadBounds(u) = [end |-> n, separator |-> 4]
  <2> DEFINE m == n + 3
  <2>1. n + 2 \in 1 .. n + 2 /\ n + 1 \in 1 .. n + 2 /\ m - 1 = n + 2 /\ m - 2 = n + 1 /\ m > 2 /\ m - 3 = n
    BY <1>4
  <2>2. m = Len(s) /\ s[m] = "CR" /\ s[m - 1] = "LF" /\ s[m - 2] = "CR"
    BY <1>4, <1>5, <2>1
  <2> HIDE DEF m
  <2>3. HeadBounds(Append(s, "LF")) = [end |-> m - 3, separator |-> 4]
    BY <1>3, <2>1, <2>2, FullEnd
  <2> QED
    BY <1>6, <2>1, <2>3
<1>8. Len(h) # Npos
  BY <1>4, HttpAssumption DEF n
<1>9. Begins(u, h)
  <2>1. Len(u) \in Nat /\ Len(s) \in Nat
    BY <1>3, <1>6, LenProperties
  <2>2. Begins(s, h)
    BY <1>1, <1>4, <1>6, <2>1, BeginsOn, Zenon
  <2> QED
    BY <1>1, <1>3, <1>6, <2>1, <2>2, BeginsOn, Zenon
<1>10. SUFFICES ASSUME NEW a \in Seq(HttpLexemes), Begins(a, u), HttpParse(a).ok PROVE FALSE
  BY DEF Doomed, u, s
<1>11. PICK h2, sep2 : Parsed(a, h2, sep2)
  BY <1>10, ParsedIs
<1>12. h2 = h
  <2>1. HeadBounds(u).end = Len(h) /\ HeadBounds(u).separator = 4
    BY <1>7 DEF n
  <2>2. h \in Seq(HttpLexemes) /\ u \in Seq(HttpLexemes) /\ Begins(a, u)
    BY <1>1, <1>6, <1>10
  <2>3. h2 = h /\ sep2 = 4
    BY <1>8, <1>9, <1>11, <2>1, <2>2, SameHead
  <2> QED
    BY <2>3
<1>13. HostsOk(h)
  BY <1>11, <1>12, Zenon DEF Parsed
<1>14. Cardinality({}) = 0 /\ <<"1.1">> # <<"1.0">>
  BY FS_EmptySet
<1> QED
  BY <1>1, <1>13, <1>14 DEF HostsOk

\* No text that begins so is a complete chunked body.
NeverWhole(r) == \A t \in Seq(HttpLexemes) : Begins(t, r) => ScanChunks[t].state # "complete"

\* A text that begins so is what it begins with and the rest.
LEMMA BeginsWith ==
    ASSUME NEW t \in Seq(HttpLexemes), NEW P \in Seq(HttpLexemes), Begins(t, P)
    PROVE  /\ t = P \o After(t, Len(P)) /\ After(t, Len(P)) \in Seq(HttpLexemes)
           /\ \A w \in Seq(HttpLexemes) : Begins(t, P \o w) => Begins(After(t, Len(P)), w)
<1> DEFINE n == Len(P)
           r == After(t, n)
<1>1. n \in Nat /\ Len(t) \in Nat /\ n <= Len(t) /\ \A i \in 1 .. n : t[i] = P[i]
  BY LenProperties DEF Begins
<1>2. r \in Seq(HttpLexemes) /\ Len(r) = Len(t) - n /\ \A i \in 1 .. Len(t) - n : r[i] = t[n + i]
  <2> HIDE DEF n
  <2> QED
    BY <1>1, AfterType
<1> HIDE DEF r
<1> DEFINE u == P \o r
<1>3. /\ u \in Seq(HttpLexemes) /\ Len(u) = n + Len(r) /\ \A i \in 1 .. n : u[i] = P[i]
      /\ \A i \in 1 .. Len(r) : u[n + i] = r[i]
  BY <1>2, ConcatParts
<1>4. Len(u) = Len(t)
  <2> HIDE DEF u, n
  <2> QED
    BY <1>1, <1>2, <1>3
<1>5. \A i \in 1 .. Len(t) : u[i] = t[i]
  <2>1. SUFFICES ASSUME NEW i \in 1 .. Len(t) PROVE u[i] = t[i]
    OBVIOUS
  <2> HIDE DEF u, n
  <2>2. CASE i <= n
    <3>1. i \in 1 .. n
      BY <1>1, <2>2
    <3> QED
      BY <1>1, <1>3, <3>1
  <2>3. CASE ~ (i <= n)
    <3>1. i - n \in 1 .. Len(t) - n /\ i - n \in 1 .. Len(r) /\ n + (i - n) = i
      BY <1>1, <1>2, <2>3
    <3> QED
      BY <1>2, <1>3, <3>1
  <2> QED
    BY <2>2, <2>3
<1>6. u = t
  <2>1. Begins(u, t)
    BY <1>1, <1>4, <1>5 DEF Begins
  <2> HIDE DEF u
  <2> QED
    BY <1>3, <1>4, <2>1, BeginsIs, Zenon
<1>7. ASSUME NEW w \in Seq(HttpLexemes), Begins(t, P \o w) PROVE Begins(r, w)
  <2> DEFINE v == P \o w
             k == Len(w)
  <2>1. /\ Len(v) = n + k /\ k \in Nat /\ \A i \in 1 .. k : v[n + i] = w[i]
    BY ConcatParts, LenProperties
  <2>2. Len(v) <= Len(t) /\ \A i \in 1 .. Len(v) : t[i] = v[i]
    BY <1>7, Zenon DEF Begins
  <2> HIDE DEF v, k, n
  <2>3. k <= Len(r)
    BY <1>1, <1>2, <2>1, <2>2
  <2>4. ASSUME NEW i \in 1 .. k PROVE r[i] = w[i]
    <3>1. i \in 1 .. Len(t) - n /\ n + i \in 1 .. Len(v)
      BY <1>1, <1>2, <2>1, <2>3
    <3> QED
      BY <1>2, <2>1, <2>2, <3>1
  <2> QED
    BY <2>3, <2>4, Zenon DEF Begins, k
<1> QED
  BY <1>2, <1>6, <1>7 DEF n, r, u

LEMMA JoinsNever ==
    ASSUME NEW P, NEW D, Joins(P, D), NEW w \in Seq(HttpLexemes), NeverWhole(w)
    PROVE  NeverWhole(P \o w)
<1>1. SUFFICES ASSUME NEW t \in Seq(HttpLexemes), Begins(t, P \o w), ScanChunks[t].state = "complete" PROVE FALSE
  BY DEF NeverWhole
<1>2. P \in Seq(HttpLexemes)
  BY Zenon DEF Joins
<1>3. Begins(t, P)
  BY <1>1, <1>2, BeginsIs, Zenon
<1> DEFINE u == After(t, Len(P))
<1>4. t = P \o u /\ u \in Seq(HttpLexemes) /\ Begins(u, w)
  BY <1>1, <1>2, <1>3, BeginsWith, Zenon
<1> HIDE DEF u
<1>5. ScanChunks[t] = Join(ScanChunks[u], D, Len(P))
  BY <1>4, Zenon DEF Joins
<1>6. ScanChunks[u].state # "complete"
  BY <1>4, Zenon DEF NeverWhole
<1> QED
  BY <1>1, <1>5, <1>6, Zenon DEF Join

\* A chunk line that ends nowhere, or is wrong, makes the body incomplete.
LEMMA NeverWrong ==
    ASSUME NEW w \in Seq(HttpLexemes),
           \A t \in Seq(HttpLexemes) : Begins(t, w) /\ Find(t, CrLf) # 0 => Wrong(t)
    PROVE  NeverWhole(w)
<1>1. SUFFICES ASSUME NEW t \in Seq(HttpLexemes), Begins(t, w), ScanChunks[t].state = "complete" PROVE FALSE
  BY DEF NeverWhole
<1>2. ScanChunks[t] = ScanFrom(t, ScanChunks[NextOf(t)])
  BY ScanChunksIs, Zenon
<1>3. Find(t, CrLf) > 0 /\ ~Wrong(t)
  BY <1>1, <1>2, CompleteScan
<1>4. Find(t, CrLf) # 0
  BY <1>3
<1> QED
  BY <1>1, <1>3, <1>4, Zenon

\* The line of a chunk, as far as it is known.
LEMMA ChunkLineKnown ==
    ASSUME NEW t \in Seq(HttpLexemes), Find(t, CrLf) # 0
    PROVE  /\ Find(t, CrLf) \in Nat /\ t[Find(t, CrLf)] = "CR" /\ LineOf(t) \in Seq(HttpLexemes)
           /\ Len(LineOf(t)) = Find(t, CrLf) - 1
           /\ \A w \in Seq(HttpLexemes) : Begins(t, w) /\ Len(w) < Find(t, CrLf) => Begins(LineOf(t), w)
<1> DEFINE f == Find(t, CrLf)
           m == f - 1
<1>1. f \in Nat /\ f # 0 /\ f + 2 <= Len(t) + 1 /\ At(t, f, CrLf) /\ Len(t) \in Nat
  BY FindIs, Patterns
<1>2. t[f] = "CR"
  <2>1. f + 1 - 1 = f /\ 1 \in DOMAIN CrLf /\ CrLf[1] = "CR"
    BY <1>1 DEF CrLf
  <2> HIDE DEF f
  <2> QED
    BY <1>1, <2>1, Zenon DEF At
<1> HIDE DEF f
<1>3. m \in Nat /\ m <= Len(t)
  BY <1>1
<1>4. LineOf(t) = SubSeq(t, 1, m)
  BY DEF LineOf, f
<1>5. LineOf(t) \in Seq(HttpLexemes) /\ Len(LineOf(t)) = m /\ Begins(t, LineOf(t))
  <2> HIDE DEF m
  <2> QED
    BY <1>3, <1>4, PrefixIs
<1>6. ASSUME NEW w \in Seq(HttpLexemes), Begins(t, w), Len(w) < f PROVE Begins(LineOf(t), w)
  <2>1. Len(w) \in Nat /\ Len(w) <= m
    BY <1>1, <1>6, LenProperties
  <2>2. ASSUME NEW i \in 1 .. Len(w) PROVE LineOf(t)[i] = w[i]
    <3>1. i \in 1 .. Len(LineOf(t))
      BY <1>3, <1>5, <2>1
    <3> QED
      BY <1>5, <1>6, <3>1, Zenon DEF Begins
  <2> QED
    BY <1>5, <2>1, <2>2, Zenon DEF Begins
<1> QED
  BY <1>1, <1>2, <1>5, <1>6 DEF f

\* A chunk line without a size, or with a stray byte behind it.
Stray(e) == e # ";" /\ e # "CR"

LEMMA NeverSized ==
    ASSUME NEW ds \in Seq(DOMAIN Hex), NEW e \in HttpLexemes, e \notin DOMAIN Hex, ds = <<>> \/ Stray(e)
    PROVE  NeverWhole(ds \o <<e>>)
<1> DEFINE w == ds \o <<e>>
           n == Len(ds)
<1>1. <<e>> \in Seq(HttpLexemes)
  OBVIOUS
<1>2. ds \in Seq(HttpLexemes) /\ n \in Nat /\ \A i \in 1 .. n : ds[i] # "CR"
  BY DigitsWithout, LenProperties DEF Without
<1>3. /\ w \in Seq(HttpLexemes) /\ Len(w) = n + 1 /\ w[n + 1] = e /\ \A i \in 1 .. n : w[i] = ds[i]
  BY <1>1, <1>2, Added
<1>4. SUFFICES ASSUME NEW t \in Seq(HttpLexemes), Begins(t, w), Find(t, CrLf) # 0 PROVE Wrong(t)
  BY <1>3, NeverWrong
<1> DEFINE f == Find(t, CrLf)
           l == LineOf(t)
<1>5. /\ f \in Nat /\ f # 0 /\ t[f] = "CR" /\ l \in Seq(HttpLexemes) /\ Len(l) = f - 1
      /\ Len(w) < f => Begins(l, w)
  BY <1>3, <1>4, ChunkLineKnown
<1>6. \A i \in 1 .. n + 1 : t[i] = w[i]
  <2> HIDE DEF w
  <2> QED
    BY <1>3, <1>4 DEF Begins
<1>7. \A r \in Seq(HttpLexemes) : Begins(r, w) => SizeDigits(r) = ds
  BY <1>1, DigitsRead
<1> HIDE DEF f, l, w, n
<1>8. CASE n + 1 < f
  <2>1. SizeDigits(l) = ds /\ Begins(l, w)
    BY <1>3, <1>5, <1>7, <1>8
  <2>2. n < Len(l) /\ l[n + 1] = e
    BY <1>2, <1>3, <1>5, <1>8, <2>1 DEF Begins
  <2>3. ds = <<>> \/ l[n + 1] # ";"
    BY <2>2, Zenon DEF Stray
  <2> QED
    BY <2>1, <2>2, <2>3, Zenon DEF Wrong, DigitsOf, l, n
<1>9. CASE ~ (n + 1 < f)
  <2>1. f = n + 1
    <3> SUFFICES ASSUME f # n + 1 PROVE FALSE
      OBVIOUS
    <3>1. f \in 1 .. n /\ f \in 1 .. n + 1
      BY <1>2, <1>5, <1>9
    <3> QED
      BY <1>2, <1>3, <1>5, <1>6, <3>1
  <2>2. e = "CR"
    <3>1. n + 1 \in 1 .. n + 1
      BY <1>2
    <3> QED
      BY <1>3, <1>5, <1>6, <2>1, <3>1
  <2>3. ds = <<>> /\ n = 0
    <3>1. ds = <<>>
      BY <2>2, Zenon DEF Stray
    <3> QED
      BY <3>1 DEF n
  <2>4. l = <<>>
    BY <1>5, <2>1, <2>3, EmptySeq, LenProperties
  <2>5. SizeDigits(l) = <<>>
    BY <2>3, <2>4, DigitsRead
  <2> QED
    BY <2>5, Zenon DEF Wrong, DigitsOf, l
<1> QED
  BY <1>8, <1>9

\* A number that no size_t holds is held by none that begins with its digits.
LEMMA TooLarge ==
    ASSUME NEW ds \in Seq(DOMAIN Hex), ChunkSize(ds) = -1, NEW D \in Seq(DOMAIN Hex), Begins(D, ds)
    PROVE  ChunkSize(D) = -1
<1> DEFINE n == Len(ds)
           m == Len(D)
           w == m - n
           f == [k \in 0 .. w |-> ChunkSize(SubSeq(D, 1, n + k))]
           over == {-1}
<1>1. n \in Nat /\ m \in Nat /\ n <= m /\ w \in Nat /\ n + w = m /\ n + 0 = n /\ 0 \in 0 .. w /\ w \in 0 .. w
  BY LenProperties DEF Begins
<1>2. \A k \in Nat : k <= m => SubSeq(D, 1, k) \in Seq(DOMAIN Hex) /\ Len(SubSeq(D, 1, k)) = k
                               /\ \A i \in 1 .. k : SubSeq(D, 1, k)[i] = D[i]
  <2>1. SUFFICES ASSUME NEW k \in Nat, k <= m
                 PROVE  SubSeq(D, 1, k) \in Seq(DOMAIN Hex) /\ Len(SubSeq(D, 1, k)) = k
                        /\ \A i \in 1 .. k : SubSeq(D, 1, k)[i] = D[i]
    OBVIOUS
  <2>2. 0 + 1 = 1 /\ k - 0 = k /\ 0 <= k /\ 0 \in Nat /\ \A i \in 1 .. k : 0 + i = i
    OBVIOUS
  <2>3. /\ SubSeq(D, 0 + 1, k) \in Seq(DOMAIN Hex) /\ Len(SubSeq(D, 0 + 1, k)) = k - 0
        /\ \A i \in 1 .. k - 0 : SubSeq(D, 0 + 1, k)[i] = D[0 + i]
    BY <2>1, <2>2, Stretch
  <2> QED
    BY <2>2, <2>3
<1>3. SubSeq(D, 1, n) = ds
  <2> DEFINE v == SubSeq(D, 1, n)
  <2>1. v \in Seq(DOMAIN Hex) /\ Len(v) = n /\ \A i \in 1 .. n : v[i] = D[i]
    BY <1>1, <1>2
  <2>2. \A i \in 1 .. n : D[i] = ds[i]
    BY Zenon DEF Begins
  <2> HIDE DEF v
  <2> QED
    BY <2>1, <2>2 DEF v
<1>4. SubSeq(D, 1, m) = D
  <2> DEFINE v == SubSeq(D, 1, m)
  <2>1. v \in Seq(DOMAIN Hex) /\ Len(v) = m /\ \A i \in 1 .. m : v[i] = D[i]
    BY <1>1, <1>2
  <2> HIDE DEF v
  <2> QED
    BY <2>1 DEF v
<1> HIDE DEF n, m, w
<1>5. ASSUME NEW k \in 1 .. w, f[k - 1] \in {-1} PROVE f[k] \in {-1}
  <2> DEFINE j == n + (k - 1)
             v == SubSeq(D, 1, j)
             u == SubSeq(D, 1, j + 1)
  <2>1. k \in 0 .. w /\ k - 1 \in 0 .. w /\ n + k = j + 1 /\ j \in Nat /\ j <= m /\ j + 1 <= m /\ j + 1 \in Nat
        /\ j + 1 \in 1 .. m
    BY <1>1
  <2>2. f[k] = ChunkSize(u) /\ f[k - 1] = ChunkSize(v)
    BY <2>1
  <2> HIDE DEF f, j
  <2>3. /\ v \in Seq(DOMAIN Hex) /\ Len(v) = j /\ \A i \in 1 .. j : v[i] = D[i]
        /\ u \in Seq(DOMAIN Hex) /\ Len(u) = j + 1 /\ \A i \in 1 .. j + 1 : u[i] = D[i]
    BY <1>2, <2>1
  <2>4. D[j + 1] \in DOMAIN Hex
    BY <2>1, ElementOfSeq DEF m
  <2> HIDE DEF v, u
  <2>5. /\ Len(v \o <<D[j + 1]>>) = j + 1 /\ v \o <<D[j + 1]>> \in Seq(DOMAIN Hex)
        /\ \A i \in 1 .. j : (v \o <<D[j + 1]>>)[i] = v[i]
        /\ (v \o <<D[j + 1]>>)[j + 1] = D[j + 1]
    BY <2>3, <2>4, Added
  <2> DEFINE x == v \o <<D[j + 1]>>
  <2>6. x = u
    <3>1. ASSUME NEW i \in 1 .. j + 1 PROVE x[i] = u[i]
      <4>1. i \in 1 .. j \/ i = j + 1
        BY <2>1
      <4> QED
        BY <2>1, <2>3, <2>5, <4>1
    <3>2. x \in Seq(DOMAIN Hex) /\ Len(x) = j + 1
      BY <2>5
    <3> HIDE DEF x
    <3> QED
      BY <2>3, <3>1, <3>2
  <2>7. ChunkSize(u) = NextSize(ChunkSize(v), Hex[D[j + 1]])
    BY <2>3, <2>4, <2>6, ChunkSizeMore
  <2> QED
    BY <1>5, <2>2, <2>7, Zenon DEF NextSize
<1>6. f[0] \in {-1}
  BY <1>1, <1>3
<1>7. f[w] = ChunkSize(D)
  BY <1>1, <1>4
<1> HIDE DEF f
<1>8. \A k \in 0 .. w : f[k] \in over
  <2>1. f[0] \in over /\ \A k \in 1 .. w : f[k - 1] \in over => f[k] \in over
    BY <1>5, <1>6
  <2> HIDE DEF over
  <2> QED
    BY <1>1, <2>1, IterationKeeps
<1> QED
  BY <1>1, <1>7, <1>8

\* The digits of a line hold all it begins with.
LEMMA DigitsCover ==
    ASSUME NEW l \in Seq(HttpLexemes), NEW ds \in Seq(DOMAIN Hex), Begins(l, ds)
    PROVE  SizeDigits(l) \in Seq(DOMAIN Hex) /\ Begins(SizeDigits(l), ds)
<1> DEFINE B == {0} \cup {n \in DOMAIN l : \A i \in 1 .. n : l[i] \in DOMAIN Hex}
           k == Max(B)
           m == Len(ds)
<1>1. DOMAIN l = 1 .. Len(l) /\ Len(l) \in Nat /\ m \in Nat /\ m <= Len(l)
  BY LenProperties DEF Begins
<1>2. B \subseteq 0 .. Len(l) /\ B # {}
  BY <1>1
<1>3. k \in B /\ \A q \in B : q <= k
  <2> HIDE DEF B
  <2> QED
    BY <1>1, <1>2, MaxIsGreatest
<1>4. m \in B
  <2>1. ASSUME NEW i \in 1 .. m PROVE l[i] \in DOMAIN Hex
    <3>1. l[i] = ds[i]
      BY DEF Begins
    <3>2. ds[i] \in DOMAIN Hex
      BY ElementOfSeq
    <3> QED
      BY <3>1, <3>2
  <2>2. m = 0 \/ m \in DOMAIN l
    BY <1>1
  <2> QED
    BY <2>1, <2>2
<1>5. k \in Nat /\ k <= Len(l) /\ m <= k /\ \A i \in 1 .. k : l[i] \in DOMAIN Hex
  <2>1. k \in 0 .. Len(l) /\ m <= k
    BY <1>2, <1>3, <1>4
  <2>2. \A q \in B : \A i \in 1 .. q : l[i] \in DOMAIN Hex
    OBVIOUS
  <2> HIDE DEF B, k
  <2>3. \A i \in 1 .. k : l[i] \in DOMAIN Hex
    BY <1>3, <2>2
  <2> QED
    BY <1>1, <2>1, <2>3
<1>6. SizeDigits(l) = SubSeq(l, 1, k)
  BY Zenon DEF SizeDigits
<1> HIDE DEF B, k, m
<1> DEFINE v == SubSeq(l, 1, k)
<1>7. v \in Seq(HttpLexemes) /\ Len(v) = k /\ Begins(l, v)
  BY <1>5, PrefixIs
<1> HIDE DEF v
<1>8. \A i \in 1 .. k : v[i] = l[i]
  BY <1>7, Zenon DEF Begins
<1>9. v \in Seq(DOMAIN Hex)
  BY <1>5, <1>7, <1>8
<1>10. Begins(v, ds)
  <2>1. ASSUME NEW i \in 1 .. m PROVE v[i] = ds[i]
    <3>1. i \in 1 .. k /\ l[i] = ds[i]
      BY <1>1, <1>5 DEF Begins, m
    <3> QED
      BY <1>8, <3>1
  <2> QED
    BY <1>5, <1>7, <2>1, Zenon DEF Begins, m
<1> QED
  BY <1>6, <1>9, <1>10 DEF v

\* A chunk larger than a size_t holds.
LEMMA NeverHeld ==
    ASSUME NEW ds \in Seq(DOMAIN Hex), ChunkSize(ds) = -1
    PROVE  NeverWhole(ds)
<1>1. ds \in Seq(HttpLexemes) /\ Len(ds) \in Nat /\ \A i \in 1 .. Len(ds) : ds[i] # "CR"
  BY DigitsWithout, LenProperties DEF Without
<1>2. SUFFICES ASSUME NEW t \in Seq(HttpLexemes), Begins(t, ds), Find(t, CrLf) # 0 PROVE Wrong(t)
  BY <1>1, NeverWrong
<1> DEFINE f == Find(t, CrLf)
<1>3. /\ f \in Nat /\ f # 0 /\ t[f] = "CR" /\ LineOf(t) \in Seq(HttpLexemes)
      /\ Len(ds) < f => Begins(LineOf(t), ds)
  BY <1>1, <1>2, ChunkLineKnown
<1>4. \A i \in 1 .. Len(ds) : t[i] = ds[i]
  BY <1>2, Zenon DEF Begins
<1> HIDE DEF f
<1>5. Len(ds) < f
  <2> SUFFICES ASSUME ~ (Len(ds) < f) PROVE FALSE
    OBVIOUS
  <2>1. f \in 1 .. Len(ds)
    BY <1>1, <1>3
  <2> QED
    BY <1>1, <1>3, <1>4, <2>1
<1>6. ChunkSize(SizeDigits(LineOf(t))) = -1
  BY <1>3, <1>5, DigitsCover, TooLarge
<1> QED
  BY <1>6, Zenon DEF Wrong, SizeOf, DigitsOf

\* A byte that is no CR behind the data of a chunk.
LEMMA NeverClosed ==
    ASSUME NEW b, SizeLine(b, 1)
    PROVE  NeverWhole(Chunk(b, <<"x", "x">>))
<1> DEFINE w == <<"x", "x">>
<1>1. w \in Seq(HttpLexemes) /\ Len(w) = 2 /\ w[2] = "x" /\ b \in Seq(HttpLexemes)
  <2>1. "x" \in HttpLexemes
    BY Bytes, Zenon
  <2>2. b \in Seq(HttpLexemes)
    BY Zenon DEF SizeLine
  <2> QED
    BY <2>1, <2>2
<1> HIDE DEF w
<1>2. SUFFICES ASSUME NEW t \in Seq(HttpLexemes), Begins(t, Chunk(b, w)), ScanChunks[t].state = "complete" PROVE FALSE
  BY DEF NeverWhole, w
<1> DEFINE P == Ended(b)
           u == After(t, Len(P))
<1>3. P \in Seq(HttpLexemes) /\ Len(P) = Len(b) + 2 /\ Len(b) \in Nat
  BY <1>1, EndedType
<1>4. Begins(t, P \o w)
  BY <1>2, Zenon DEF Chunk
<1> HIDE DEF P
<1>5. Begins(t, P)
  BY <1>1, <1>3, <1>4, BeginsIs, Zenon
<1>6. t = P \o u /\ u \in Seq(HttpLexemes) /\ Begins(u, w)
  BY <1>1, <1>3, <1>4, <1>5, BeginsWith, Zenon
<1> HIDE DEF u
<1>7. t = Chunk(b, u)
  BY <1>6, Zenon DEF Chunk, P
<1>8. /\ SizeOf(t) = 1 /\ BehindOf(t) = (Len(b) + 2) + 1 /\ Len(t) = (Len(b) + 2) + Len(u)
  BY <1>6, <1>7, ChunkBegins
<1>9. At(t, BehindOf(t) + 1, CrLf)
  <2>1. ScanChunks[t] = ScanFrom(t, ScanChunks[NextOf(t)])
    BY ScanChunksIs, Zenon
  <2>2. SizeOf(t) # 0
    BY <1>8
  <2> QED
    BY <1>2, <2>1, <2>2, CompleteScan
<1>10. t[Len(b) + 4] = "CR"
  <2>1. (BehindOf(t) + 1) + 1 - 1 = Len(b) + 4 /\ 1 \in DOMAIN CrLf /\ CrLf[1] = "CR"
    BY <1>3, <1>8 DEF CrLf
  <2> QED
    BY <1>9, <2>1, Zenon DEF At
<1>11. t[Len(b) + 4] = u[2]
  <2>1. Len(u) \in Nat /\ 2 <= Len(u)
    BY <1>1, <1>6, LenProperties DEF Begins
  <2>2. \A i \in 1 .. Len(u) : (P \o u)[Len(P) + i] = u[i]
    BY <1>3, <1>6, ConcatParts
  <2>3. Len(P) + 2 = Len(b) + 4 /\ 2 \in 1 .. Len(u)
    BY <1>3, <2>1
  <2> QED
    BY <1>6, <2>2, <2>3
<1>12. u[2] = "x"
  <2>1. 2 \in 1 .. Len(w)
    BY <1>1
  <2> QED
    BY <1>1, <1>6, <2>1, Zenon DEF Begins
<1> QED
  BY <1>10, <1>11, <1>12

\* A body that is never whole, behind a head of its own.
LEMMA DoomedChunks ==
    ASSUME NEW s, NEW h, NEW sep, NEW hd, FineHead(s, h, sep, hd), hd.coding = "chunked",
           NeverWhole(After(s, Len(h) + sep))
    PROVE  Doomed(s)
<1> SUFFICES ASSUME NEW a \in Seq(HttpLexemes), Begins(a, s), HttpParse(a).ok PROVE FALSE
  BY DEF Doomed
<1>1. /\ s \in Seq(HttpLexemes) /\ h \in Seq(HttpLexemes) /\ HeadBounds(s) = [end |-> Len(h), separator |-> sep]
      /\ Len(h) # Npos /\ Len(h) \in Nat /\ SubSeq(s, 1, Len(h)) = h /\ Len(h) + sep <= Len(s) /\ sep \in {2, 4}
      /\ ScanHead(h) = Account(hd)
  BY DEF FineHead
<1>2. HeadBounds(s).end = Len(h) /\ HeadBounds(s).separator = sep /\ Len(s) \in Nat
  BY <1>1, LenProperties
<1>3. Len(h) <= Len(s)
  BY <1>1, <1>2
<1>4. Begins(s, h)
  BY <1>1, <1>3, PrefixIs
<1>5. PICK h2, sep2 : Parsed(a, h2, sep2)
  BY ParsedIs
<1>6. h2 = h /\ sep2 = sep
  BY <1>1, <1>2, <1>4, <1>5, SameHead
<1> DEFINE n == Len(h) + sep
           P == SubSeq(s, 1, n)
<1>7. ScanChunks[After(a, n)].state = "complete"
  <2>1. ScanHead(h).coding = "chunked"
    BY <1>1 DEF Account
  <2> QED
    BY <1>5, <1>6, <2>1, Zenon DEF Parsed
<1>8. n \in Nat /\ n <= Len(s)
  BY <1>1
<1> HIDE DEF n
<1>9. P \in Seq(HttpLexemes) /\ Len(P) = n /\ Begins(s, P)
  BY <1>1, <1>8, PrefixIs
<1> HIDE DEF P
<1>10. s = P \o After(s, n) /\ After(s, n) \in Seq(HttpLexemes)
  BY <1>1, <1>9, BeginsWith
<1>11. Begins(a, P)
  <2>1. Len(a) \in Nat
    BY LenProperties
  <2> QED
    BY <1>1, <1>9, <2>1, BeginsOn, Zenon
<1> DEFINE w == After(s, n)
<1>12. w \in Seq(HttpLexemes) /\ Begins(a, P \o w)
  BY <1>10
<1> HIDE DEF w
<1>13. After(a, n) \in Seq(HttpLexemes) /\ Begins(After(a, n), w)
  BY <1>9, <1>11, <1>12, BeginsWith
<1> QED
  BY <1>7, <1>13, Zenon DEF NeverWhole, n, w

-----------------------------------------------------------------------------
(* A rule broken *)

LEMMA LexemeOn ==
    ASSUME NEW s \in Seq(HttpLexemes), NEW c \in HttpLexemes
    PROVE  Append(s, c) = s \o <<c>>
OBVIOUS

LEMMA BrokenRequestLine ==
    ASSUME GoodNow, ~flawed, NEW l \in {"1.1", "1.0", "short"}, RequestLine(l), flawed'
    PROVE  Doomed(text')
<1>1. phase = "start" /\ text' = Append(text, l) /\ l = "short"
  BY Zenon DEF RequestLine, Send, Flaw
<1>2. text = <<>>
  BY <1>1, GoodKinds DEF GoodNow
<1>3. text' = <<"short">>
  BY <1>1, <1>2
<1> DEFINE w == <<"short">>
<1>4. "short" \in HttpLexemes
  BY DEF HttpLexemes
<1>5. w \in Seq(HttpLexemes) /\ w # <<>> /\ Len(w) = 1 /\ w[1] = "short"
  BY <1>4
<1>6. InLine(w)
  BY WithoutOne, "short" # "LF", Zenon DEF InLine
<1>7. \A v \in {"1.1", "1.0"} : ~Begins(<<v>>, w)
  <2>1. SUFFICES ASSUME NEW v \in {"1.1", "1.0"}, Begins(<<v>>, w) PROVE FALSE
    OBVIOUS
  <2>2. <<v>>[1] = v /\ 1 \in 1 .. 1
    OBVIOUS
  <2> HIDE DEF w
  <2>3. <<v>>[1] = "short"
    BY <1>5, <2>1, <2>2 DEF Begins
  <2> QED
    BY <2>1, <2>2, <2>3
<1> HIDE DEF w
<1>8. Doomed(w)
  BY <1>5, <1>6, <1>7, DoomedFirst
<1> QED
  BY <1>3, <1>8, Zenon DEF w

LEMMA BrokenFieldLine ==
    ASSUME GoodNow, ~flawed, NEW l \in Fields \cup {"fold", "nocolon"}, FieldLine(l), flawed'
    PROVE  Doomed(text')
<1> DEFINE x == Account(head)
<1>1. /\ phase = "fields" /\ line = <<>> /\ text' = Append(text, l)
      /\ \/ l \in {"fold", "nocolon", "CLbad", "gzip"}
         \/ l = "Host" /\ head.hosts = 1
         \/ l \in Codings /\ (head.length # -1 \/ head.coding # "none")
         \/ l \in DOMAIN LengthOf /\ (head.coding # "none" \/ head.length \notin {-1, LengthOf[l]})
         \/ head.fields = MaxHeaders
  BY Zenon DEF FieldLine, Send, Flaw
<1>2. HeadState(head) /\ text \in Seq(HttpLexemes) /\ \E c : text = c \o line /\ AtFields(c, line, head)
  <2>1. phase = "fields"
    BY <1>1
  <2> QED
    BY <2>1, GoodKinds DEF GoodNow
<1>3. PICK c : text = c \o <<>> /\ AtFields(c, <<>>, head)
  BY <1>1, <1>2, Zenon
<1>4. ClosedOk(c, x, head.bare, head.version, head.hosts)
  BY <1>3, Zenon DEF AtFields
<1>5. c \in Seq(HttpLexemes) /\ Closed(c) /\ c # <<>> /\ NoneBlank(c) /\ Known(c, x)
  BY <1>4, Zenon DEF ClosedOk
<1>6. text = c
  BY <1>3, <1>5
<1>7. /\ l \in HttpLexemes /\ l # "CR" /\ l # "LF"
  BY LexemeKinds, Zenon
<1>8. text' = c \o <<l>>
  <2>1. Append(c, l) = c \o <<l>>
    BY <1>5, <1>7, LexemeOn
  <2> QED
    BY <1>1, <1>6, <2>1
<1>9. /\ x \in ScanStates /\ x.verdict = "ok" /\ x.count = head.fields
      /\ x.length = head.length /\ x.coding = head.coding
  BY <1>2, AccountType, Zenon
<1> HIDE DEF x
<1>10. Refused(x, l) \/ l = "nocolon" \/ (l = "Host" /\ head.hosts = 1)
  BY <1>1, <1>9, Zenon DEF Refused
<1>11. CASE l = "nocolon"
  BY <1>5, <1>8, <1>11, DoomedName
<1>12. CASE l = "Host" /\ head.hosts = 1
  BY <1>4, <1>8, <1>12, DoomedHost
<1>13. CASE Refused(x, l)
  <2>1. \A r \in Seq(HttpLexemes) : Begins(r, <<l>>) => Dead(ScanLine(x, r))
    BY <1>9, <1>13, RefusedField
  <2>2. InLine(<<l>>)
    BY <1>7, WithoutOne, Zenon DEF InLine
  <2>3. <<l>> \in Seq(HttpLexemes) /\ <<l>> # <<>> /\ <<l>>[Len(<<l>>)] # "CR"
    BY <1>7
  <2>4. Doomed(c \o <<l>>)
    BY <1>5, <2>1, <2>2, <2>3, DoomedLine
  <2> QED
    BY <1>8, <2>4
<1> QED
  BY <1>10, <1>11, <1>12, <1>13

\* The line that the client is sending.
LEMMA LineKinds ==
    ASSUME GoodNow, phase = "line", ~Returned
    PROVE  /\ HeadState(head) /\ text \in Seq(HttpLexemes)
           /\ line \in Seq(HttpLexemes) /\ InLine(line) /\ line # <<>> /\ line[Len(line)] # "CR"
           /\ \/ text = line /\ line = <<head.version>>
              \/ \E c, x, k : /\ text = c \o line /\ x \in ScanStates /\ x.verdict = "ok"
                              /\ ClosedOk(c, x, head.bare, head.version, k)
                              /\ line[1] \in Fields /\ (line[1] \notin Plain2 => Len(line) = 1)
<1>1. /\ HeadState(head) /\ text \in Seq(HttpLexemes)
      /\ (text = line /\ AtFirst(line, head)) \/ \E c : text = c \o line /\ AtField(c, line, head)
  BY GoodKinds DEF GoodNow
<1>2. ~Returns(line)
  BY ReturnedIs, Zenon
<1>3. CASE text = line /\ AtFirst(line, head)
  <2>1. line = <<head.version>>
    <3>1. line = <<head.version>> \/ line = <<head.version, "CR">>
      BY <1>3 DEF AtFirst
    <3>2. Returns(<<head.version, "CR">>)
      BY <1>1, FirstLines
    <3> QED
      BY <1>2, <3>1, <3>2
  <2>2. /\ line \in Seq(HttpLexemes) /\ InLine(line) /\ Len(line) = 1 /\ line[1] = head.version
    BY <1>1, <2>1, FirstLines
  <2>3. head.version # "CR" /\ line # <<>>
    <3>1. head.version \in {"1.1", "1.0"}
      BY <1>1, AccountType
    <3> QED
      BY <2>1, <3>1
  <2> QED
    BY <1>1, <1>3, <2>1, <2>2, <2>3
<1>4. CASE \E c : text = c \o line /\ AtField(c, line, head)
  <2>1. PICK c : text = c \o line /\ AtField(c, line, head)
    BY <1>4
  <2>2. PICK x, k, b : FieldAt(c, line, head, x, k, b)
    BY <2>1, Zenon DEF AtField
  <2>3. /\ x \in ScanStates /\ x.verdict = "ok" /\ ClosedOk(c, x, head.bare, head.version, k)
        /\ FieldBody(x, k, b, head) /\ FieldLineIs(line, b, head.bare)
    BY <2>2, Zenon DEF FieldAt
  <2>4. line \in Seq(HttpLexemes) /\ InLine(line) /\ line # <<>> /\ line[1] \in Fields /\ line = b /\ b[Len(b)] # "CR"
    BY <1>2, <2>3, FieldLines
  <2>5. b[1] \notin Plain2 => Len(b) = 1
    BY <2>3, Zenon DEF FieldBody
  <2> QED
    BY <1>1, <2>1, <2>3, <2>4, <2>5, Zenon
<1> QED
  BY <1>1, <1>3, <1>4

LEMMA BrokenLineByte ==
    ASSUME GoodNow, ~flawed, LineByte, flawed'
    PROVE  Doomed(text')
<1>1. /\ phase = "line" /\ text' = Append(text, "x") /\ ~Returned
      /\ line[1] \notin {"Host", "Other", "fold", "nocolon"} \/ Len(line) = MaxHeaderLine
  BY Zenon DEF LineByte, Send, Flaw
<1>2. /\ HeadState(head) /\ text \in Seq(HttpLexemes)
      /\ line \in Seq(HttpLexemes) /\ InLine(line) /\ line # <<>> /\ line[Len(line)] # "CR"
      /\ \/ text = line /\ line = <<head.version>>
         \/ \E c, x, k : /\ text = c \o line /\ x \in ScanStates /\ x.verdict = "ok"
                         /\ ClosedOk(c, x, head.bare, head.version, k)
                         /\ line[1] \in Fields /\ (line[1] \notin Plain2 => Len(line) = 1)
  BY <1>1, LineKinds
<1>3. "x" \in HttpLexemes /\ "x" # "CR" /\ "x" # "LF"
  BY Bytes, Zenon
<1> DEFINE w == Append(line, "x")
<1>4. /\ w \in Seq(HttpLexemes) /\ Len(w) = Len(line) + 1 /\ Len(line) \in Nat /\ w[Len(line) + 1] = "x"
      /\ \A i \in 1 .. Len(line) : w[i] = line[i]
  BY <1>2, <1>3, TextMore
<1> HIDE DEF w
<1>5. w # <<>> /\ w[Len(w)] # "CR" /\ InLine(w)
  <2>1. w # <<>> /\ w[Len(w)] # "CR"
    BY <1>3, <1>4
  <2>2. ASSUME NEW i \in 1 .. Len(w) PROVE w[i] # "LF"
    <3>1. i \in 1 .. Len(line) \/ i = Len(line) + 1
      BY <1>4
    <3> QED
      BY <1>2, <1>3, <1>4, <3>1 DEF InLine, Without
  <2> QED
    BY <2>1, <2>2, Zenon DEF InLine, Without
<1>6. CASE text = line /\ line = <<head.version>>
  <2>1. text' = w
    BY <1>1, <1>6 DEF w
  <2>2. \A v \in {"1.1", "1.0"} : ~Begins(<<v>>, w)
    <3>1. Len(line) = 1
      BY <1>6
    <3>2. \A v : Len(<<v>>) = 1
      OBVIOUS
    <3> QED
      BY <1>4, <3>1, <3>2 DEF Begins
  <2> QED
    BY <1>4, <1>5, <2>1, <2>2, DoomedFirst
<1>7. CASE \E c, x, k : /\ text = c \o line /\ x \in ScanStates /\ x.verdict = "ok"
                        /\ ClosedOk(c, x, head.bare, head.version, k)
                        /\ line[1] \in Fields /\ (line[1] \notin Plain2 => Len(line) = 1)
  <2>1. PICK c, x, k : /\ text = c \o line /\ x \in ScanStates /\ x.verdict = "ok"
                       /\ ClosedOk(c, x, head.bare, head.version, k)
                       /\ line[1] \in Fields /\ (line[1] \notin Plain2 => Len(line) = 1)
    BY <1>7
  <2>2. c \in Seq(HttpLexemes) /\ Closed(c) /\ c # <<>> /\ NoneBlank(c) /\ Known(c, x)
    BY <2>1, Zenon DEF ClosedOk
  <2>3. text' = c \o w
    <3>1. Append(c \o line, "x") = c \o w
      BY <1>2, <1>3, <2>2, AppendOn, Zenon DEF w
    <3> QED
      BY <1>1, <2>1, <3>1
  <2>4. \A r \in Seq(HttpLexemes) : Begins(r, w) => Dead(ScanLine(x, r))
    <3> SUFFICES ASSUME NEW r \in Seq(HttpLexemes), Begins(r, w) PROVE Dead(ScanLine(x, r))
      OBVIOUS
    <3>1. CASE Len(line) = MaxHeaderLine
      <4>1. Len(r) > MaxHeaderLine
        <5>1. Len(w) <= Len(r) /\ Len(r) \in Nat
          BY LenProperties DEF Begins
        <5> QED
          BY <1>4, <3>1, <5>1
      <4> QED
        BY <2>1, <4>1, GiantLine
    <3>2. CASE line[1] \notin {"Host", "Other", "fold", "nocolon"}
      <4>1. line[1] \notin Plain2 /\ line[1] \in Lengths \cup Codings
        BY <2>1, <3>2 DEF Plain2, Fields
      <4>2. line = <<line[1]>>
        BY <1>2, <2>1, <4>1, OneLexeme
      <4>3. w = <<line[1], "x">>
        BY <4>2, AppendTwo, Zenon DEF w
      <4> QED
        BY <2>1, <4>1, <4>3, LongField
    <3> QED
      BY <1>1, <3>1, <3>2
  <2> QED
    BY <1>4, <1>5, <2>2, <2>3, <2>4, DoomedLine
<1> QED
  BY <1>2, <1>6, <1>7

LEMMA BrokenLineEnd ==
    ASSUME GoodNow, ~flawed, LineEnd, flawed'
    PROVE  Doomed(text')
<1>1. phase = "line" /\ text' = Append(text, "LF") /\ ~Returned /\ head.version # "1.0"
  BY DEF LineEnd, Send, Flaw, Newer
<1>2. /\ HeadState(head) /\ text \in Seq(HttpLexemes)
      /\ line \in Seq(HttpLexemes) /\ InLine(line) /\ line # <<>> /\ line[Len(line)] # "CR"
      /\ \/ text = line /\ line = <<head.version>>
         \/ \E c, x, k : /\ text = c \o line /\ x \in ScanStates /\ x.verdict = "ok"
                         /\ ClosedOk(c, x, head.bare, head.version, k)
                         /\ line[1] \in Fields /\ (line[1] \notin Plain2 => Len(line) = 1)
  BY <1>1, LineKinds
<1>3. head.version = "1.1"
  <2>1. head.version \in {"1.1", "1.0"}
    BY <1>2, AccountType
  <2> QED
    BY <1>1, <2>1
<1>4. "LF" \in HttpLexemes
  BY Bytes, Zenon
<1>5. text' = text \o <<"LF">>
  <2>1. text \in Seq(HttpLexemes)
    BY <1>2
  <2>2. Append(text, "LF") = text \o <<"LF">>
    BY <1>4, <2>1, LexemeOn
  <2>3. text' = Append(text, "LF")
    BY <1>1
  <2> QED
    BY <2>2, <2>3, Zenon
<1>6. CASE text = line /\ line = <<head.version>>
  <2> DEFINE c == <<>>
  <2>1. c \in Seq(HttpLexemes) /\ Closed(c) /\ NoneBlank(c) /\ text = c \o line
    <3>1. Ends(c) = {}
      BY DEF Ends
    <3>2. text = c \o line
      BY <1>2, <1>6
    <3> QED
      BY <3>1, <3>2 DEF Closed, NoneBlank
  <2>2. OneLineMore(c, line, text, text \o <<"LF">>)
    BY <1>2, <2>1, LinesGrow
  <2>3. FirstLine(text) = line
    BY <2>2, Zenon DEF OneLineMore
  <2>4. WithoutCR(FirstLine(text)) = <<"1.1">>
    <3>1. WithoutCR(line) = line
      BY <1>2, ReturnDropped
    <3> QED
      BY <1>3, <1>6, <2>3, <3>1
  <2> HIDE DEF c
  <2> QED
    BY <1>2, <1>5, <2>1, <2>4, DoomedBare
<1>7. CASE \E c, x, k : /\ text = c \o line /\ x \in ScanStates /\ x.verdict = "ok"
                        /\ ClosedOk(c, x, head.bare, head.version, k)
                        /\ line[1] \in Fields /\ (line[1] \notin Plain2 => Len(line) = 1)
  <2>1. PICK c, x, k : text = c \o line /\ ClosedOk(c, x, head.bare, head.version, k)
    BY <1>7, Zenon
  <2>2. /\ c \in Seq(HttpLexemes) /\ Closed(c) /\ c # <<>> /\ NoneBlank(c)
        /\ WithoutCR(FirstLine(c)) = <<head.version>>
    BY <2>1, Zenon DEF ClosedOk
  <2>3. OneLineMore(c, line, text, text \o <<"LF">>)
    BY <1>2, <2>1, <2>2, LinesGrow
  <2>4. FirstLine(text) = FirstLine(c)
    BY <2>2, <2>3, Zenon DEF OneLineMore
  <2>5. WithoutCR(FirstLine(text)) = <<"1.1">>
    BY <1>3, <2>2, <2>4
  <2> QED
    BY <1>2, <1>5, <2>1, <2>2, <2>5, DoomedBare
<1> QED
  BY <1>2, <1>6, <1>7

LEMMA BrokenHeadEnd ==
    ASSUME GoodNow, ~flawed, HeadEnd, flawed'
    PROVE  Doomed(text')
<1>1. /\ phase = "fields" /\ text' = Append(text, "LF") /\ Len(text) + 1 < Npos /\ head.version # "1.0"
      /\ line \in {<<>>, <<"CR">>} /\ (line = <<>> \/ head.hosts = 0)
  BY Zenon DEF HeadEnd, Send, Flaw, Newer
<1>2. HeadState(head) /\ text \in Seq(HttpLexemes) /\ \E c : text = c \o line /\ AtFields(c, line, head)
  <2>1. phase = "fields"
    BY <1>1
  <2> QED
    BY <2>1, GoodKinds DEF GoodNow
<1>3. PICK c : text = c \o line /\ AtFields(c, line, head)
  BY <1>2
<1>4. /\ ClosedOk(c, Account(head), head.bare, head.version, head.hosts)
      /\ \E h : Ready(h, head) /\ c = h \o HeadBreak(head.bare)
  BY <1>3, Zenon DEF AtFields
<1>5. /\ c \in Seq(HttpLexemes) /\ Closed(c) /\ c # <<>> /\ NoneBlank(c)
      /\ WithoutCR(FirstLine(c)) = <<head.version>> /\ (head.bare => head.version = "1.0")
  BY <1>4, Zenon DEF ClosedOk
<1>6. head.version = "1.1" /\ ~head.bare
  <2>1. head.version \in {"1.1", "1.0"}
    BY <1>2, AccountType
  <2> QED
    BY <1>1, <1>5, <2>1
<1>7. PICK h : Ready(h, head) /\ c = h \o CrLf
  BY <1>4, <1>6, Zenon DEF HeadBreak
<1>8. "LF" \in HttpLexemes
  BY Bytes, Zenon
<1>9. text' = text \o <<"LF">>
  <2>1. text \in Seq(HttpLexemes)
    BY <1>2
  <2>2. Append(text, "LF") = text \o <<"LF">>
    BY <1>8, <2>1, LexemeOn
  <2>3. text' = Append(text, "LF")
    BY <1>1
  <2> QED
    BY <2>2, <2>3, Zenon
<1>10. CASE line = <<>>
  <2>1. text = c
    BY <1>3, <1>5, <1>10
  <2> DEFINE n == Len(c)
  <2>2. n > 1 /\ c[n - 1] = "CR"
    <3>1. h \in Seq(HttpLexemes)
      BY <1>7, Zenon DEF Ready
    <3> DEFINE e == CrLf
    <3>2. e \in Seq(HttpLexemes) /\ Len(e) = 2 /\ e[1] = "CR"
      BY Patterns DEF CrLf
    <3>6. c = h \o e
      BY <1>7
    <3> HIDE DEF e
    <3>7. e \in Seq(HttpLexemes)
      BY <3>2
    <3>3. Len(h \o e) = Len(h) + Len(e) /\ \A i \in 1 .. Len(e) : (h \o e)[Len(h) + i] = e[i]
      BY <3>1, <3>7, ConcatParts
    <3>4. Len(h) \in Nat /\ 1 \in 1 .. 2
      BY <3>1, LenProperties
    <3>5. n = Len(h) + 2 /\ c[Len(h) + 1] = "CR"
      BY <3>2, <3>3, <3>4, <3>6
    <3> QED
      BY <3>4, <3>5
  <2> HIDE DEF n
  <2>3. WithoutCR(FirstLine(c)) = <<"1.1">>
    BY <1>5, <1>6
  <2>4. Doomed(c \o <<"LF">>)
    BY <1>5, <2>2, <2>3, DoomedEnd DEF n
  <2> QED
    BY <1>9, <2>1, <2>4
<1>11. CASE line = <<"CR">> /\ head.hosts = 0
  <2>1. text = c \o <<"CR">>
    BY <1>3, <1>11
  <2>2. Len(c) + 1 < Npos
    <3>1. "CR" \in HttpLexemes
      BY Bytes, Zenon
    <3>2. Len(c \o <<"CR">>) = Len(c) + 1
      BY <1>5, <3>1, Added, Zenon
    <3>3. Len(c) \in Nat
      BY <1>5, LenProperties
    <3> QED
      BY <1>1, <2>1, <3>2, <3>3, HttpAssumption
  <2>3. Doomed((c \o <<"CR">>) \o <<"LF">>)
    BY <1>5, <1>6, <1>7, <1>11, <2>2, DoomedHostless
  <2> QED
    BY <1>9, <2>1, <2>3
<1> QED
  BY <1>1, <1>10, <1>11

\* One byte that a chunked body cannot go on with dooms the request.
LEMMA ChunkDooms ==
    ASSUME NEW s, NEW h, NEW sep, NEW hd, FineHead(s, h, sep, hd), hd.coding = "chunked", NEW c \in HttpLexemes,
           \A r \in Seq(HttpLexemes) : r = After(s, Len(h) + sep) => NeverWhole(Append(r, c))
    PROVE  Doomed(Append(s, c))
<1>1. /\ FineHead(Append(s, c), h, sep, hd) /\ After(s, Len(h) + sep) \in Seq(HttpLexemes)
      /\ After(Append(s, c), Len(h) + sep) = Append(After(s, Len(h) + sep), c)
  BY FineStays
<1>2. NeverWhole(Append(After(s, Len(h) + sep), c))
  BY <1>1, Zenon
<1>3. NeverWhole(After(Append(s, c), Len(h) + sep))
  BY <1>1, <1>2, Zenon
<1> QED
  BY <1>1, <1>3, DoomedChunks, Zenon

LEMMA BrokenChunk ==
    ASSUME NEW s, NEW p \in {"size", "extension", "data", "chunk end", "trailer"}, NEW hd, NEW l, NEW n, NEW d,
           BodyAt(s, p, hd, l, n, d), NEW c \in HttpLexemes,
           \A r \in Seq(HttpLexemes) : ChunkedAt(r, p, l, n, d) => NeverWhole(Append(r, c))
    PROVE  Doomed(Append(s, c))
<1>1. PICK h, sep : FineHead(s, h, sep, hd) /\ RestAt(After(s, Len(h) + sep), p, hd, l, n, d)
  BY Zenon DEF BodyAt
<1>2. hd.coding = "chunked" /\ ChunkedAt(After(s, Len(h) + sep), p, l, n, d)
  BY <1>1, RestKind, Zenon
<1>3. \A r \in Seq(HttpLexemes) : r = After(s, Len(h) + sep) => NeverWhole(Append(r, c))
  BY <1>2, Zenon
<1>4. FineHead(s, h, sep, hd)
  BY <1>1, Zenon
<1> QED
  BY <1>2, <1>3, <1>4, ChunkDooms, Zenon

\* A chunk size that a size_t does not hold.
LEMMA SizeOverflows ==
    ASSUME NEW r, NEW l, NEW n, NEW d, AtSize(r, l, n, d), ~Returns(l), NEW c \in DOMAIN Hex, n * 16 + Hex[c] > Npos
    PROVE  NeverWhole(Append(r, c))
<1>1. PICK P, ds : DigitsAt(P, ds, r, l, n, d)
  BY SizeParts, Zenon
<1>2. /\ Joins(P, d) /\ ds \in Seq(DOMAIN Hex) /\ n \in Nat /\ ChunkSize(ds) = n /\ r = P \o ds
      /\ P \in Seq(HttpLexemes) /\ ds \in Seq(HttpLexemes)
  BY <1>1, Zenon DEF DigitsAt
<1>3. c \in HttpLexemes
  BY Bytes, Zenon
<1>4. Append(r, c) = P \o Append(ds, c) /\ Append(ds, c) \in Seq(HttpLexemes)
  BY <1>2, <1>3, AppendOn, Zenon
<1>5. Append(ds, c) = ds \o <<c>> /\ Append(ds, c) \in Seq(DOMAIN Hex)
  <2>1. ds \in Seq(DOMAIN Hex)
    BY <1>2
  <2> QED
    BY <2>1, AppendIs, Zenon
<1>6. ChunkSize(ds \o <<c>>) = NextSize(n, Hex[c])
  BY <1>2, ChunkSizeMore, Zenon
<1>7. NextSize(n, Hex[c]) = -1
  <2> DEFINE e == Hex[c]
  <2>1. n \in Nat /\ e \in Nat /\ Npos \in Nat /\ n * 16 + e > Npos
    BY <1>2, HexValue, HttpAssumption
  <2> HIDE DEF e
  <2>2. n > (Npos - e) \div 16
    BY <2>1
  <2>3. NextSize(n, e) = -1
    BY <2>2 DEF NextSize
  <2> QED
    BY <2>3 DEF e
<1>8. NeverWhole(Append(ds, c))
  <2>1. ChunkSize(Append(ds, c)) = -1
    BY <1>5, <1>6, <1>7, Zenon
  <2> QED
    BY <1>5, <2>1, NeverHeld, Zenon
<1> QED
  BY <1>2, <1>4, <1>8, JoinsNever, Zenon

\* A size line that begins with no digit, or goes on with anything but a digit,
\* a semicolon or its end.
LEMMA SizeGoesOn ==
    ASSUME NEW r, NEW l, NEW n, NEW d, AtSize(r, l, n, d), ~Returns(l),
           NEW c \in HttpLexemes, c \notin DOMAIN Hex, l = <<>> \/ Stray(c)
    PROVE  NeverWhole(Append(r, c))
<1>1. PICK P, ds : DigitsAt(P, ds, r, l, n, d)
  BY SizeParts, Zenon
<1>2. /\ Joins(P, d) /\ ds \in Seq(DOMAIN Hex) /\ r = P \o ds /\ l = ds
      /\ P \in Seq(HttpLexemes) /\ ds \in Seq(HttpLexemes)
  BY <1>1, Zenon DEF DigitsAt
<1>3. Append(r, c) = P \o Append(ds, c) /\ Append(ds, c) \in Seq(HttpLexemes)
  BY <1>2, AppendOn, Zenon
<1>4. Append(ds, c) = ds \o <<c>>
  BY <1>2, LexemeOn
<1>5. NeverWhole(Append(ds, c))
  <2>1. ds = <<>> \/ Stray(c)
    BY <1>2, Zenon
  <2>2. NeverWhole(ds \o <<c>>)
    BY <1>2, <2>1, NeverSized, Zenon
  <2> QED
    BY <1>4, <2>2, Zenon
<1> QED
  BY <1>2, <1>3, <1>5, JoinsNever, Zenon

\* A byte more than the size of the chunk says.
LEMMA ChunkOverruns ==
    ASSUME NEW r, NEW n, NEW d, AtChunkEnd(r, <<"x">>, n, d)
    PROVE  NeverWhole(Append(r, "x"))
<1> DEFINE l == <<"x">>
<1>1. PICK P, D, b, w : EndFrom(P, D, b, w, r, l, n, d)
  BY EndParts, Zenon
<1>2. "x" \in HttpLexemes /\ <<"x">> \in Seq(HttpLexemes) /\ "x" # "CR"
  <2>1. "x" \in HttpLexemes
    BY Bytes, Zenon
  <2> QED
    BY <2>1
<1>3. ~Returns(l)
  BY <1>2 DEF Returns, Last
<1>4. /\ Joins(P, D) /\ SizeLine(b, Len(w)) /\ r = P \o Chunk(b, l) /\ w = l
      /\ P \in Seq(HttpLexemes) /\ b \in Seq(HttpLexemes)
  BY <1>1, <1>3, Zenon DEF EndFrom
<1>5. SizeLine(b, 1)
  <2>1. Len(l) = 1
    OBVIOUS
  <2> QED
    BY <1>4, <2>1, Zenon
<1>6. Append(r, "x") = P \o Chunk(b, Append(l, "x")) /\ Append(l, "x") = <<"x", "x">>
  <2>1. Append(l, "x") = <<"x", "x">>
    BY AppendTwo, Zenon
  <2>2. P \in Seq(HttpLexemes) /\ b \in Seq(HttpLexemes) /\ l \in Seq(HttpLexemes) /\ "x" \in HttpLexemes
    BY <1>2, <1>4
  <2>3. Append(P \o Chunk(b, l), "x") = P \o Chunk(b, Append(l, "x"))
    BY <2>2, ChunkGrows
  <2>4. r = P \o Chunk(b, l)
    BY <1>4
  <2> QED
    BY <2>1, <2>3, <2>4, Zenon
<1>7. NeverWhole(Chunk(b, <<"x", "x">>))
  BY <1>5, NeverClosed, Zenon
<1>8. Chunk(b, <<"x", "x">>) \in Seq(HttpLexemes)
  <2>1. <<"x", "x">> \in Seq(HttpLexemes) /\ CrLf \in Seq(HttpLexemes)
    BY <1>2, Patterns
  <2>2. b \o CrLf \in Seq(HttpLexemes)
    BY <1>4, <2>1, AppendOn, <1>2, Zenon
  <2>3. (b \o CrLf) \o <<"x", "x">> \in Seq(HttpLexemes)
    BY <2>1, <2>2, AppendOn, <1>2, Zenon
  <2> QED
    BY <2>3, Zenon DEF Chunk, Ended
<1>9. NeverWhole(P \o Chunk(b, <<"x", "x">>))
  BY <1>4, <1>7, <1>8, JoinsNever, Zenon
<1> QED
  BY <1>6, <1>9, Zenon

LEMMA BrokenSizeDigit ==
    ASSUME GoodNow, ~flawed, NEW c \in DOMAIN Hex, SizeDigit(c), flawed'
    PROVE  Doomed(text')
<1>1. phase = "size" /\ text' = Append(text, c) /\ ~Returned /\ left * 16 + Hex[c] > Npos
  BY DEF SizeDigit, Send, Flaw
<1>2. c \in HttpLexemes /\ ~Returns(line)
  BY <1>1, Bytes, ReturnedIs, Zenon
<1>3. BodyAt(text, "size", head, line, left, body)
  <2>1. phase \notin {"start", "line", "fields"}
    BY <1>1
  <2> QED
    BY <1>1, <2>1, GoodKinds, Zenon DEF GoodNow
<1>4. ASSUME NEW r \in Seq(HttpLexemes), ChunkedAt(r, "size", line, left, body)
      PROVE  NeverWhole(Append(r, c))
  <2>1. AtSize(r, line, left, body)
    BY <1>4 DEF ChunkedAt
  <2> QED
    BY <1>1, <1>2, <2>1, SizeOverflows, Zenon
<1>5. Doomed(Append(text, c))
  BY <1>2, <1>3, <1>4, BrokenChunk, Zenon
<1> QED
  BY <1>1, <1>5, Zenon

LEMMA BrokenExtension ==
    ASSUME GoodNow, ~flawed, NEW c \in {";", "x"}, Extension(c), flawed'
    PROVE  Doomed(text')
<1>1. phase = "size" /\ text' = Append(text, c) /\ ~Returned /\ (line = <<>> \/ c # ";")
  BY Zenon DEF Extension, Send, Flaw
<1>2. c \in HttpLexemes /\ ~Returns(line)
  BY <1>1, Bytes, ReturnedIs, Zenon
<1>3. BodyAt(text, "size", head, line, left, body)
  <2>1. phase \notin {"start", "line", "fields"}
    BY <1>1, Zenon
  <2> QED
    BY <1>1, <2>1, GoodKinds, Zenon DEF GoodNow
<1>4. c \notin DOMAIN Hex /\ (line = <<>> \/ Stray(c))
  <2>1. DOMAIN Hex = {"0", "1"}
    BY LexemeKinds, Zenon
  <2>2. c # "CR" /\ c # "0" /\ c # "1"
    BY Zenon
  <2> QED
    BY <1>1, <2>1, <2>2, Zenon DEF Stray
<1>5. ASSUME NEW r \in Seq(HttpLexemes), ChunkedAt(r, "size", line, left, body)
      PROVE  NeverWhole(Append(r, c))
  <2>1. AtSize(r, line, left, body)
    BY <1>5, Zenon DEF ChunkedAt
  <2> QED
    BY <1>2, <1>4, <2>1, SizeGoesOn, Zenon
<1>6. Doomed(Append(text, c))
  BY <1>2, <1>3, <1>5, BrokenChunk, Zenon
<1> QED
  BY <1>1, <1>6, Zenon

LEMMA BrokenChunkReturn ==
    ASSUME GoodNow, ~flawed, ChunkReturn, flawed'
    PROVE  Doomed(text')
<1>1. phase = "size" /\ text' = Append(text, "CR") /\ ~Returned /\ line = <<>>
  BY Zenon DEF ChunkReturn, Send, Flaw
<1>2. "CR" \in HttpLexemes /\ ~Returns(line) /\ "CR" \notin DOMAIN Hex
  <2>1. DOMAIN Hex = {"0", "1"}
    BY LexemeKinds, Zenon
  <2>2. "CR" \notin DOMAIN Hex
    BY <2>1
  <2> QED
    BY <1>1, <2>2, Bytes, ReturnedIs, Zenon
<1>3. BodyAt(text, "size", head, line, left, body)
  <2>1. phase \notin {"start", "line", "fields"}
    BY <1>1
  <2> QED
    BY <1>1, <2>1, GoodKinds, Zenon DEF GoodNow
<1>4. ASSUME NEW r \in Seq(HttpLexemes), ChunkedAt(r, "size", line, left, body)
      PROVE  NeverWhole(Append(r, "CR"))
  <2>1. AtSize(r, line, left, body)
    BY <1>4 DEF ChunkedAt
  <2> QED
    BY <1>1, <1>2, <2>1, SizeGoesOn, Zenon
<1>5. Doomed(Append(text, "CR"))
  BY <1>2, <1>3, <1>4, BrokenChunk, Zenon
<1> QED
  BY <1>1, <1>5, Zenon

LEMMA BrokenChunkEnd ==
    ASSUME GoodNow, ChunkJunk
    PROVE  Doomed(text')
<1>1. phase = "chunk end" /\ text' = Append(text, "x") /\ line = <<"x">>
  BY Zenon DEF ChunkJunk, Send
<1>2. "x" \in HttpLexemes
  BY Bytes, Zenon
<1>3. BodyAt(text, "chunk end", head, line, left, body)
  <2>1. phase \notin {"start", "line", "fields"}
    BY <1>1
  <2> QED
    BY <1>1, <2>1, GoodKinds, Zenon DEF GoodNow
<1>4. ASSUME NEW r \in Seq(HttpLexemes), ChunkedAt(r, "chunk end", line, left, body)
      PROVE  NeverWhole(Append(r, "x"))
  <2>1. AtChunkEnd(r, <<"x">>, left, body)
    BY <1>1, <1>4 DEF ChunkedAt
  <2> QED
    BY <2>1, ChunkOverruns, Zenon
<1>5. Doomed(Append(text, "x"))
  BY <1>2, <1>3, <1>4, BrokenChunk, Zenon
<1> QED
  BY <1>1, <1>5, Zenon

\* The step that breaks a rule dooms the request.
LEMMA BreakDooms ==
    ASSUME GoodNow, ~flawed, HttpRead, flawed'
    PROVE  Doomed(text')
<1>1. ~LineReturn /\ ~HeadReturn /\ ~BodyByte
  BY Zenon DEF LineReturn, HeadReturn, BodyByte
<1>2. ~ChunkLine /\ ~TrailerByte /\ ~NextRequest
  BY Zenon DEF ChunkLine, TrailerByte, NextRequest
<1>3. CASE \E l \in {"1.1", "1.0", "short"} : RequestLine(l)
  BY <1>3, BrokenRequestLine, Zenon
<1>4. CASE \E l \in Fields \cup {"fold", "nocolon"} : FieldLine(l)
  BY <1>4, BrokenFieldLine, Zenon
<1>5. CASE LineByte \/ LineEnd \/ HeadEnd
  BY <1>5, BrokenLineByte, BrokenLineEnd, BrokenHeadEnd, Zenon
<1>6. CASE \E d \in DOMAIN Hex : SizeDigit(d)
  BY <1>6, BrokenSizeDigit, Zenon
<1>7. CASE \E l \in {";", "x"} : Extension(l)
  BY <1>7, BrokenExtension, Zenon
<1>8. CASE ChunkReturn \/ ChunkJunk
  BY <1>8, BrokenChunkReturn, BrokenChunkEnd, Zenon
<1> QED
  BY <1>1, <1>2, <1>3, <1>4, <1>5, <1>6, <1>7, <1>8, Zenon DEF HttpRead

\* A request that has broken a rule is doomed, one that has not is as the
\* client's account says.
HttpSound ==
    /\ HttpGood
    /\ text \in Seq(HttpLexemes)
    /\ flawed /\ ~edge => Doomed(text)

LEMMA SoundStarts == HttpInit => HttpSound
<1> SUFFICES ASSUME HttpInit PROVE HttpSound
  OBVIOUS
<1>1. text = <<>> /\ flawed = FALSE
  BY DEF HttpInit
<1>2. text \in Seq(HttpLexemes)
  BY <1>1
<1> QED
  BY <1>1, <1>2, GoodStarts, Zenon DEF HttpSound

LEMMA SoundStep == HttpSound /\ [HttpRead]_httpVars => HttpSound'
<1> SUFFICES ASSUME HttpSound, [HttpRead]_httpVars PROVE HttpSound'
  OBVIOUS
<1>1. HttpGood'
  BY GoodStep, Zenon DEF HttpSound
<1>2. CASE UNCHANGED httpVars
  <2>1. text' = text /\ flawed' = flawed /\ edge' = edge
    BY <1>2 DEF httpVars
  <2>2. text' \in Seq(HttpLexemes) /\ (flawed' /\ ~edge' => Doomed(text'))
    BY <2>1, Zenon DEF HttpSound
  <2> QED
    BY <1>1, <2>2, Zenon DEF HttpSound
<1>3. CASE HttpRead
  <2>1. PICK l \in HttpLexemes : text' = Append(text, l)
    BY <1>3, SentOne, Zenon
  <2>2. text \in Seq(HttpLexemes) /\ text' \in Seq(HttpLexemes)
    BY <2>1, OneMore, Zenon DEF HttpSound
  <2>3. ASSUME flawed', ~edge' PROVE Doomed(text')
    <3>1. ~edge
      BY <1>3, <2>3, StaysBroken, Zenon
    <3>2. CASE flawed
      <4>1. Doomed(text)
        BY <3>1, <3>2, Zenon DEF HttpSound
      <4>2. Doomed(Append(text, l))
        BY <2>2, <4>1, DoomedStays, Zenon
      <4> QED
        BY <2>1, <4>2, Zenon
    <3>3. CASE ~flawed
      <4>1. GoodNow
        BY <3>1, <3>3, Zenon DEF HttpSound, HttpGood
      <4> QED
        BY <1>3, <2>3, <3>3, <4>1, BreakDooms, Zenon
    <3> QED
      BY <3>2, <3>3
  <2> QED
    BY <1>1, <2>2, <2>3, Zenon DEF HttpSound
<1> QED
  BY <1>2, <1>3

LEMMA SoundHolds == HttpSpec => []HttpSound
BY SoundStarts, SoundStep, PTL DEF HttpSpec

\* A request is accepted exactly when its client has sent all of it and broken
\* none of the rules, and the route is handed the body the client meant: of
\* whatever form and length, wherever the network cuts it.
THEOREM AcceptedExactly == HttpSpec => []AcceptedIffWellFormed
<1>1. HttpSound => AcceptedIffWellFormed
  <2> SUFFICES ASSUME HttpSound, ~edge
               PROVE  /\ Accepted(text) <=> phase \in {"done", "over"} /\ ~flawed
                      /\ Accepted(text) => HttpParse(text).body = body
    BY DEF AcceptedIffWellFormed
  <2>1. CASE flawed
    <3>1. Doomed(text) /\ text \in Seq(HttpLexemes)
      BY <2>1, Zenon DEF HttpSound
    <3>2. Begins(text, text)
      BY <3>1 DEF Begins
    <3>3. ~Accepted(text)
      BY <3>1, <3>2, Zenon DEF Doomed, Accepted
    <3> QED
      BY <2>1, <3>3, Zenon
  <2>2. CASE ~flawed
    <3>1. Says(text, phase, body)
      BY <2>2, GoodSays, Zenon DEF HttpSound, HttpGood, GoodNow
    <3>2. CASE phase \in {"done", "over"}
      <4>1. Inspect(text).framing = "complete" /\ HttpParse(text).ok /\ HttpParse(text).body = body
        BY <3>1, <3>2 DEF Says
      <4> QED
        BY <2>2, <3>2, <4>1, Zenon DEF Accepted
    <3>3. CASE phase \notin {"done", "over"}
      <4>1. Inspect(text).framing # "complete"
        BY <3>1, <3>3 DEF Says
      <4> QED
        BY <3>3, <4>1, Zenon DEF Accepted
    <3> QED
      BY <3>2, <3>3
  <2> QED
    BY <2>1, <2>2
<1> QED
  BY <1>1, SoundHolds, PTL
=============================================================================

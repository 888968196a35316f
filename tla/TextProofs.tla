----------------------------- MODULE TextProofs -----------------------------
(***************************************************************************)
(* Proofs about the text formats: what is read from a text of any length.  *)
(***************************************************************************)
EXTENDS FormText, HttpText, QueueLemmas

-----------------------------------------------------------------------------
(* What is left of a text *)

LEMMA RestType ==
    ASSUME NEW S, NEW s \in Seq(S), NEW n \in Nat
    PROVE  /\ Rest(s, n) \in Seq(S)
           /\ n <= Len(s) => /\ Len(Rest(s, n)) = Len(s) - n
                             /\ \A i \in 1 .. Len(s) - n : Rest(s, n)[i] = s[n + i]
           /\ n > 0 /\ s # <<>> => Len(Rest(s, n)) < Len(s)
<1>1. Len(s) \in Nat /\ (s # <<>> => Len(s) > 0)
  BY LenProperties, EmptySeq
<1>2. CASE n <= Len(s)
  <2>1. Len(s) <= Len(s) /\ Len(s) \in Nat
    BY <1>1
  <2>2. /\ Rest(s, n) \in Seq(S) /\ Len(Rest(s, n)) = Len(s) - n
        /\ \A i \in 1 .. Len(s) - n : Rest(s, n)[i] = s[n + i]
    BY <1>2, <2>1, Stretch DEF Rest
  <2> QED
    BY <1>1, <1>2, <2>2
<1>3. CASE n > Len(s)
  <2>1. Rest(s, n) = <<>>
    BY <1>1, <1>3, SubSeqProperties DEF Rest
  <2> QED
    BY <1>1, <1>3, <2>1, EmptySeq
<1> QED
  BY <1>1, <1>2, <1>3

-----------------------------------------------------------------------------
(* url_decode *)

Decoded == Chars \cup {"space", "other"}

\* The equation of UrlDecode.
LEMMA UrlDecodes ==
    /\ UrlDecode \in [Seq(Chars) -> Seq(Decoded)]
    /\ \A s \in Seq(Chars) :
          UrlDecode[s] =
            IF s = <<>> THEN <<>>
            ELSE IF IsEscape(s) THEN <<CharOf(s[2], s[3])>> \o UrlDecode[Rest(s, 3)]
            ELSE <<IF s[1] = "+" THEN "space" ELSE s[1]>> \o UrlDecode[Rest(s, 1)]
<1> DEFINE D == Seq(Chars)
           V == Seq(Decoded)
           Body(g, s) == IF s = <<>> THEN <<>>
                         ELSE IF IsEscape(s) THEN <<CharOf(s[2], s[3])>> \o g[Rest(s, 3)]
                         ELSE <<IF s[1] = "+" THEN "space" ELSE s[1]>> \o g[Rest(s, 1)]
           F == [p \in [D -> V] \X D |-> Body(p[1], p[2])]
           size == [s \in D |-> Len(s)]
<1>1. size \in [D -> Nat] /\ <<>> \in V
  BY LenProperties
<1>2. ASSUME NEW s \in D, s # <<>>
      PROVE  /\ Rest(s, 1) \in D /\ Len(Rest(s, 1)) < Len(s)
             /\ Rest(s, 3) \in D /\ Len(Rest(s, 3)) < Len(s)
  BY <1>2, RestType
<1>3. ASSUME NEW g, NEW s \in D, s # <<>> => g[Rest(s, 1)] \in V /\ g[Rest(s, 3)] \in V
      PROVE  Body(g, s) \in V
  <2>1. ASSUME NEW c \in Decoded, NEW t \in V PROVE <<c>> \o t \in V
    BY <2>1, ConcatProperties
  <2>2. \A a, b : CharOf(a, b) \in Decoded
    BY DEF CharOf, Decoded, Chars
  <2>3. s # <<>> => s[1] \in Chars
    BY EmptySeq, ElementOfSeq, LenProperties
  <2>4. s # <<>> => (IF s[1] = "+" THEN "space" ELSE s[1]) \in Decoded
    BY <2>3 DEF Decoded
  <2> HIDE DEF D, V
  <2> QED
    BY <1>1, <1>3, <2>1, <2>2, <2>4
<1>4. F \in [[D -> V] \X D -> V]
  BY <1>2, <1>3
<1>5. OnSmaller(D, V, size, F)
  <2>1. SUFFICES ASSUME NEW g \in [D -> V], NEW h \in [D -> V], NEW s \in D,
                        \A r \in D : size[r] < size[s] => g[r] = h[r]
                 PROVE  F[<<g, s>>] = F[<<h, s>>]
    BY DEF OnSmaller
  <2>2. F[<<g, s>>] = Body(g, s) /\ F[<<h, s>>] = Body(h, s)
    OBVIOUS
  <2>3. s # <<>> => g[Rest(s, 1)] = h[Rest(s, 1)] /\ g[Rest(s, 3)] = h[Rest(s, 3)]
    BY <1>2, <2>1
  <2> QED
    BY <2>2, <2>3
<1>6. PICK h \in [D -> V] : \A s \in D : h[s] = F[<<h, s>>]
  <2> HIDE DEF D, V, F, size
  <2>1. Recursive(D, V, F)
    BY <1>1, <1>4, <1>5, RecursionOnSize
  <2> QED
    BY <2>1 DEF Recursive
<1>7. h = [s \in D |-> Body(h, s)]
  BY <1>6
<1>8. UrlDecode = [s \in D |-> Body(UrlDecode, s)]
  BY <1>7, Zenon DEF UrlDecode
<1>9. DOMAIN UrlDecode = D /\ \A s \in D : UrlDecode[s] = Body(UrlDecode, s)
  BY <1>8
<1>10. ASSUME NEW s \in D, \A r \in D : size[r] < size[s] => UrlDecode[r] \in V
       PROVE  UrlDecode[s] \in V
  <2>1. s # <<>> => UrlDecode[Rest(s, 1)] \in V /\ UrlDecode[Rest(s, 3)] \in V
    BY <1>2, <1>10
  <2> QED
    BY <1>3, <1>9, <2>1
<1>11. \A s \in D : UrlDecode[s] \in V
  <2> DEFINE T == {s \in D : UrlDecode[s] \in V}
  <2>1. \A s \in D : (\A r \in D : size[r] < size[s] => r \in T) => s \in T
    BY <1>10
  <2>2. D \subseteq T
    <3> HIDE DEF T, D, size
    <3> QED
      BY <1>1, <2>1, InductionOnSize
  <2> QED
    BY <2>2
<1> QED
  BY <1>8, <1>9, <1>11

LEMMA PairIsConcat ==
    ASSUME NEW S, NEW a \in S, NEW b \in S
    PROVE  <<a, b>> = <<a>> \o <<b>> /\ <<a, b>> \in Seq(S)
<1> DEFINE w == <<a>> \o <<b>>
<1>1. <<a, b>> \in Seq(S) /\ Len(<<a, b>>) = 2 /\ <<a, b>>[1] = a /\ <<a, b>>[2] = b
  OBVIOUS
<1>2. <<a>> \in Seq(S) /\ <<b>> \in Seq(S) /\ Len(<<a>>) = 1 /\ Len(<<b>>) = 1
  OBVIOUS
<1>3. w \in Seq(S) /\ Len(w) = 2 /\ w[1] = a /\ w[2] = b
  <2>1. /\ w \in Seq(S) /\ Len(w) = 1 + 1
        /\ \A i \in 1 .. 1 : w[i] = <<a>>[i]
        /\ \A i \in 1 .. 1 : w[1 + i] = <<b>>[i]
    BY <1>2, ConcatParts
  <2>2. 1 \in 1 .. 1 /\ 1 + 1 = 2 /\ <<a>>[1] = a /\ <<b>>[1] = b
    OBVIOUS
  <2> HIDE DEF w
  <2> QED
    BY <2>1, <2>2
<1> HIDE DEF w
<1>4. \A i \in 1 .. 2 : <<a, b>>[i] = w[i]
  <2>1. \A i \in 1 .. 2 : i = 1 \/ i = 2
    OBVIOUS
  <2> QED
    BY <1>1, <1>3, <2>1
<1>5. <<a, b>> = w
  <2> DEFINE p == <<a, b>>
  <2>1. p \in Seq(S) /\ Len(p) = Len(w) /\ \A i \in 1 .. Len(p) : p[i] = w[i]
    BY <1>1, <1>3, <1>4
  <2> HIDE DEF p
  <2>2. p = w
    BY <1>3, <2>1, SeqEqual
  <2> QED
    BY <2>2 DEF p
<1> QED
  BY <1>1, <1>5 DEF w

\* A sequence by its first element.
LEMMA FirstAndRest ==
    ASSUME NEW S, NEW c \in S, NEW t \in Seq(S)
    PROVE  /\ <<c>> \o t \in Seq(S) /\ <<c>> \o t # <<>> /\ Len(<<c>> \o t) = Len(t) + 1
           /\ (<<c>> \o t)[1] = c /\ Rest(<<c>> \o t, 1) = t
           /\ \A i \in 1 .. Len(t) : (<<c>> \o t)[i + 1] = t[i]
<1> DEFINE w == <<c>> \o t
<1>1. <<c>> \in Seq(S) /\ Len(<<c>>) = 1 /\ <<c>>[1] = c /\ Len(t) \in Nat
  BY LenProperties
<1>2. /\ w \in Seq(S) /\ Len(w) = 1 + Len(t)
      /\ \A i \in 1 .. 1 : w[i] = <<c>>[i]
      /\ \A i \in 1 .. Len(t) : w[1 + i] = t[i]
      /\ SubSeq(w, 1 + 1, Len(w)) = t
  BY <1>1, ConcatParts
<1> HIDE DEF w
<1>3. w # <<>>
  BY <1>1, <1>2, EmptySeq
<1>4. Rest(w, 1) = t
  BY <1>2 DEF Rest
<1>5. w[1] = c
  <2>1. 1 \in 1 .. 1
    OBVIOUS
  <2> QED
    BY <1>1, <1>2, <2>1
<1>6. \A i \in 1 .. Len(t) : w[i + 1] = t[i]
  <2>1. TAKE i \in 1 .. Len(t)
  <2>2. i + 1 = 1 + i
    OBVIOUS
  <2> QED
    BY <1>2, <2>2
<1> QED
  BY <1>1, <1>2, <1>3, <1>4, <1>5, <1>6 DEF w

LEMMA SplitFirst ==
    ASSUME NEW S, NEW s \in Seq(S), s # <<>>
    PROVE  s[1] \in S /\ Rest(s, 1) \in Seq(S) /\ s = <<s[1]>> \o Rest(s, 1)
<1> DEFINE w == <<s[1]>> \o Rest(s, 1)
<1>1. Len(s) \in Nat /\ Len(s) >= 1
  BY LenProperties, EmptySeq
<1>2. s[1] \in S
  BY <1>1, ElementOfSeq
<1>3. /\ Rest(s, 1) \in Seq(S) /\ Len(Rest(s, 1)) = Len(s) - 1
      /\ \A i \in 1 .. Len(s) - 1 : Rest(s, 1)[i] = s[1 + i]
  BY <1>1, RestType
<1>4. /\ w \in Seq(S) /\ Len(w) = Len(s) /\ w[1] = s[1]
      /\ \A i \in 1 .. Len(s) - 1 : w[i + 1] = s[1 + i]
  BY <1>1, <1>2, <1>3, FirstAndRest
<1> HIDE DEF w
<1>5. ASSUME NEW i \in 1 .. Len(s) PROVE s[i] = w[i]
  <2>1. CASE i = 1
    BY <1>4, <2>1
  <2>2. CASE i # 1
    <3> DEFINE j == i - 1
    <3>1. j \in 1 .. Len(s) - 1 /\ j + 1 = i /\ 1 + j = i
      BY <1>1, <2>2
    <3> HIDE DEF j
    <3> QED
      BY <1>4, <3>1
  <2> QED
    BY <2>1, <2>2
<1>6. s = w
  BY <1>4, <1>5, SeqEqual
<1> QED
  BY <1>2, <1>3, <1>6 DEF w

-----------------------------------------------------------------------------
Escapes == {<<>>, <<"%">>} \cup {<<"%", d>> : d \in HexDigits}

LEMMA EscapeForms ==
    /\ \A e \in Escapes : e = <<>> \/ e = <<"%">> \/ \E d \in HexDigits : e = <<"%">> \o <<d>>
    /\ Escapes \subseteq Seq(Chars) /\ HexDigits \subseteq Chars /\ "%" \in Chars
<1>1. HexDigits \subseteq Chars /\ "%" \in Chars
  BY DEF HexDigits, Chars
<1>2. ASSUME NEW d \in HexDigits
      PROVE  <<"%", d>> = <<"%">> \o <<d>> /\ <<"%", d>> \in Seq(Chars)
  BY <1>1, PairIsConcat
<1>3. <<>> \in Seq(Chars) /\ <<"%">> \in Seq(Chars)
  BY <1>1
<1> QED
  BY <1>1, <1>2, <1>3 DEF Escapes

\* A character that starts no escape.
LEMMA DecodePlain ==
    ASSUME NEW c \in Chars, NEW t \in Seq(Chars), ~ IsEscape(<<c>> \o t)
    PROVE  UrlDecode[<<c>> \o t] = Plain(c) \o UrlDecode[t]
<1> DEFINE w == <<c>> \o t
<1>1. w \in Seq(Chars) /\ w # <<>> /\ w[1] = c /\ Rest(w, 1) = t
  BY FirstAndRest
<1>2. ~ IsEscape(w)
  OBVIOUS
<1> HIDE DEF w
<1>3. UrlDecode[w] = <<IF w[1] = "+" THEN "space" ELSE w[1]>> \o UrlDecode[Rest(w, 1)]
  BY <1>1, <1>2, UrlDecodes
<1>4. UrlDecode[w] = Plain(c) \o UrlDecode[t]
  BY <1>1, <1>3 DEF Plain
<1> QED
  BY <1>4 DEF w

\* The first three of a text.
StartsWith(w, a, b, c, t) ==
    /\ w \in Seq(Chars) /\ w # <<>> /\ Len(w) >= 3
    /\ w[1] = a /\ w[2] = b /\ w[3] = c /\ Rest(w, 3) = t

LEMMA FirstThree ==
    ASSUME NEW a \in Chars, NEW b \in Chars, NEW c \in Chars, NEW t \in Seq(Chars),
           NEW w, w = <<a>> \o (<<b>> \o (<<c>> \o t))
    PROVE  StartsWith(w, a, b, c, t)
<1> DEFINE u == <<c>> \o t
           v == <<b>> \o u
<1>0. Len(t) \in Nat
  BY LenProperties
<1>1. u \in Seq(Chars) /\ Len(u) = Len(t) + 1 /\ u[1] = c /\ \A i \in 1 .. Len(t) : u[i + 1] = t[i]
  BY FirstAndRest
<1> HIDE DEF u
<1>2. v \in Seq(Chars) /\ Len(v) = Len(u) + 1 /\ v[1] = b /\ \A i \in 1 .. Len(u) : v[i + 1] = u[i]
  BY <1>1, FirstAndRest
<1> HIDE DEF v
<1>3. w = <<a>> \o v
  BY DEF u, v
<1>4. /\ w \in Seq(Chars) /\ w # <<>> /\ Len(w) = Len(v) + 1 /\ w[1] = a
      /\ \A i \in 1 .. Len(v) : w[i + 1] = v[i]
  BY <1>2, <1>3, FirstAndRest
<1>5. w[2] = b
  <2>1. 1 \in 1 .. Len(v) /\ 1 + 1 = 2
    BY <1>0, <1>1, <1>2
  <2> QED
    BY <1>2, <1>4, <2>1
<1>6. w[3] = c
  <2>1. 2 \in 1 .. Len(v) /\ 2 + 1 = 3 /\ 1 \in 1 .. Len(u) /\ 1 + 1 = 2
    BY <1>0, <1>1, <1>2
  <2> QED
    BY <1>1, <1>2, <1>4, <2>1
<1>7. Rest(w, 3) = t
  <2>1. Len(w) = Len(t) + 3 /\ 3 <= Len(w) /\ Len(w) \in Nat
    BY <1>0, <1>1, <1>2, <1>4
  <2>2. /\ Rest(w, 3) \in Seq(Chars) /\ Len(Rest(w, 3)) = Len(t)
        /\ \A i \in 1 .. Len(t) : Rest(w, 3)[i] = w[3 + i]
    <3>1. Len(w) - 3 = Len(t)
      BY <1>0, <2>1
    <3> QED
      BY <1>4, <2>1, <3>1, Stretch DEF Rest
  <2>3. ASSUME NEW i \in 1 .. Len(t) PROVE w[3 + i] = t[i]
    <3>1. 3 + i = ((i + 1) + 1) + 1 /\ (i + 1) + 1 \in 1 .. Len(v) /\ i + 1 \in 1 .. Len(u)
      BY <1>0, <1>1, <1>2
    <3> QED
      BY <1>1, <1>2, <1>4, <3>1
  <2> QED
    BY <2>2, <2>3, SeqEqual
<1>8. Len(w) >= 3
  BY <1>0, <1>1, <1>2, <1>4
<1> QED
  BY <1>4, <1>5, <1>6, <1>7, <1>8 DEF StartsWith

LEMMA DecodeEscape ==
    ASSUME NEW hi \in HexDigits, NEW lo \in HexDigits, NEW t \in Seq(Chars)
    PROVE  UrlDecode[<<"%">> \o (<<hi>> \o (<<lo>> \o t))] = <<CharOf(hi, lo)>> \o UrlDecode[t]
<1> DEFINE w == <<"%">> \o (<<hi>> \o (<<lo>> \o t))
<1>0. hi \in Chars /\ lo \in Chars /\ "%" \in Chars
  BY EscapeForms
<1>a. w = <<"%">> \o (<<hi>> \o (<<lo>> \o t))
  OBVIOUS
<1> HIDE DEF w
<1>b. StartsWith(w, "%", hi, lo, t)
  BY <1>0, <1>a, FirstThree
<1>1. /\ w \in Seq(Chars) /\ w # <<>> /\ Len(w) >= 3
      /\ w[1] = "%" /\ w[2] = hi /\ w[3] = lo /\ Rest(w, 3) = t
  BY <1>b DEF StartsWith
<1>2. IsEscape(w)
  BY <1>1 DEF IsEscape
<1>3. UrlDecode[w] = <<CharOf(hi, lo)>> \o UrlDecode[t]
  BY <1>1, <1>2, UrlDecodes
<1> QED
  BY <1>3 DEF w

\* Characters that are no escape, together with the next.
LEMMA NoEscape ==
    ASSUME NEW c \in Chars, NEW t \in Seq(Chars), c = "%" => t = <<>> \/ t[1] \notin HexDigits
    PROVE  ~ IsEscape(<<c>> \o t)
<1> DEFINE w == <<c>> \o t
<1>1. /\ w[1] = c /\ Len(w) = Len(t) + 1 /\ Len(t) \in Nat
      /\ \A i \in 1 .. Len(t) : w[i + 1] = t[i]
  BY FirstAndRest, LenProperties
<1> HIDE DEF w
<1>2. SUFFICES ASSUME IsEscape(w) PROVE FALSE
  BY DEF w
<1>3. w[1] = "%" /\ Len(w) >= 3 /\ w[2] \in HexDigits
  BY <1>2 DEF IsEscape
<1>4. 1 \in 1 .. Len(t) /\ 1 + 1 = 2
  BY <1>1, <1>3
<1>5. w[2] = t[1]
  BY <1>1, <1>4
<1>6. t # <<>>
  BY <1>4, EmptySeq
<1> QED
  BY <1>1, <1>3, <1>5, <1>6

LEMMA NoEscapeTwo ==
    ASSUME NEW h \in HexDigits, NEW t \in Seq(Chars), t = <<>> \/ t[1] \notin HexDigits
    PROVE  ~ IsEscape(<<"%">> \o (<<h>> \o t))
<1> DEFINE u == <<h>> \o t
           w == <<"%">> \o u
<1>1. /\ u \in Seq(Chars) /\ Len(u) = Len(t) + 1 /\ Len(t) \in Nat
      /\ \A i \in 1 .. Len(t) : u[i + 1] = t[i]
  BY EscapeForms, FirstAndRest, LenProperties
<1> HIDE DEF u
<1>2. /\ Len(w) = Len(u) + 1 /\ \A i \in 1 .. Len(u) : w[i + 1] = u[i]
  BY <1>1, EscapeForms, FirstAndRest
<1> HIDE DEF w
<1>3. SUFFICES ASSUME IsEscape(w) PROVE FALSE
  BY DEF u, w
<1>4. Len(w) >= 3 /\ w[3] \in HexDigits
  BY <1>3 DEF IsEscape
<1>5. 1 \in 1 .. Len(t) /\ 1 + 1 = 2 /\ 2 \in 1 .. Len(u) /\ 2 + 1 = 3
  BY <1>1, <1>2, <1>4
<1>6. w[3] = t[1]
  BY <1>1, <1>2, <1>5
<1>7. t # <<>>
  BY <1>5, EmptySeq
<1> QED
  BY <1>4, <1>6, <1>7

\* An escape that the text behind it does not complete stands for itself.
LEMMA EscapeFails ==
    ASSUME NEW e \in Escapes, NEW t \in Seq(Chars), t = <<>> \/ t[1] \notin HexDigits
    PROVE  UrlDecode[e \o t] = e \o UrlDecode[t]
<1>0. UrlDecode[t] \in Seq(Decoded)
  BY UrlDecodes
<1>1. CASE e = <<>>
  BY <1>0, <1>1
<1>2. ASSUME NEW s \in Seq(Chars), ~ IsEscape(<<"%">> \o s)
      PROVE  UrlDecode[<<"%">> \o s] = <<"%">> \o UrlDecode[s]
  BY <1>2, EscapeForms, DecodePlain DEF Plain
<1>3. CASE e = <<"%">>
  <2>1. ~ IsEscape(<<"%">> \o t)
    BY EscapeForms, NoEscape
  <2> QED
    BY <1>2, <1>3, <2>1
<1>4. ASSUME NEW h \in HexDigits, e = <<"%">> \o <<h>>
      PROVE  UrlDecode[e \o t] = e \o UrlDecode[t]
  <2>1. h \in Chars /\ "%" \in Chars /\ h # "%" /\ h # "+" /\ "%" \in Decoded /\ h \in Decoded
    BY EscapeForms DEF HexDigits, Chars, Decoded
  <2>2. <<h>> \o t \in Seq(Chars)
    BY <2>1, FirstAndRest
  <2>3. e \o t = <<"%">> \o (<<h>> \o t)
    BY <1>4, <2>1
  <2>4. UrlDecode[<<"%">> \o (<<h>> \o t)] = <<"%">> \o UrlDecode[<<h>> \o t]
    BY <1>2, <2>2, NoEscapeTwo
  <2>5. UrlDecode[<<h>> \o t] = <<h>> \o UrlDecode[t]
    BY <2>1, NoEscape, DecodePlain DEF Plain
  <2>6. <<"%">> \o (<<h>> \o UrlDecode[t]) = e \o UrlDecode[t]
    BY <1>0, <1>4, <2>1
  <2> QED
    BY <2>3, <2>4, <2>5, <2>6
<1> QED
  BY <1>1, <1>3, <1>4, EscapeForms

LEMMA DecodeOfEscape ==
    ASSUME NEW e \in Escapes PROVE UrlDecode[e] = e /\ UrlDecode[<<>>] = <<>>
<1>1. <<>> \in Seq(Chars) /\ e \in Seq(Chars)
  BY EscapeForms
<1>2. UrlDecode[<<>>] = <<>>
  BY <1>1, UrlDecodes
<1>3. UrlDecode[e \o <<>>] = e \o UrlDecode[<<>>]
  BY <1>1, EscapeFails
<1>4. e \o <<>> = e
  BY <1>1
<1> QED
  BY <1>2, <1>3, <1>4

-----------------------------------------------------------------------------
(* parse_query *)

QueryPairs == Seq(Decoded) \X Seq(Decoded)
Without(s, c) == \A i \in 1 .. Len(s) : s[i] # c

LEMMA PieceOf ==
    ASSUME NEW S, NEW s \in Seq(S), NEW c
    PROVE  /\ Piece(s, c) \in Seq(S) /\ Without(Piece(s, c), c)
           /\ Len(Piece(s, c)) <= Len(s) /\ (Piece(s, c) # s => Len(Piece(s, c)) < Len(s))
           /\ Without(s, c) => Piece(s, c) = s
<1> DEFINE at == {p \in DOMAIN s : s[p] = c} \cup {Len(s) + 1}
           m == Min(at)
           n == m - 1
<1>1. Len(s) \in Nat /\ DOMAIN s = 1 .. Len(s)
  BY LenProperties
<1>2. at \subseteq 1 .. Len(s) + 1 /\ at # {} /\ at \subseteq Nat
  BY <1>1
<1>3. m \in at /\ \A y \in at : m <= y
  <2> HIDE DEF at
  <2> QED
    BY <1>2, MinIsLeast
<1>4. n \in Nat /\ n <= Len(s) /\ m \in 1 .. Len(s) + 1
  BY <1>1, <1>2, <1>3
<1>5. \A i \in 1 .. n : s[i] # c
  <2>1. ASSUME NEW i \in 1 .. n, s[i] = c PROVE FALSE
    <3>1. i \in DOMAIN s /\ ~ (m <= i)
      BY <1>1, <1>4
    <3> QED
      BY <1>3, <2>1, <3>1
  <2> QED
    BY <2>1
<1>6. Without(s, c) => n = Len(s)
  <2>1. SUFFICES ASSUME Without(s, c) PROVE m = Len(s) + 1
    BY <1>1
  <2>2. \A p \in DOMAIN s : s[p] # c
    BY <1>1, <2>1 DEF Without
  <2> QED
    BY <1>3, <2>2
<1>7. Piece(s, c) = SubSeq(s, 1, n)
  BY DEF Piece
<1> HIDE DEF n
<1>8. /\ Piece(s, c) \in Seq(S) /\ Len(Piece(s, c)) = n
      /\ \A i \in 1 .. n : Piece(s, c)[i] = s[i]
  BY <1>4, <1>7, Prefix
<1>9. n = Len(s) => Piece(s, c) = s
  BY <1>8, SeqEqual
<1>10. Without(Piece(s, c), c)
  <2> SUFFICES ASSUME NEW i \in 1 .. Len(Piece(s, c)) PROVE Piece(s, c)[i] # c
    BY DEF Without
  <2>1. i \in 1 .. n
    BY <1>8
  <2>2. Piece(s, c)[i] = s[i]
    BY <1>8, <2>1
  <2> QED
    BY <1>5, <2>1, <2>2
<1>11. Len(Piece(s, c)) <= Len(s) /\ (Piece(s, c) # s => Len(Piece(s, c)) < Len(s))
  <2>1. n \in Nat /\ n <= Len(s) /\ Len(s) \in Nat
    BY <1>1, <1>4
  <2>2. Len(Piece(s, c)) = n /\ (n = Len(s) => Piece(s, c) = s)
    BY <1>8, <1>9
  <2> HIDE DEF at
  <2> QED
    BY <2>1, <2>2
<1>12. Without(s, c) => Piece(s, c) = s
  BY <1>6, <1>9
<1>13. Piece(s, c) \in Seq(S)
  BY SMTT(30), <1>8
<1> QED
  BY <1>10, <1>11, <1>12, <1>13

LEMMA PieceOfConcat ==
    ASSUME NEW S, NEW s \in Seq(S), NEW c \in S, NEW t \in Seq(S), Without(s, c)
    PROVE  /\ s \o (<<c>> \o t) \in Seq(S)
           /\ Piece(s \o (<<c>> \o t), c) = s
           /\ s # s \o (<<c>> \o t)
           /\ Rest(s \o (<<c>> \o t), Len(s) + 1) = t
<1> DEFINE u == <<c>> \o t
           w == s \o u
           at == {p \in DOMAIN w : w[p] = c} \cup {Len(w) + 1}
<1>1. /\ u \in Seq(S) /\ Len(u) = Len(t) + 1 /\ u[1] = c /\ Len(t) \in Nat /\ Len(s) \in Nat
      /\ \A i \in 1 .. Len(t) : u[i + 1] = t[i]
  BY FirstAndRest, LenProperties
<1> HIDE DEF u
<1>a. u \in Seq(S)
  BY <1>1
<1>2. /\ w \in Seq(S) /\ Len(w) = Len(s) + Len(u)
      /\ \A i \in 1 .. Len(s) : w[i] = s[i]
      /\ \A i \in 1 .. Len(u) : w[Len(s) + i] = u[i]
      /\ SubSeq(w, 1, Len(s)) = s
  BY <1>a, ConcatParts
<1> HIDE DEF w
<1>3. DOMAIN w = 1 .. Len(w)
  BY <1>2, LenProperties
<1>4. w[Len(s) + 1] = c
  <2>1. 1 \in 1 .. Len(u)
    BY <1>1
  <2> QED
    BY <1>1, <1>2, <2>1
<1>5. at \subseteq Nat /\ Len(s) + 1 \in at
  BY <1>1, <1>2, <1>3, <1>4
<1>6. \A p \in at : Len(s) + 1 <= p
  <2>1. ASSUME NEW p \in at, ~ (Len(s) + 1 <= p) PROVE FALSE
    <3>1. p \in DOMAIN w /\ w[p] = c
      BY <1>1, <1>2, <2>1
    <3>2. p \in 1 .. Len(s)
      BY <1>1, <1>3, <2>1, <3>1
    <3> QED
      BY <1>2, <3>1, <3>2 DEF Without
  <2> QED
    BY <2>1
<1>7. Min(at) = Len(s) + 1
  <2>1. Min(at) \in at /\ \A y \in at : Min(at) <= y
    <3> HIDE DEF at
    <3> QED
      BY <1>5, MinIsLeast
  <2>2. Min(at) <= Len(s) + 1 /\ Len(s) + 1 <= Min(at) /\ Min(at) \in Nat
    <3> HIDE DEF at
    <3> QED
      BY <1>5, <1>6, <2>1
  <2> HIDE DEF at
  <2> QED
    BY <1>1, <2>2
<1>8. Piece(w, c) = s
  <2>1. Piece(w, c) = SubSeq(w, 1, Min(at) - 1)
    BY DEF Piece
  <2>2. Min(at) - 1 = Len(s)
    <3> HIDE DEF at
    <3> QED
      BY <1>1, <1>7
  <2> QED
    BY <1>2, <2>1, <2>2
<1>9. s # w
  BY <1>1, <1>2
<1>10. Rest(w, Len(s) + 1) = t
  <2> DEFINE n == Len(s) + 1
  <2>1. n \in Nat /\ n <= Len(w) /\ Len(w) - n = Len(t)
    BY <1>1, <1>2
  <2>2. /\ Rest(w, n) \in Seq(S) /\ Len(Rest(w, n)) = Len(t)
        /\ \A i \in 1 .. Len(t) : Rest(w, n)[i] = w[n + i]
    <3> HIDE DEF n
    <3> QED
      BY <1>2, <2>1, RestType
  <2>3. ASSUME NEW i \in 1 .. Len(t) PROVE w[n + i] = t[i]
    <3>1. n + i = Len(s) + (i + 1) /\ i + 1 \in 1 .. Len(u)
      BY <1>1
    <3> QED
      BY <1>1, <1>2, <3>1
  <2> HIDE DEF n
  <2>4. Rest(w, n) = t
    BY <2>2, <2>3, SeqEqual
  <2> QED
    BY <2>4 DEF n
<1> QED
  BY Zenon, <1>2, <1>8, <1>9, <1>10 DEF u, w

\* The equation of ParseQuery.
LEMMA ParsesQuery ==
    /\ ParseQuery \in [Seq(Chars) -> Seq(QueryPairs)]
    /\ \A raw \in Seq(Chars) :
          LET segment == Piece(raw, "&")
              pair    == IF segment = <<>> THEN <<>> ELSE <<ParsePair(segment)>>
          IN  ParseQuery[raw] = IF segment = raw THEN pair
                                ELSE pair \o ParseQuery[Rest(raw, Len(segment) + 1)]
<1> DEFINE D == Seq(Chars)
           V == Seq(QueryPairs)
           One(raw) == IF Piece(raw, "&") = <<>> THEN <<>> ELSE <<ParsePair(Piece(raw, "&"))>>
           More(raw) == Rest(raw, Len(Piece(raw, "&")) + 1)
           Body(g, raw) == IF Piece(raw, "&") = raw THEN One(raw) ELSE One(raw) \o g[More(raw)]
           F == [p \in [D -> V] \X D |-> Body(p[1], p[2])]
           size == [s \in D |-> Len(s)]
<1>1. size \in [D -> Nat] /\ <<>> \in V
  BY LenProperties
<1>2. ASSUME NEW raw \in D
      PROVE  Piece(raw, "&") \in D /\ (Piece(raw, "&") # raw => More(raw) \in D /\ Len(More(raw)) < Len(raw))
  <2>1. Piece(raw, "&") \in D /\ Len(Piece(raw, "&")) <= Len(raw)
        /\ (Piece(raw, "&") # raw => Len(Piece(raw, "&")) < Len(raw))
    BY PieceOf
  <2>2. Len(Piece(raw, "&")) + 1 \in Nat /\ Len(Piece(raw, "&")) + 1 > 0 /\ Len(raw) \in Nat
        /\ Len(Piece(raw, "&")) \in Nat
    BY <2>1, LenProperties
  <2>3. Piece(raw, "&") # raw => raw # <<>>
    BY <2>1, <2>2, EmptySeq
  <2> QED
    BY <2>1, <2>2, <2>3, RestType
<1>3. ASSUME NEW g, NEW raw \in D, Piece(raw, "&") # raw => g[More(raw)] \in V
      PROVE  Body(g, raw) \in V
  <2>1. One(raw) \in V
    <3>1. ASSUME NEW s \in D PROVE ParsePair(s) \in QueryPairs
      <4>1. Piece(s, "=") \in D /\ Len(Piece(s, "=")) + 1 \in Nat
        BY PieceOf, LenProperties
      <4>2. Rest(s, Len(Piece(s, "=")) + 1) \in D
        BY <4>1, RestType
      <4> QED
        BY <4>1, <4>2, UrlDecodes DEF ParsePair, QueryPairs
    <3>2. ParsePair(Piece(raw, "&")) \in QueryPairs
      BY <1>2, <3>1
    <3> QED
      BY <1>1, <3>2
  <2> HIDE DEF One, More
  <2> QED
    BY <1>3, <2>1, ConcatProperties
<1>4. F \in [[D -> V] \X D -> V]
  <2> HIDE DEF Body, More
  <2> QED
    BY <1>2, <1>3
<1>5. OnSmaller(D, V, size, F)
  <2>1. SUFFICES ASSUME NEW g \in [D -> V], NEW h \in [D -> V], NEW s \in D,
                        \A r \in D : size[r] < size[s] => g[r] = h[r]
                 PROVE  F[<<g, s>>] = F[<<h, s>>]
    BY DEF OnSmaller
  <2>2. F[<<g, s>>] = Body(g, s) /\ F[<<h, s>>] = Body(h, s)
    OBVIOUS
  <2>3. Piece(s, "&") # s => g[More(s)] = h[More(s)]
    <3> HIDE DEF More
    <3> QED
      BY <1>2, <2>1
  <2> QED
    BY <2>2, <2>3
<1>6. PICK h \in [D -> V] : \A s \in D : h[s] = F[<<h, s>>]
  <2> HIDE DEF D, V, F, size
  <2>1. Recursive(D, V, F)
    BY <1>1, <1>4, <1>5, RecursionOnSize
  <2> QED
    BY <2>1 DEF Recursive
<1>7. h = [s \in D |-> Body(h, s)]
  BY Zenon, <1>6
<1>8. ParseQuery = [s \in D |-> Body(ParseQuery, s)]
  BY <1>7, Zenon DEF ParseQuery
<1>9. DOMAIN ParseQuery = D /\ \A s \in D : ParseQuery[s] = Body(ParseQuery, s)
  BY <1>8
<1>10. ASSUME NEW s \in D, \A r \in D : size[r] < size[s] => ParseQuery[r] \in V
       PROVE  ParseQuery[s] \in V
  <2>1. Piece(s, "&") # s => ParseQuery[More(s)] \in V
    <3> HIDE DEF More
    <3> QED
      BY <1>2, <1>10
  <2> HIDE DEF Body, More
  <2> QED
    BY <1>3, <1>9, <2>1
<1>11. \A s \in D : ParseQuery[s] \in V
  <2> DEFINE T == {s \in D : ParseQuery[s] \in V}
  <2>1. \A s \in D : (\A r \in D : size[r] < size[s] => r \in T) => s \in T
    BY <1>10
  <2>2. D \subseteq T
    <3> HIDE DEF T, D, size
    <3> QED
      BY <1>1, <2>1, InductionOnSize
  <2> QED
    BY <2>2
<1> QED
  BY <1>8, <1>9, <1>11

One(segment) == IF segment = <<>> THEN <<>> ELSE <<ParsePair(segment)>>

LEMMA ParseSegment ==
    ASSUME NEW s \in Seq(Chars), Without(s, "&")
    PROVE  /\ ParseQuery[s] = One(s) /\ One(s) \in Seq(QueryPairs)
           /\ \A t \in Seq(Chars) : ParseQuery[s \o (<<"&">> \o t)] = One(s) \o ParseQuery[t]
<1>1. Piece(s, "&") = s
  BY PieceOf
<1>2. ParseQuery[s] = One(s)
  BY <1>1, ParsesQuery DEF One
<1>3. One(s) \in Seq(QueryPairs)
  BY <1>2, ParsesQuery
<1>4. ASSUME NEW t \in Seq(Chars)
      PROVE  ParseQuery[s \o (<<"&">> \o t)] = One(s) \o ParseQuery[t]
  <2> DEFINE w == s \o (<<"&">> \o t)
  <2>1. "&" \in Chars
    BY DEF Chars
  <2>2. w \in Seq(Chars) /\ Piece(w, "&") = s /\ s # w /\ Rest(w, Len(s) + 1) = t
    BY <2>1, PieceOfConcat
  <2> HIDE DEF w
  <2>3. ParseQuery[w] = One(s) \o ParseQuery[t]
    BY <2>2, ParsesQuery DEF One
  <2> QED
    BY <2>3 DEF w
<1> QED
  BY <1>2, <1>3, <1>4

LEMMA PairsOf ==
    ASSUME NEW key \in Seq(Chars), Without(key, "=")
    PROVE  /\ ParsePair(key) = <<UrlDecode[key], <<>>>>
           /\ \A val \in Seq(Chars) :
                 ParsePair(key \o (<<"=">> \o val)) = <<UrlDecode[key], UrlDecode[val]>>
<1>1. Piece(key, "=") = key
  BY PieceOf
<1>2. Rest(key, Len(key) + 1) = <<>>
  <2>1. Len(key) + 1 + 1 > Len(key) /\ Len(key) \in Nat
    BY LenProperties
  <2> QED
    BY <2>1, SubSeqEmpty DEF Rest
<1>3. UrlDecode[<<>>] = <<>>
  BY EscapeForms, DecodeOfEscape DEF Escapes
<1>4. ASSUME NEW val \in Seq(Chars)
      PROVE  ParsePair(key \o (<<"=">> \o val)) = <<UrlDecode[key], UrlDecode[val]>>
  <2> DEFINE w == key \o (<<"=">> \o val)
  <2>1. "=" \in Chars
    BY DEF Chars
  <2>2. Piece(w, "=") = key /\ Rest(w, Len(key) + 1) = val
    BY <2>1, PieceOfConcat
  <2> HIDE DEF w
  <2>3. ParsePair(w) = <<UrlDecode[key], UrlDecode[val]>>
    BY <2>2 DEF ParsePair
  <2> QED
    BY <2>3 DEF w
<1> QED
  BY <1>1, <1>2, <1>3, <1>4 DEF ParsePair

LEMMA WithoutConcat ==
    ASSUME NEW S, NEW s \in Seq(S), NEW t \in Seq(S), NEW c, Without(s, c), Without(t, c)
    PROVE  Without(s \o t, c)
<1> DEFINE w == s \o t
<1>1. /\ Len(s) \in Nat /\ Len(t) \in Nat /\ Len(w) = Len(s) + Len(t)
      /\ \A i \in 1 .. Len(s) : w[i] = s[i]
      /\ \A i \in 1 .. Len(t) : w[Len(s) + i] = t[i]
  BY ConcatParts, LenProperties
<1> HIDE DEF w
<1>2. ASSUME NEW i \in 1 .. Len(w) PROVE w[i] # c
  <2>1. CASE i <= Len(s)
    BY <1>1, <2>1 DEF Without
  <2>2. CASE ~ (i <= Len(s))
    <3> DEFINE j == i - Len(s)
    <3>1. j \in 1 .. Len(t) /\ Len(s) + j = i
      BY <1>1, <2>2
    <3> HIDE DEF j
    <3> QED
      BY <1>1, <3>1 DEF Without
  <2> QED
    BY <2>1, <2>2
<1> QED
  BY <1>2 DEF w, Without

LEMMA WithoutOne ==
    /\ \A c : Without(<<>>, c)
    /\ \A c, d : c # d => Without(<<d>>, c)
    /\ \A e \in Escapes : Without(e, "=") /\ Without(e, "&")
<1>1. \A c : Without(<<>>, c)
  BY EmptySeq DEF Without
<1>2. \A c, d : c # d => Without(<<d>>, c)
  BY DEF Without
<1>3. ASSUME NEW d \in HexDigits PROVE Without(<<"%", d>>, "=") /\ Without(<<"%", d>>, "&")
  <2>1. d # "=" /\ d # "&"
    BY DEF HexDigits
  <2>2. \A i \in 1 .. 2 : i = 1 \/ i = 2
    OBVIOUS
  <2> QED
    BY <2>1, <2>2 DEF Without
<1> QED
  BY <1>1, <1>2, <1>3 DEF Escapes

\* The last element of a concatenation.
LEMMA LastOfConcat ==
    ASSUME NEW S, NEW s \in Seq(S), NEW t \in Seq(S), t # <<>>
    PROVE  s \o t # <<>> /\ Last(s \o t) = t[Len(t)] /\ Len(t) \in 1 .. Len(t)
<1> DEFINE w == s \o t
<1>1. /\ Len(s) \in Nat /\ Len(t) \in Nat /\ Len(t) > 0
      /\ w \in Seq(S) /\ Len(w) = Len(s) + Len(t)
      /\ \A i \in 1 .. Len(t) : w[Len(s) + i] = t[i]
  BY ConcatParts, LenProperties, EmptySeq
<1> HIDE DEF w
<1>2. Last(w) = t[Len(t)] /\ w # <<>>
  <2>1. Len(t) \in 1 .. Len(t) /\ Len(w) > 0
    BY <1>1
  <2> QED
    BY <1>1, <2>1, EmptySeq DEF Last
<1> QED
  BY <1>1, <1>2 DEF w

-----------------------------------------------------------------------------
(* The reader *)

\* The text of the pair under way.
Held == IF place = "key" THEN current[1] ELSE current[2]
Segment(key, side) == IF place = "key" THEN side ELSE key \o (<<"=">> \o side)
Now(key, base) == Segment(key, base \o escape)

\* What has been read is a part that is done with, ending in a separator, and
\* the pair under way; whatever follows, both go on from there.
Reads(sent, key, base) ==
    /\ form = sent \o Now(key, base)
    /\ sent # <<>> => Last(sent) = "&"
    /\ \A t \in Seq(Chars) : ParseQuery[sent \o t] = done \o ParseQuery[t]
    /\ Without(key, "=") /\ Without(key, "&") /\ Without(base, "&")
    /\ \A t \in Seq(Chars) : UrlDecode[base \o (escape \o t)] = Held \o UrlDecode[escape \o t]
    /\ place = "key" => Without(base, "=") /\ current[2] = <<>>
    /\ place = "value" => current[1] = UrlDecode[key]

QueryInv ==
    /\ place \in {"key", "value"} /\ escape \in Escapes
    /\ done \in Seq(QueryPairs) /\ current \in QueryPairs
    /\ \E sent, key, base \in Seq(Chars) : Reads(sent, key, base)

\* The pair under way is what the segment says.
LEMMA Under ==
    ASSUME QueryInv, NEW sent \in Seq(Chars), NEW key \in Seq(Chars), NEW base \in Seq(Chars),
           Reads(sent, key, base)
    PROVE  /\ base \o escape \in Seq(Chars) /\ Without(base \o escape, "&")
           /\ place = "key" => Without(base \o escape, "=")
           /\ Now(key, base) \in Seq(Chars) /\ Without(Now(key, base), "&")
           /\ form = sent \o Now(key, base) /\ form \in Seq(Chars)
           /\ One(Now(key, base)) = IF form = <<>> \/ Last(form) = "&" THEN <<>> ELSE <<Finished>>
           /\ Finished = IF place = "key" THEN <<UrlDecode[base \o escape], <<>>>>
                         ELSE <<UrlDecode[key], UrlDecode[base \o escape]>>
           /\ Finished \in QueryPairs
<1> DEFINE side == base \o escape
           seg == Now(key, base)
<1>1. escape \in Escapes /\ escape \in Seq(Chars) /\ <<>> \in Seq(Chars) /\ "=" \in Chars
  BY EscapeForms DEF QueryInv, Chars
<1>2. side \in Seq(Chars) /\ Without(side, "&") /\ (place = "key" => Without(side, "="))
  BY <1>1, WithoutOne, WithoutConcat, ConcatParts DEF Reads
<1>3. UrlDecode[side] = Held \o escape
  <2>1. UrlDecode[base \o (escape \o <<>>)] = Held \o UrlDecode[escape \o <<>>]
    BY <1>1 DEF Reads
  <2>2. escape \o <<>> = escape
    BY <1>1
  <2> QED
    BY <1>1, <2>1, <2>2, DecodeOfEscape
<1> HIDE DEF side
<1>a. seg = Segment(key, side)
  BY DEF Now, side
<1> HIDE DEF seg
<1>4. place \in {"key", "value"} /\ current \in QueryPairs
  BY DEF QueryInv
<1>5. Finished = IF place = "key" THEN <<UrlDecode[side], <<>>>>
                 ELSE <<UrlDecode[key], UrlDecode[side]>>
  BY <1>3, <1>4 DEF Finished, Plus, Held, Reads
<1>6. Finished \in QueryPairs
  <2>1. UrlDecode[side] \in Seq(Decoded) /\ UrlDecode[key] \in Seq(Decoded) /\ <<>> \in Seq(Decoded)
    BY <1>2, UrlDecodes
  <2> QED
    BY <1>5, <2>1 DEF QueryPairs
<1>7. seg \in Seq(Chars) /\ Without(seg, "&") /\ (place = "value" => seg # <<>>)
      /\ (place = "key" => seg = side)
  <2>1. CASE place = "key"
    BY <1>2, <1>a, <2>1 DEF Segment
  <2>2. CASE place = "value"
    <3>1. seg = key \o (<<"=">> \o side)
      BY <1>a, <2>2 DEF Segment
    <3>2. <<"=">> \o side \in Seq(Chars) /\ <<"=">> \o side # <<>>
      BY <1>1, <1>2, FirstAndRest
    <3>3. Without(<<"=">>, "&") /\ <<"=">> \in Seq(Chars)
      BY <1>1, WithoutOne
    <3>4. Without(<<"=">> \o side, "&")
      BY <1>2, <3>3, WithoutConcat
    <3>5. Without(key, "&")
      BY DEF Reads
    <3>6. seg # <<>> /\ seg \in Seq(Chars)
      BY <3>1, <3>2, LastOfConcat, ConcatProperties
    <3>7. Without(seg, "&")
      BY <3>1, <3>2, <3>4, <3>5, WithoutConcat
    <3> QED
      BY <2>2, <3>6, <3>7
  <2> QED
    BY <1>4, <2>1, <2>2
<1>8. form = sent \o seg /\ form \in Seq(Chars)
  BY <1>7, ConcatProperties DEF Reads, seg
<1>9. seg = <<>> <=> form = <<>> \/ Last(form) = "&"
  <2>1. CASE seg = <<>>
    <3>1. form = sent
      BY <1>8, <2>1
    <3> QED
      BY <2>1, <3>1 DEF Reads
  <2>2. CASE seg # <<>>
    <3>1. form # <<>> /\ Last(form) = seg[Len(seg)] /\ Len(seg) \in 1 .. Len(seg)
      BY <1>7, <1>8, <2>2, LastOfConcat
    <3> QED
      BY <1>7, <2>2, <3>1 DEF Without
  <2> QED
    BY <2>1, <2>2
<1>10. seg # <<>> => ParsePair(seg) = Finished
  <2>1. CASE place = "key"
    BY <1>2, <1>5, <1>7, <2>1, PairsOf
  <2>2. CASE place = "value"
    <3>1. seg = key \o (<<"=">> \o side) /\ Without(key, "=")
      BY <1>a, <2>2 DEF Segment, Reads
    <3> QED
      BY <1>2, <1>5, <2>2, <3>1, PairsOf
  <2> QED
    BY <1>4, <2>1, <2>2
<1> QED
  BY <1>2, <1>5, <1>6, <1>7, <1>8, <1>9, <1>10 DEF One, side, seg

LEMMA QueryDecodedNow == QueryInv => QueryIsDecoded
<1> SUFFICES ASSUME QueryInv PROVE QueryIsDecoded
  OBVIOUS
<1>1. PICK sent \in Seq(Chars), key \in Seq(Chars), base \in Seq(Chars) : Reads(sent, key, base)
  BY DEF QueryInv
<1> DEFINE seg == Now(key, base)
<1>2. /\ seg \in Seq(Chars) /\ Without(seg, "&") /\ form = sent \o seg
      /\ One(seg) = IF form = <<>> \/ Last(form) = "&" THEN <<>> ELSE <<Finished>>
      /\ Finished \in QueryPairs
  BY <1>1, Under
<1> HIDE DEF seg
<1>3. ParseQuery[form] = done \o One(seg)
  BY <1>1, <1>2, ParseSegment DEF Reads
<1>4. done \in Seq(QueryPairs)
  BY DEF QueryInv
<1>5. done \o <<>> = done /\ done \o <<Finished>> = Append(done, Finished)
  BY <1>2, <1>4
<1> QED
  BY <1>2, <1>3, <1>5 DEF QueryIsDecoded

LEMMA QueryStarts == QueryInit => QueryInv
<1> SUFFICES ASSUME QueryInit PROVE QueryInv
  OBVIOUS
<1>1. <<>> \in Seq(Chars) /\ <<>> \in Escapes /\ <<>> \in Seq(Decoded) /\ <<>> \in Seq(QueryPairs)
  BY DEF Escapes
<1>2. Reads(<<>>, <<>>, <<>>)
  <2>1. \A t \in Seq(Chars) : <<>> \o t = t
    OBVIOUS
  <2>2. \A t \in Seq(QueryPairs) : <<>> \o t = t
    OBVIOUS
  <2>3. \A t \in Seq(Decoded) : <<>> \o t = t
    OBVIOUS
  <2>4. <<>> \o (<<>> \o <<>>) = <<>>
    BY <1>1, <2>1
  <2>5. \A t \in Seq(Chars) : UrlDecode[t] \in Seq(Decoded) /\ ParseQuery[t] \in Seq(QueryPairs)
    BY UrlDecodes, ParsesQuery
  <2> QED
    BY <1>1, <2>1, <2>2, <2>3, <2>4, <2>5, WithoutOne
       DEF Reads, QueryInit, Held, Segment, Now, NoPair
<1> QED
  BY <1>1, <1>2 DEF QueryInv, QueryInit, NoPair, QueryPairs

\* Concatenation.
LEMMA Associative ==
    ASSUME NEW S, NEW a \in Seq(S), NEW b \in Seq(S), NEW c \in Seq(S)
    PROVE  /\ a \o b \in Seq(S) /\ b \o c \in Seq(S)
           /\ (a \o b) \o c = a \o (b \o c)
           /\ <<>> \o a = a /\ a \o <<>> = a
OBVIOUS

LEMMA AssociativeChars == \A a, b, c \in Seq(Chars) : (a \o b) \o c = a \o (b \o c)
BY SMT

LEMMA AssociativePairs == \A a, b, c \in Seq(QueryPairs) : (a \o b) \o c = a \o (b \o c)
BY SMT

LEMMA AppendIs ==
    ASSUME NEW S, NEW a \in Seq(S), NEW e \in S
    PROVE  /\ Append(a, e) = a \o <<e>> /\ <<e>> \in Seq(S) /\ a \o <<e>> \in Seq(S)
           /\ a \o <<e>> # <<>> /\ Last(a \o <<e>>) = e
BY DEF Last

LEMMA EmptyTexts == <<>> \in Seq(Chars) /\ <<>> \in Escapes /\ <<>> \in Seq(Decoded) /\ <<>> \in Seq(QueryPairs)
BY DEF Escapes

\* One character more.
SegmentAnd(c, sent, key, side) ==
    (sent \o Segment(key, side)) \o <<c>> = sent \o Segment(key, side \o <<c>>)

LEMMA SegmentGrows ==
    ASSUME NEW c \in Chars, NEW sent \in Seq(Chars), NEW key \in Seq(Chars), NEW side \in Seq(Chars),
           place \in {"key", "value"}
    PROVE  SegmentAnd(c, sent, key, side)
<1>1. <<c>> \in Seq(Chars) /\ "=" \in Chars /\ <<"=">> \in Seq(Chars) /\ side \o <<c>> \in Seq(Chars)
  BY DEF Chars
<1>2. CASE place = "key"
  BY <1>1, <1>2, AssociativeChars DEF Segment, SegmentAnd
<1>3. CASE place = "value"
  <2> DEFINE u == <<"=">> \o side
  <2>1. u \in Seq(Chars) /\ u \o <<c>> = <<"=">> \o (side \o <<c>>)
    BY <1>1, Associative
  <2>2. Segment(key, side) = key \o u /\ Segment(key, side \o <<c>>) = key \o (<<"=">> \o (side \o <<c>>))
    BY <1>3 DEF Segment
  <2> HIDE DEF u
  <2>3. key \o u \in Seq(Chars) /\ u \in Seq(Chars) /\ <<c>> \in Seq(Chars)
    BY <1>1, <2>1, ConcatProperties
  <2>5. (key \o u) \o <<c>> = key \o (u \o <<c>>)
    BY <2>3, AssociativeChars
  <2>4. (sent \o (key \o u)) \o <<c>> = sent \o ((key \o u) \o <<c>>)
    BY <1>1, <2>3, AssociativeChars
  <2> QED
    BY <1>1, <2>1, <2>2, <2>3, <2>4, <2>5 DEF SegmentAnd
<1> QED
  BY <1>2, <1>3

\* A character of the pair under way that starts no other.
Follows(base, c, more, held) ==
    /\ place' = place /\ escape' \in Escapes
    /\ more \o escape' = (base \o escape) \o <<c>>
    /\ Without(more, "&") /\ (place = "key" => Without(more, "="))
    /\ current' = IF place = "key" THEN <<held, current[2]>> ELSE <<current[1], held>>
    /\ \A t \in Seq(Chars) : UrlDecode[more \o (escape' \o t)] = held \o UrlDecode[escape' \o t]

LEMMA SameSide ==
    ASSUME QueryInv, NEW c \in Chars, ReadChar(c), c # "&",
           NEW sent \in Seq(Chars), NEW key \in Seq(Chars), NEW base \in Seq(Chars),
           Reads(sent, key, base), NEW more \in Seq(Chars), NEW held \in Seq(Decoded),
           Follows(base, c, more, held)
    PROVE  QueryInv'
<1> DEFINE side == base \o escape
<1>1. side \in Seq(Chars) /\ form = sent \o Now(key, base) /\ form \in Seq(Chars)
  BY Under
<1>2. place \in {"key", "value"} /\ current \in QueryPairs /\ done \in Seq(QueryPairs)
  BY DEF QueryInv
<1>3. form' = Append(form, c) /\ done' = done
  BY DEF ReadChar
<1>4. form' = form \o <<c>>
  BY <1>1, <1>3, AppendIs
<1>5. Now(key, base) = Segment(key, side) /\ Now(key, more)' = Segment(key, side \o <<c>>)
  BY DEF Now, Segment, Follows
<1> HIDE DEF side
<1>6. form' = sent \o Now(key, more)'
  <2>1. (sent \o Segment(key, side)) \o <<c>> = sent \o Segment(key, side \o <<c>>)
    <3>1. SegmentAnd(c, sent, key, side)
      BY <1>1, <1>2, SegmentGrows
    <3> QED
      BY <3>1 DEF SegmentAnd
  <2>2. form' = (sent \o Now(key, base)) \o <<c>>
    BY <1>1, <1>4
  <2>3. (sent \o Now(key, base)) \o <<c>> = (sent \o Segment(key, side)) \o <<c>>
    BY <1>5
  <2>4. Now(key, more)' = Segment(key, side \o <<c>>)
    BY <1>5
  <2> QED
    BY <2>1, <2>2, <2>3, <2>4
<1>a. /\ place' = place /\ escape' \in Escapes
      /\ current' = IF place = "key" THEN <<held, current[2]>> ELSE <<current[1], held>>
  BY DEF Follows
<1>7. Held' = held /\ current' \in QueryPairs
  <2>1. CASE place = "key"
    BY <1>2, <1>a, <2>1 DEF Held, QueryPairs
  <2>2. CASE place = "value"
    BY <1>2, <1>a, <2>2 DEF Held, QueryPairs
  <2> QED
    BY <1>2, <2>1, <2>2
<1>8. /\ place = "key" => current'[2] = current[2]
      /\ place = "value" => current'[1] = current[1]
  BY <1>a
<1>9. /\ sent # <<>> => Last(sent) = "&"
      /\ \A t \in Seq(Chars) : ParseQuery[sent \o t] = done \o ParseQuery[t]
      /\ Without(key, "=") /\ Without(key, "&")
      /\ place = "key" => current[2] = <<>>
      /\ place = "value" => current[1] = UrlDecode[key]
  BY DEF Reads
<1>10. Reads(sent, key, more)'
  BY <1>3, <1>6, <1>7, <1>8, <1>9 DEF Reads, Follows
<1> QED
  BY <1>2, <1>3, <1>7, <1>10, <1>a DEF QueryInv

LEMMA ReadAmp ==
    ASSUME QueryInv, ReadChar("&")
    PROVE  QueryInv'
<1>1. PICK sent \in Seq(Chars), key \in Seq(Chars), base \in Seq(Chars) : Reads(sent, key, base)
  BY DEF QueryInv
<1> DEFINE seg == Now(key, base)
<1>a. PICK whole : whole = form \o <<"&">>
  OBVIOUS
<1>2. /\ seg \in Seq(Chars) /\ Without(seg, "&") /\ form = sent \o seg /\ form \in Seq(Chars)
      /\ One(seg) = IF form = <<>> \/ Last(form) = "&" THEN <<>> ELSE <<Finished>>
      /\ Finished \in QueryPairs
  BY <1>1, Under
<1> HIDE DEF seg
<1>3. "&" \in Chars /\ "&" # "%" /\ "&" # "=" /\ "&" \notin HexDigits
  BY DEF Chars, HexDigits
<1>4. form' = whole /\ escape' = <<>> /\ place' = "key" /\ current' = NoPair
  BY <1>2, <1>3, <1>a, AppendIs DEF ReadChar
<1>5. done \in Seq(QueryPairs) /\ One(seg) \in Seq(QueryPairs)
  BY <1>2, ParseSegment DEF QueryInv
<1>6. done' = done \o One(seg)
  <2>1. done' = IF form = <<>> \/ Last(form) = "&" THEN done ELSE Append(done, Finished)
    BY DEF ReadChar
  <2>2. done \o <<>> = done /\ done \o <<Finished>> = Append(done, Finished)
    BY <1>2, <1>5
  <2> QED
    BY <1>2, <2>1, <2>2
<1>7. whole \in Seq(Chars) /\ whole # <<>> /\ Last(whole) = "&"
  BY Zenon, <1>2, <1>3, <1>a, AppendIs
<1>8. ASSUME NEW t \in Seq(Chars) PROVE ParseQuery[whole \o t] = done' \o ParseQuery[t]
  <2> DEFINE u == <<"&">> \o t
  <2>1. <<"&">> \in Seq(Chars) /\ u \in Seq(Chars) /\ seg \o u \in Seq(Chars)
    BY <1>2, <1>3, AppendIs, ConcatProperties
  <2>2. whole \o t = form \o u
    <3>1. (form \o <<"&">>) \o t = form \o (<<"&">> \o t)
      BY <1>2, <2>1, AssociativeChars
    <3> QED
      BY <1>a, <3>1
  <2>3. ParseQuery[seg \o u] = One(seg) \o ParseQuery[t]
    BY <1>2, ParseSegment
  <2> HIDE DEF u
  <2>4. form \o u = sent \o (seg \o u)
    <3>1. u \in Seq(Chars) /\ seg \in Seq(Chars) /\ form = sent \o seg
      BY <1>2, <2>1
    <3>2. (sent \o seg) \o u = sent \o (seg \o u)
      BY ZenonT(60), <3>1, AssociativeChars
    <3> QED
      BY <3>1, <3>2
  <2>5. ParseQuery[sent \o (seg \o u)] = done \o ParseQuery[seg \o u]
    BY <1>1, <2>1 DEF Reads
  <2>6. done \o (One(seg) \o ParseQuery[t]) = (done \o One(seg)) \o ParseQuery[t]
    <3> DEFINE o == One(seg)
               p == ParseQuery[t]
    <3>1. done \in Seq(QueryPairs) /\ o \in Seq(QueryPairs) /\ p \in Seq(QueryPairs)
      BY <1>5, ParsesQuery
    <3> HIDE DEF o, p
    <3>2. done \o (o \o p) = (done \o o) \o p
      BY <3>1, AssociativePairs
    <3> QED
      BY <3>2 DEF o, p
  <2> QED
    BY <1>6, <2>2, <2>3, <2>4, <2>5, <2>6
<1>9. Now(<<>>, <<>>)' = <<>> /\ Held' = <<>> /\ current'[2] = <<>>
  BY <1>4, EmptyTexts, Associative DEF Now, Segment, Held, NoPair
<1>10. form' = whole \o Now(<<>>, <<>>)'
  BY <1>4, <1>7, <1>9, Associative
<1>11. ASSUME NEW t \in Seq(Chars)
       PROVE  UrlDecode[<<>> \o (escape' \o t)] = <<>> \o UrlDecode[escape' \o t]
  <2>1. <<>> \o (<<>> \o t) = t /\ <<>> \o t = t
    BY EmptyTexts, Associative
  <2>2. UrlDecode[t] \in Seq(Decoded)
    BY UrlDecodes
  <2> QED
    BY <1>4, <2>1, <2>2, Associative
<1>12. Reads(whole, <<>>, <<>>)'
  <2>1. place' # "value" /\ Without(<<>>, "=") /\ Without(<<>>, "&")
    BY <1>4, WithoutOne
  <2>2. \A t \in Seq(Chars) : UrlDecode[<<>> \o (escape' \o t)] = Held' \o UrlDecode[escape' \o t]
    BY <1>9, <1>11
  <2> QED
    BY <1>7, <1>8, <1>9, <1>10, <2>1, <2>2 DEF Reads
<1>13. done' \in Seq(QueryPairs) /\ current' \in QueryPairs
  <2>1. done \o One(seg) \in Seq(QueryPairs)
    BY <1>5, ConcatProperties
  <2> QED
    BY <1>4, <1>6, <2>1, EmptyTexts DEF NoPair, QueryPairs
<1> QED
  BY <1>4, <1>7, <1>12, <1>13, EmptyTexts DEF QueryInv

LEMMA ReadEquals ==
    ASSUME QueryInv, ReadChar("="), place = "key"
    PROVE  QueryInv'
<1>1. PICK sent \in Seq(Chars), key \in Seq(Chars), base \in Seq(Chars) : Reads(sent, key, base)
  BY DEF QueryInv
<1>a. PICK side : side = base \o escape
  OBVIOUS
<1>2. /\ side \in Seq(Chars) /\ Without(side, "&") /\ Without(side, "=")
      /\ form = sent \o side /\ form \in Seq(Chars)
      /\ Finished = <<UrlDecode[side], <<>>>> /\ Finished \in QueryPairs
  BY <1>1, <1>a, Under DEF Segment, Now
<1>3. "=" \in Chars /\ "=" # "%" /\ "&" # "=" /\ "=" \notin HexDigits /\ <<"=">> \in Seq(Chars)
  BY DEF Chars, HexDigits
<1>4. /\ form' = form \o <<"=">> /\ escape' = <<>> /\ place' = "value"
      /\ current' = Finished /\ done' = done
  BY <1>2, <1>3, AppendIs DEF ReadChar
<1>6. form' = sent \o Now(side, <<>>)'
  <2>1. Now(side, <<>>)' = side \o <<"=">>
    <3>1. Now(side, <<>>)' = side \o (<<"=">> \o (<<>> \o <<>>))
      <4>1. escape' = <<>> /\ place' # "key"
        BY <1>4
      <4> QED
        BY <4>1 DEF Now, Segment
    <3>2. <<>> \o <<>> = <<>> /\ <<"=">> \o <<>> = <<"=">>
      BY <1>3, EmptyTexts, Associative
    <3> QED
      BY <3>1, <3>2
  <2>2. (sent \o side) \o <<"=">> = sent \o (side \o <<"=">>)
    BY <1>2, <1>3, Associative
  <2> QED
    BY <1>2, <1>4, <2>1, <2>2
<1>7. Held' = <<>> /\ current'[1] = UrlDecode[side]
  BY <1>2, <1>4 DEF Held
<1>8. ASSUME NEW t \in Seq(Chars)
      PROVE  UrlDecode[<<>> \o (escape' \o t)] = <<>> \o UrlDecode[escape' \o t]
  <2>1. <<>> \o (<<>> \o t) = t /\ <<>> \o t = t
    BY EmptyTexts, Associative
  <2>2. UrlDecode[t] \in Seq(Decoded)
    BY UrlDecodes
  <2> QED
    BY <1>4, <2>1, <2>2, Associative
<1>9. /\ sent # <<>> => Last(sent) = "&"
      /\ \A t \in Seq(Chars) : ParseQuery[sent \o t] = done \o ParseQuery[t]
  BY <1>1 DEF Reads
<1>10. Reads(sent, side, <<>>)'
  <2>1. place' # "key" /\ Without(<<>>, "&")
    BY <1>4, WithoutOne
  <2>2. \A t \in Seq(Chars) : UrlDecode[<<>> \o (escape' \o t)] = Held' \o UrlDecode[escape' \o t]
    BY <1>7, <1>8
  <2>3. \A t \in Seq(Chars) : ParseQuery[sent \o t] = done' \o ParseQuery[t]
    BY <1>4, <1>9
  <2>4. (sent # <<>> => Last(sent) = "&") /\ Without(side, "=") /\ Without(side, "&")
    BY <1>2, <1>9
  <2> QED
    BY <1>6, <1>7, <2>1, <2>2, <2>3, <2>4 DEF Reads
<1>11. done \in Seq(QueryPairs)
  BY DEF QueryInv
<1> QED
  BY <1>2, <1>4, <1>10, <1>11, EmptyTexts DEF QueryInv

LEMMA AssociativeDecoded == \A a, b, c \in Seq(Decoded) : (a \o b) \o c = a \o (b \o c)
BY SMT

LEMMA TextTypes ==
    /\ \A a, b \in Seq(Chars) : a \o b \in Seq(Chars)
    /\ \A a, b \in Seq(Decoded) : a \o b \in Seq(Decoded)
    /\ \A c \in Chars : <<c>> \in Seq(Chars) /\ Plain(c) \in Seq(Decoded)
    /\ \A c, d : <<CharOf(c, d)>> \in Seq(Decoded)
    /\ Seq(Chars) \subseteq Seq(Decoded)
    /\ \A e \in Escapes : e \in Seq(Chars) /\ e \in Seq(Decoded)
<1>1. \A c, d : CharOf(c, d) \in Decoded
  BY DEF CharOf, Decoded, Chars
<1>2. \A c, d : <<CharOf(c, d)>> \in Seq(Decoded)
  BY <1>1
<1>3. \A c \in Chars : <<c>> \in Seq(Chars) /\ Plain(c) \in Seq(Decoded)
  <2>1. \A d \in Decoded : <<d>> \in Seq(Decoded)
    OBVIOUS
  <2>2. \A c \in Chars : <<c>> \in Seq(Chars) /\ c \in Decoded
    BY DEF Decoded
  <2>3. "space" \in Decoded
    BY DEF Decoded
  <2> QED
    BY <2>1, <2>2, <2>3 DEF Plain
<1>4. Seq(Chars) \subseteq Seq(Decoded)
  <2>1. Chars \subseteq Decoded
    BY DEF Decoded
  <2> QED
    BY <2>1
<1>5. ASSUME NEW S, NEW a \in Seq(S), NEW b \in Seq(S) PROVE a \o b \in Seq(S)
  BY ConcatProperties
<1>6. \A a, b \in Seq(Chars) : a \o b \in Seq(Chars)
  BY <1>5
<1>7. \A a, b \in Seq(Decoded) : a \o b \in Seq(Decoded)
  BY <1>5
<1>8. \A e \in Escapes : e \in Seq(Chars) /\ e \in Seq(Decoded)
  BY <1>4, EscapeForms
<1> QED
  BY <1>2, <1>3, <1>4, <1>6, <1>7, <1>8

LEMMA BeforeEscape ==
    ASSUME NEW e \in Escapes, NEW t \in Seq(Chars)
    PROVE  UrlDecode[e \o (<<"%">> \o t)] = e \o UrlDecode[<<"%">> \o t]
<1> DEFINE u == <<"%">> \o t
<1>1. u \in Seq(Chars) /\ u[1] = "%"
  BY EscapeForms, FirstAndRest
<1>2. "%" \notin HexDigits
  BY DEF HexDigits
<1> HIDE DEF u
<1>3. UrlDecode[e \o u] = e \o UrlDecode[u]
  BY <1>1, <1>2, EscapeFails
<1> QED
  BY <1>3 DEF u

LEMMA AfterEscape ==
    ASSUME NEW e \in Escapes, NEW c \in Chars, c # "%", e = <<>> \/ c \notin HexDigits,
           NEW t \in Seq(Chars)
    PROVE  UrlDecode[e \o (<<c>> \o t)] = (e \o Plain(c)) \o UrlDecode[t]
<1> DEFINE u == <<c>> \o t
<1>1. u \in Seq(Chars) /\ u[1] = c
  BY FirstAndRest
<1>2. UrlDecode[u] = Plain(c) \o UrlDecode[t]
  BY NoEscape, DecodePlain
<1> HIDE DEF u
<1>3. e \in Seq(Decoded) /\ UrlDecode[u] \in Seq(Decoded) /\ UrlDecode[t] \in Seq(Decoded)
      /\ Plain(c) \in Seq(Decoded) /\ e \in Seq(Chars)
  BY <1>1, TextTypes, UrlDecodes
<1>4. UrlDecode[e \o u] = e \o UrlDecode[u]
  <2>1. CASE e = <<>>
    <3>1. e \o u = u /\ e \o UrlDecode[u] = UrlDecode[u]
      BY <1>1, <1>3, <2>1
    <3> QED
      BY <3>1
  <2>2. CASE c \notin HexDigits
    BY <1>1, <2>2, EscapeFails
  <2> QED
    BY <2>1, <2>2
<1>5. e \o (Plain(c) \o UrlDecode[t]) = (e \o Plain(c)) \o UrlDecode[t]
  BY <1>3, AssociativeDecoded
<1> QED
  BY <1>2, <1>4, <1>5 DEF u

LEMMA CompleteEscape ==
    ASSUME NEW hi \in HexDigits, NEW lo \in HexDigits, NEW t \in Seq(Chars)
    PROVE  UrlDecode[<<"%", hi>> \o (<<lo>> \o t)] = <<CharOf(hi, lo)>> \o UrlDecode[t]
<1>1. hi \in Chars /\ lo \in Chars /\ "%" \in Chars
  BY EscapeForms
<1>2. <<"%", hi>> = <<"%">> \o <<hi>>
  BY <1>1, PairIsConcat
<1>3. <<"%">> \in Seq(Chars) /\ <<hi>> \in Seq(Chars) /\ <<lo>> \o t \in Seq(Chars)
  BY <1>1, TextTypes
<1>4. (<<"%">> \o <<hi>>) \o (<<lo>> \o t) = <<"%">> \o (<<hi>> \o (<<lo>> \o t))
  BY <1>3, AssociativeChars
<1> QED
  BY Zenon, <1>2, <1>4, DecodeEscape

-----------------------------------------------------------------------------
LEMMA ReadOn ==
    ASSUME QueryInv, NEW c \in Chars, ReadChar(c), c # "&", ~ (c = "=" /\ place = "key")
    PROVE  QueryInv'
<1>1. PICK sent \in Seq(Chars), key \in Seq(Chars), base \in Seq(Chars) : Reads(sent, key, base)
  BY DEF QueryInv
<1>2. PICK e \in Escapes : e = escape
  BY DEF QueryInv
<1>3. PICK held \in Seq(Decoded) : held = Held
  BY DEF QueryInv, Held, QueryPairs
<1>4. PICK side \in Seq(Chars) : side = base \o e
  BY <1>2, TextTypes
<1>5. /\ place \in {"key", "value"} /\ current \in QueryPairs
      /\ current = IF place = "key" THEN <<held, current[2]>> ELSE <<current[1], held>>
  <2>1. place \in {"key", "value"} /\ current \in QueryPairs
    BY DEF QueryInv
  <2>2. current = <<current[1], current[2]>>
    BY <2>1 DEF QueryPairs
  <2> QED
    BY <1>3, <2>1, <2>2 DEF Held
<1>6. \A s : Plus(current, s) = IF place = "key" THEN <<held \o s, current[2]>>
                                ELSE <<current[1], held \o s>>
  BY <1>3, <1>5 DEF Plus, Held
<1>7. Finished = IF place = "key" THEN <<held \o e, current[2]>> ELSE <<current[1], held \o e>>
  BY <1>2, <1>6 DEF Finished
<1>8. ASSUME NEW u \in Seq(Chars)
      PROVE  UrlDecode[base \o (e \o u)] = held \o UrlDecode[e \o u] /\ side \o u = base \o (e \o u)
  <2>1. UrlDecode[base \o (escape \o u)] = Held \o UrlDecode[escape \o u]
    BY <1>1 DEF Reads
  <2>2. e \in Seq(Chars)
    BY TextTypes
  <2>3. (base \o e) \o u = base \o (e \o u)
    BY SMTT(30), <2>2, AssociativeChars
  <2> QED
    BY <1>2, <1>3, <1>4, <2>1, <2>3
<1>9. Without(side, "&") /\ (place = "key" => Without(side, "="))
  BY <1>1, <1>2, <1>4, Under
<1>10. /\ Without(base, "&") /\ (place = "key" => Without(base, "="))
  BY <1>1 DEF Reads
<1>11. e \in Seq(Chars) /\ e \in Seq(Decoded) /\ <<c>> \in Seq(Chars) /\ Plain(c) \in Seq(Decoded)
  BY TextTypes
<1>12. place' = place
  BY <1>5 DEF ReadChar
<1>13. ASSUME NEW more \in Seq(Chars), NEW now \in Seq(Decoded), Follows(base, c, more, now)
       PROVE  QueryInv'
  BY <1>1, <1>13, SameSide
<1>14. CASE c = "%"
  <2>1. escape' = <<"%">> /\ current' = Finished
    BY <1>14 DEF ReadChar, HexDigits
  <2>2. held \o e \in Seq(Decoded)
    BY <1>11, TextTypes
  <2>3. escape' \in Escapes
    BY <2>1 DEF Escapes
  <2>4. ASSUME NEW t \in Seq(Chars)
        PROVE  UrlDecode[side \o (escape' \o t)] = (held \o e) \o UrlDecode[escape' \o t]
    <3> DEFINE u == <<"%">> \o t
    <3>1. u \in Seq(Chars)
      BY <1>11, <1>14, TextTypes
    <3>2. UrlDecode[e \o u] = e \o UrlDecode[u]
      BY BeforeEscape
    <3>3. escape' \o t = u
      BY <2>1
    <3> HIDE DEF u
    <3>4. UrlDecode[u] \in Seq(Decoded)
      BY <3>1, UrlDecodes
    <3>5. held \o (e \o UrlDecode[u]) = (held \o e) \o UrlDecode[u]
      BY <1>11, <3>4, AssociativeDecoded
    <3> QED
      BY <1>8, <3>1, <3>2, <3>3, <3>5
  <2>5. Follows(base, c, side, held \o e)
    BY <1>2, <1>4, <1>7, <1>9, <1>12, <1>14, <2>1, <2>3, <2>4 DEF Follows
  <2> QED
    BY <1>13, <2>2, <2>5
<1>15. CASE e = <<"%">> /\ c \in HexDigits
  <2>1. escape' = <<"%", c>> /\ current' = current
    BY <1>2, <1>15 DEF ReadChar, HexDigits
  <2>2. escape' \in Escapes
    BY <1>15, <2>1 DEF Escapes
  <2>3. escape' = e \o <<c>>
    BY <1>15, <2>1, EscapeForms, PairIsConcat
  <2>4. base \o (e \o <<c>>) = side \o <<c>>
    BY <1>8, <1>11
  <2>5. ASSUME NEW t \in Seq(Chars)
        PROVE  UrlDecode[base \o (escape' \o t)] = held \o UrlDecode[escape' \o t]
    <3>1. (e \o <<c>>) \o t = e \o (<<c>> \o t)
      BY <1>11, AssociativeChars
    <3>2. <<c>> \o t \in Seq(Chars)
      BY <1>11, TextTypes
    <3>3. UrlDecode[base \o (e \o (<<c>> \o t))] = held \o UrlDecode[e \o (<<c>> \o t)]
      BY <1>8, <3>2
    <3> QED
      BY <2>3, <3>1, <3>3
  <2>6. base \o escape' = (base \o escape) \o <<c>>
    BY <1>2, <1>4, <2>3, <2>4
  <2>7. Follows(base, c, base, held)
    BY <1>5, <1>10, <1>12, <2>1, <2>2, <2>5, <2>6 DEF Follows
  <2> QED
    BY <1>13, <2>7
<1> DEFINE more == side \o <<c>>
<1>16. /\ more \in Seq(Chars) /\ more \o <<>> = side \o <<c>>
       /\ c # "%" => Without(more, "&") /\ (place = "key" => Without(more, "="))
  <2>1. more \in Seq(Chars)
    BY <1>11, TextTypes
  <2>2. more \o <<>> = more
    BY <2>1
  <2>3. Without(<<c>>, "&") /\ (place = "key" => Without(<<c>>, "="))
    BY WithoutOne
  <2> QED
    BY <1>9, <1>11, <2>1, <2>2, <2>3, WithoutConcat
<1>17. ASSUME NEW t \in Seq(Chars) PROVE more \o (<<>> \o t) = base \o (e \o (<<c>> \o t)) /\ <<>> \o t = t
  <2>1. <<>> \o t = t
    OBVIOUS
  <2>2. more \o t = side \o (<<c>> \o t)
    BY <1>11, AssociativeChars
  <2>3. <<c>> \o t \in Seq(Chars)
    BY <1>11, TextTypes
  <2> QED
    BY <1>8, <2>1, <2>2, <2>3
<1> HIDE DEF more
<1>18. ASSUME NEW hi \in HexDigits, e = <<"%", hi>>, c \in HexDigits PROVE QueryInv'
  <2> DEFINE now == held \o <<CharOf(hi, c)>>
  <2>1. Len(e) = 2 /\ e[2] = hi /\ e # <<"%">>
    BY <1>18
  <2>2. c # "%" /\ c # "="
    BY <1>18 DEF HexDigits
  <2>3. escape' = <<>> /\ current' = Plus(current, <<CharOf(hi, c)>>)
    BY <1>2, <1>18, <2>1, <2>2 DEF ReadChar
  <2>4. now \in Seq(Decoded) /\ <<CharOf(hi, c)>> \in Seq(Decoded)
    BY TextTypes
  <2>5. current' = IF place = "key" THEN <<now, current[2]>> ELSE <<current[1], now>>
    BY <1>6, <2>3
  <2>6. ASSUME NEW t \in Seq(Chars)
        PROVE  UrlDecode[more \o (<<>> \o t)] = now \o UrlDecode[<<>> \o t]
    <3>1. <<c>> \o t \in Seq(Chars)
      BY <1>11, TextTypes
    <3>2. UrlDecode[e \o (<<c>> \o t)] = <<CharOf(hi, c)>> \o UrlDecode[t]
      BY <1>18, CompleteEscape
    <3>3. UrlDecode[base \o (e \o (<<c>> \o t))] = held \o (<<CharOf(hi, c)>> \o UrlDecode[t])
      BY <1>8, <3>1, <3>2
    <3>4. UrlDecode[t] \in Seq(Decoded)
      BY UrlDecodes
    <3>5. held \o (<<CharOf(hi, c)>> \o UrlDecode[t]) = now \o UrlDecode[t]
      BY <2>4, <3>4, AssociativeDecoded
    <3> QED
      BY <1>17, <3>3, <3>5
  <2> HIDE DEF now
  <2>7. Follows(base, c, more, now)
    BY <1>2, <1>4, <1>12, <1>16, <2>2, <2>3, <2>5, <2>6, EmptyTexts DEF Follows
  <2> QED
    BY <1>13, <1>16, <2>4, <2>7
<1>19. CASE c # "%" /\ (e = <<>> \/ c \notin HexDigits)
  <2> DEFINE now == held \o (e \o Plain(c))
  <2>1. e \o Plain(c) \in Seq(Decoded) /\ now \in Seq(Decoded)
    BY <1>11, TextTypes
  <2>2. (held \o e) \o Plain(c) = now
    BY <1>11, AssociativeDecoded
  <2>3. Plus(Finished, Plain(c)) = IF place = "key" THEN <<now, current[2]>> ELSE <<current[1], now>>
    BY <1>5, <1>7, <2>2 DEF Plus
  <2> HIDE DEF now
  <2>4. escape # <<"%">> \/ c \notin HexDigits
    <3>1. <<>> # <<"%">>
      OBVIOUS
    <3> QED
      BY <1>2, <1>19, <3>1
  <2>5. ~ (Len(escape) = 2 /\ c \in HexDigits)
    <3>1. Len(<<>>) # 2
      OBVIOUS
    <3> QED
      BY <1>2, <1>19, <3>1
  <2>6. escape' = <<>>
    BY <1>19, <2>4 DEF ReadChar
  <2>7. current' = Plus(Finished, Plain(c))
    <3>1. c = "=" => Plain(c) = <<"=">>
      BY DEF Plain
    <3> QED
      BY <1>5, <1>19, <2>4, <2>5, <3>1 DEF ReadChar
  <2>8. ASSUME NEW t \in Seq(Chars)
        PROVE  UrlDecode[more \o (<<>> \o t)] = now \o UrlDecode[<<>> \o t]
    <3>1. <<c>> \o t \in Seq(Chars)
      BY <1>11, TextTypes
    <3>2. UrlDecode[e \o (<<c>> \o t)] = (e \o Plain(c)) \o UrlDecode[t]
      BY <1>19, AfterEscape
    <3>3. UrlDecode[base \o (e \o (<<c>> \o t))] = held \o ((e \o Plain(c)) \o UrlDecode[t])
      BY <1>8, <3>1, <3>2
    <3>4. UrlDecode[t] \in Seq(Decoded)
      BY UrlDecodes
    <3>5. held \o ((e \o Plain(c)) \o UrlDecode[t]) = now \o UrlDecode[t]
      BY <2>1, <3>4, AssociativeDecoded DEF now
    <3> QED
      BY <1>17, <3>3, <3>5
  <2>9. Follows(base, c, more, now)
    BY <1>2, <1>4, <1>12, <1>16, <1>19, <2>3, <2>6, <2>7, <2>8, EmptyTexts DEF Follows
  <2> QED
    BY <1>13, <1>16, <2>1, <2>9
<1> QED
  BY <1>14, <1>15, <1>18, <1>19 DEF Escapes

LEMMA QueryStep == QueryInv /\ [QueryRead]_formVars => QueryInv'
<1> SUFFICES ASSUME QueryInv, [QueryRead]_formVars PROVE QueryInv'
  OBVIOUS
<1>1. ASSUME NEW c \in Chars, ReadChar(c) PROVE QueryInv'
  BY <1>1, ReadAmp, ReadEquals, ReadOn
<1>2. CASE UNCHANGED formVars
  <2>1. PICK sent \in Seq(Chars), key \in Seq(Chars), base \in Seq(Chars) : Reads(sent, key, base)
    BY DEF QueryInv
  <2>2. form' = form /\ place' = place /\ escape' = escape /\ current' = current /\ done' = done
    BY <1>2 DEF formVars
  <2>3. Held' = Held /\ Now(key, base)' = Now(key, base)
    BY <2>2 DEF Held, Now, Segment
  <2>4. Reads(sent, key, base)'
    BY <2>1, <2>2, <2>3 DEF Reads
  <2>5. place' \in {"key", "value"} /\ escape' \in Escapes /\ done' \in Seq(QueryPairs) /\ current' \in QueryPairs
    BY <2>2 DEF QueryInv
  <2> QED
    BY <2>4, <2>5 DEF QueryInv
<1> QED
  BY <1>1, <1>2 DEF QueryRead

\* Whatever is read, every query is decoded as its characters say.
THEOREM QueryDecoded == QuerySpec => []QueryIsDecoded
<1>1. QuerySpec => []QueryInv
  BY QueryStarts, QueryStep, PTL DEF QuerySpec
<1> QED
  BY <1>1, QueryDecodedNow, PTL

-----------------------------------------------------------------------------
(* One more lexeme *)

LEMMA OneMore ==
    ASSUME NEW S, NEW s \in Seq(S), NEW c \in S
    PROVE  /\ Append(s, c) \in Seq(S) /\ Len(s) \in Nat /\ Len(Append(s, c)) = Len(s) + 1
           /\ \A i \in 1 .. Len(s) : Append(s, c)[i] = s[i]
           /\ Append(s, c)[Len(s) + 1] = c
<1> QED
  BY AppendProperties, LenProperties

LEMMA SameCut ==
    ASSUME NEW S, NEW s \in Seq(S), NEW c \in S, NEW m \in Nat, NEW n \in Nat,
           m > 0, n <= Len(s)
    PROVE  SubSeq(Append(s, c), m, n) = SubSeq(s, m, n)
<1> DEFINE t == Append(s, c)
<1>1. /\ t \in Seq(S) /\ Len(s) \in Nat /\ Len(t) = Len(s) + 1
      /\ \A i \in 1 .. Len(s) : t[i] = s[i]
  BY OneMore
<1>2. CASE m <= n
  <2>1. PICK k \in Nat : m = k + 1
    BY m - 1 \in Nat, m = (m - 1) + 1
  <2>2. /\ SubSeq(t, k + 1, n) \in Seq(S) /\ Len(SubSeq(t, k + 1, n)) = n - k
        /\ \A i \in 1 .. n - k : SubSeq(t, k + 1, n)[i] = t[k + i]
    BY <1>1, <1>2, <2>1, Stretch
  <2>3. /\ SubSeq(s, k + 1, n) \in Seq(S) /\ Len(SubSeq(s, k + 1, n)) = n - k
        /\ \A i \in 1 .. n - k : SubSeq(s, k + 1, n)[i] = s[k + i]
    BY <1>1, <1>2, <2>1, Stretch
  <2>4. \A i \in 1 .. n - k : k + i \in 1 .. Len(s)
    BY <1>1, <1>2, <2>1
  <2>5. \A i \in 1 .. n - k : SubSeq(t, k + 1, n)[i] = SubSeq(s, k + 1, n)[i]
    BY <1>1, <2>2, <2>3, <2>4
  <2> DEFINE a == SubSeq(t, k + 1, n)
             b == SubSeq(s, k + 1, n)
  <2>6. a \in Seq(S) /\ b \in Seq(S) /\ Len(a) = Len(b) /\ \A i \in 1 .. Len(a) : a[i] = b[i]
    BY <2>2, <2>3, <2>5
  <2>7. a = b
    <3> HIDE DEF a, b, t
    <3> QED
      BY <2>6, SeqEqual
  <2> QED
    BY <2>1, <2>7
<1>3. CASE m > n
  <2>1. SubSeq(t, m, n) = <<>> /\ SubSeq(s, m, n) = <<>>
    BY <1>1, <1>3, SubSeqProperties, EmptySeq
  <2> QED
    BY <2>1
<1> QED
  BY <1>2, <1>3

LEMMA AfterType ==
    ASSUME NEW S, NEW s \in Seq(S), NEW n \in Nat
    PROVE  /\ After(s, n) \in Seq(S) /\ Len(s) \in Nat
           /\ n <= Len(s) => /\ Len(After(s, n)) = Len(s) - n
                             /\ \A i \in 1 .. Len(s) - n : After(s, n)[i] = s[n + i]
           /\ n > Len(s) => After(s, n) = <<>>
<1>1. Len(s) \in Nat
  BY LenProperties
<1>2. CASE n <= Len(s)
  <2>1. Len(s) <= Len(s)
    BY <1>1
  <2> QED
    BY <1>1, <1>2, <2>1, Stretch DEF After
<1>3. CASE n > Len(s)
  <2>1. After(s, n) = <<>>
    BY <1>1, <1>3, SubSeqProperties, EmptySeq DEF After
  <2>2. <<>> \in Seq(S)
    OBVIOUS
  <2> QED
    BY <1>1, <1>3, <2>1, <2>2
<1> QED
  BY <1>2, <1>3, <1>1

LEMMA AfterOneMore ==
    ASSUME NEW S, NEW s \in Seq(S), NEW c \in S, NEW n \in Nat, n <= Len(s)
    PROVE  After(Append(s, c), n) = Append(After(s, n), c)
<1> DEFINE t == Append(s, c)
           a == After(t, n)
           r == After(s, n)
           b == Append(r, c)
<1>1. /\ t \in Seq(S) /\ Len(s) \in Nat /\ Len(t) = Len(s) + 1
      /\ \A i \in 1 .. Len(s) : t[i] = s[i]
      /\ t[Len(s) + 1] = c
  BY OneMore
<1>2. r \in Seq(S) /\ Len(r) = Len(s) - n /\ \A i \in 1 .. Len(s) - n : r[i] = s[n + i]
  BY AfterType
<1>3. a \in Seq(S) /\ Len(a) = Len(t) - n /\ \A i \in 1 .. Len(t) - n : a[i] = t[n + i]
  <2>1. n <= Len(t)
    BY <1>1
  <2>2. \A u \in Seq(S) : n <= Len(u) =>
            /\ After(u, n) \in Seq(S) /\ Len(After(u, n)) = Len(u) - n
            /\ \A i \in 1 .. Len(u) - n : After(u, n)[i] = u[n + i]
    BY AfterType
  <2> HIDE DEF t
  <2> QED
    BY <1>1, <2>1, <2>2
<1>4. b \in Seq(S) /\ Len(b) = Len(r) + 1 /\ (\A i \in 1 .. Len(r) : b[i] = r[i]) /\ b[Len(r) + 1] = c
  BY <1>2, OneMore
<1> HIDE DEF a, b, r, t
<1>5. ASSUME NEW i \in 1 .. Len(a) PROVE a[i] = b[i]
  <2>1. CASE i \in 1 .. Len(s) - n
    <3>1. n + i \in 1 .. Len(s) /\ i \in 1 .. Len(r) /\ i \in 1 .. Len(t) - n
      BY <1>1, <1>2, <2>1
    <3> QED
      BY <1>1, <1>2, <1>3, <1>4, <2>1, <3>1
  <2>2. CASE i = Len(s) - n + 1
    <3>1. n + i = Len(s) + 1 /\ i = Len(r) + 1 /\ i \in 1 .. Len(t) - n
      BY <1>1, <1>2, <2>2
    <3> QED
      BY <1>1, <1>3, <1>4, <3>1
  <2>3. i \in 1 .. Len(s) - n \/ i = Len(s) - n + 1
    BY <1>1, <1>3, <1>5
  <2> QED
    BY <2>1, <2>2, <2>3
<1>6. Len(a) = Len(b)
  BY <1>1, <1>2, <1>3, <1>4
<1>7. a = b
  BY <1>3, <1>4, <1>5, <1>6, SeqEqual
<1> QED
  BY <1>7 DEF a, b, r, t

-----------------------------------------------------------------------------
(* Searching *)

LEMMA FindIs ==
    ASSUME NEW S, NEW s \in Seq(S), NEW pat \in Seq(S), pat # <<>>
    PROVE  /\ Find(s, pat) \in Nat /\ Len(pat) \in Nat /\ Len(s) \in Nat
           /\ Find(s, pat) # 0 => /\ Find(s, pat) + Len(pat) <= Len(s) + 1
                                  /\ At(s, Find(s, pat), pat)
           /\ \A p \in Nat : p > 0 /\ p + Len(pat) <= Len(s) + 1 /\ At(s, p, pat)
                               => Find(s, pat) # 0 /\ Find(s, pat) <= p
<1> DEFINE found == {p \in 1 .. Len(s) - Len(pat) + 1 : At(s, p, pat)}
<1>1. Len(pat) \in Nat /\ Len(s) \in Nat
  BY LenProperties
<1>2. found \subseteq Nat \ {0}
  BY <1>1
<1>3. found # {} => Min(found) \in found /\ \A q \in found : Min(found) <= q
  <2> HIDE DEF found
  <2> QED
    BY <1>2, MinIsLeast
<1>4. Find(s, pat) = IF found = {} THEN 0 ELSE Min(found)
  BY DEF Find
<1>5. \A p \in Nat : p > 0 /\ p + Len(pat) <= Len(s) + 1 /\ At(s, p, pat) => p \in found
  BY <1>1
<1>6. \A p \in found : p + Len(pat) <= Len(s) + 1 /\ At(s, p, pat)
  BY <1>1
<1> HIDE DEF found
<1>7. Find(s, pat) # 0 => Find(s, pat) \in found
  BY <1>3, <1>4
<1>8. Find(s, pat) \in Nat
  <2>1. \A q \in found : q \in Nat
    BY <1>2
  <2>2. CASE found = {}
    BY <1>4, <2>2
  <2>3. CASE found # {}
    BY <1>3, <1>4, <2>1, <2>3
  <2> QED
    BY <2>2, <2>3
<1>9. ASSUME NEW p \in found PROVE Find(s, pat) # 0 /\ Find(s, pat) <= p
  BY <1>2, <1>3, <1>4
<1>10. Find(s, pat) # 0 => Find(s, pat) + Len(pat) <= Len(s) + 1 /\ At(s, Find(s, pat), pat)
  BY <1>6, <1>7
<1>11. ASSUME NEW p \in Nat, p > 0, p + Len(pat) <= Len(s) + 1, At(s, p, pat)
       PROVE  Find(s, pat) # 0 /\ Find(s, pat) <= p
  <2>1. p \in found
    BY <1>5, <1>11
  <2> QED
    BY <1>9, <2>1
<1> QED
  BY <1>1, <1>8, <1>10, <1>11

\* Where a pattern is in a text it is also in a longer one, and the reverse.
LEMMA AtStays ==
    ASSUME NEW S, NEW s \in Seq(S), NEW c \in S, NEW pat \in Seq(S), NEW p \in Nat,
           p > 0, p + Len(pat) <= Len(s) + 1
    PROVE  At(Append(s, c), p, pat) <=> At(s, p, pat)
<1>1. Len(pat) \in Nat /\ Len(s) \in Nat /\ DOMAIN pat = 1 .. Len(pat)
  BY LenProperties
<1>2. \A i \in 1 .. Len(s) : Append(s, c)[i] = s[i]
  BY OneMore
<1>3. \A i \in DOMAIN pat : p + i - 1 \in 1 .. Len(s)
  BY <1>1
<1> QED
  BY <1>2, <1>3 DEF At

\* A pattern found is found at the same place later; one that is not is found
\* at the end or not at all.
LEMMA FindStays ==
    ASSUME NEW S, NEW s \in Seq(S), NEW c \in S, NEW pat \in Seq(S), pat # <<>>
    PROVE  /\ Find(s, pat) # 0 => Find(Append(s, c), pat) = Find(s, pat)
           /\ Find(s, pat) = 0 => \/ Find(Append(s, c), pat) = 0
                                  \/ /\ Find(Append(s, c), pat) + Len(pat) = Len(s) + 2
                                     /\ At(Append(s, c), Find(Append(s, c), pat), pat)
<1> DEFINE t == Append(s, c)
           f == Find(s, pat)
           g == Find(t, pat)
<1>1. t \in Seq(S) /\ Len(t) = Len(s) + 1 /\ Len(s) \in Nat /\ Len(pat) \in Nat
  BY OneMore, LenProperties
<1>2. /\ f \in Nat
      /\ f # 0 => f + Len(pat) <= Len(s) + 1 /\ At(s, f, pat)
      /\ \A p \in Nat : p > 0 /\ p + Len(pat) <= Len(s) + 1 /\ At(s, p, pat) => f # 0 /\ f <= p
  BY FindIs
<1>3. /\ g \in Nat
      /\ g # 0 => g + Len(pat) <= Len(t) + 1 /\ At(t, g, pat)
      /\ \A p \in Nat : p > 0 /\ p + Len(pat) <= Len(t) + 1 /\ At(t, p, pat) => g # 0 /\ g <= p
  <2> HIDE DEF t
  <2> QED
    BY <1>1, FindIs
<1>4. \A p \in Nat : p > 0 /\ p + Len(pat) <= Len(s) + 1 => (At(t, p, pat) <=> At(s, p, pat))
  BY AtStays
<1> HIDE DEF f, g, t
<1>5. CASE f # 0
  <2>1. f > 0 /\ f + Len(pat) <= Len(s) + 1 /\ At(s, f, pat)
    BY <1>2, <1>5
  <2>2. At(t, f, pat) /\ f + Len(pat) <= Len(t) + 1
    BY <1>1, <1>2, <1>4, <2>1
  <2>3. g # 0 /\ g <= f
    BY <1>2, <1>3, <2>1, <2>2
  <2>4. g + Len(pat) <= Len(s) + 1 /\ At(t, g, pat)
    BY <1>1, <1>2, <1>3, <2>1, <2>3
  <2>5. At(s, g, pat)
    BY <1>3, <1>4, <2>3, <2>4
  <2>6. f <= g
    BY <1>2, <1>3, <2>3, <2>4, <2>5
  <2> QED
    BY <1>2, <1>3, <1>5, <2>3, <2>6 DEF f, g, t
<1>6. CASE f = 0 /\ g # 0
  <2>1. g + Len(pat) <= Len(t) + 1 /\ At(t, g, pat)
    BY <1>3, <1>6
  <2>2. ~(g + Len(pat) <= Len(s) + 1)
    BY <1>2, <1>3, <1>4, <1>6, <2>1
  <2>3. g + Len(pat) = Len(s) + 2
    BY <1>1, <1>3, <2>1, <2>2
  <2> QED
    BY <1>6, <2>1, <2>3 DEF f, g, t
<1> QED
  BY <1>5, <1>6 DEF f, g, t
-----------------------------------------------------------------------------
(* The head *)

Blank4 == <<"CR", "LF", "CR", "LF">>
Blank2 == <<"LF", "LF">>

LEMMA Patterns ==
    /\ CrLf \in Seq(HttpLexemes) /\ CrLf # <<>> /\ Len(CrLf) = 2
    /\ Blank4 \in Seq(HttpLexemes) /\ Blank4 # <<>> /\ Len(Blank4) = 4
    /\ Blank2 \in Seq(HttpLexemes) /\ Blank2 # <<>> /\ Len(Blank2) = 2
<1>1. "CR" \in HttpLexemes /\ "LF" \in HttpLexemes
  BY DEF HttpLexemes
<1> QED
  BY <1>1 DEF CrLf, Blank4, Blank2

\* The end of a head does not move once it has been found.
LEMMA HeadStays ==
    ASSUME NEW s \in Seq(HttpLexemes), NEW c \in HttpLexemes, HeadBounds(s).end # Npos
    PROVE  /\ HeadBounds(Append(s, c)) = HeadBounds(s)
           /\ HeadBounds(s).end \in Nat /\ HeadBounds(s).separator \in {2, 4}
           /\ HeadBounds(s).end + HeadBounds(s).separator <= Len(s)
<1> DEFINE t == Append(s, c)
           c4 == Find(s, Blank4)
           c2 == Find(s, Blank2)
           d4 == Find(t, Blank4)
           d2 == Find(t, Blank2)
           n == Len(s)
<1>1. t \in Seq(HttpLexemes) /\ Len(t) = n + 1 /\ n \in Nat /\ \A i \in 1 .. n : t[i] = s[i]
  BY OneMore
<1>2. /\ c4 \in Nat /\ (c4 # 0 => c4 + 4 <= n + 1)
      /\ c2 \in Nat /\ (c2 # 0 => c2 + 2 <= n + 1 /\ At(s, c2, Blank2))
  BY FindIs, Patterns
<1>3. /\ c4 # 0 => d4 = c4
      /\ c4 = 0 => d4 = 0 \/ (d4 + 4 = n + 2 /\ At(t, d4, Blank4))
      /\ c2 # 0 => d2 = c2
      /\ c2 = 0 => d2 = 0 \/ d2 + 2 = n + 2
  <2>1. /\ c4 # 0 => d4 = c4
        /\ c4 = 0 => d4 = 0 \/ (d4 + Len(Blank4) = n + 2 /\ At(t, d4, Blank4))
    BY FindStays, Patterns
  <2>2. /\ c2 # 0 => d2 = c2
        /\ c2 = 0 => d2 = 0 \/ (d2 + Len(Blank2) = n + 2 /\ At(t, d2, Blank2))
    BY FindStays, Patterns
  <2> HIDE DEF t, c2, d4, n, d2, c4
  <2> QED
    BY <2>1, <2>2, Patterns
<1>4. d4 \in Nat /\ d2 \in Nat
  <2>1. \A u \in Seq(HttpLexemes) : Find(u, Blank4) \in Nat /\ Find(u, Blank2) \in Nat
    BY FindIs, Patterns
  <2> QED
    BY <1>1, <2>1
<1>5. HeadBounds(s) = IF c2 = 0 /\ c4 = 0 THEN [end |-> Npos, separator |-> 0]
                      ELSE IF c4 = 0 \/ (c2 # 0 /\ c2 < c4) THEN [end |-> c2 - 1, separator |-> 2]
                      ELSE [end |-> c4 - 1, separator |-> 4]
  BY DEF HeadBounds, Blank2, Blank4
<1>6. HeadBounds(t) = IF d2 = 0 /\ d4 = 0 THEN [end |-> Npos, separator |-> 0]
                      ELSE IF d4 = 0 \/ (d2 # 0 /\ d2 < d4) THEN [end |-> d2 - 1, separator |-> 2]
                      ELSE [end |-> d4 - 1, separator |-> 4]
  BY DEF HeadBounds, Blank2, Blank4
<1>7. ~(c2 = 0 /\ c4 = 0)
  BY <1>5
<1>8. c2 # 0 /\ c4 = 0 => d4 = 0 \/ c2 < d4
  <2>1. SUFFICES ASSUME c2 # 0, c4 = 0, d4 # 0, ~(c2 < d4) PROVE FALSE
    OBVIOUS
  <2>2. d4 + 4 = n + 2 /\ At(t, d4, Blank4)
    BY <1>3, <2>1
  <2>3. t[d4 + 1 - 1] = "CR" /\ t[d4 + 3 - 1] = "CR"
    <3>1. 1 \in DOMAIN Blank4 /\ 3 \in DOMAIN Blank4 /\ Blank4[1] = "CR" /\ Blank4[3] = "CR"
      BY DEF Blank4
    <3> QED
      BY <2>2, <3>1 DEF At
  <2>4. At(s, c2, Blank2)
    BY <1>2, <2>1
  <2>5. s[c2 + 1 - 1] = "LF" /\ s[c2 + 2 - 1] = "LF"
    <3>1. 1 \in DOMAIN Blank2 /\ 2 \in DOMAIN Blank2 /\ Blank2[1] = "LF" /\ Blank2[2] = "LF"
      BY DEF Blank2
    <3> QED
      BY <2>4, <3>1 DEF At
  <2> HIDE DEF t, c2, d4, n
  <2>6. c2 = d4 \/ c2 + 1 = d4 + 2
    BY <1>1, <1>2, <1>4, <2>1, <2>2
  <2>7. c2 + 1 - 1 = c2 /\ c2 + 2 - 1 = c2 + 1 /\ d4 + 1 - 1 = d4 /\ d4 + 3 - 1 = d4 + 2
    BY <1>2, <1>4
  <2>8. c2 \in 1 .. n /\ c2 + 1 \in 1 .. n
    BY <1>1, <1>2, <2>1
  <2>9. t[c2] = "LF" /\ t[c2 + 1] = "LF" /\ t[d4] = "CR" /\ t[d4 + 2] = "CR"
    BY <1>1, <2>3, <2>5, <2>7, <2>8
  <2> QED
    BY <2>6, <2>9
<1>9. c4 # 0 /\ c2 = 0 => d2 = 0 \/ ~(d2 < d4)
  <2> HIDE DEF t, c2, d4, n, d2, c4
  <2> QED
    BY <1>1, <1>2, <1>3, <1>4
<1>10. HeadBounds(t) = HeadBounds(s)
  <2> HIDE DEF t, c2, d4, n, d2, c4
  <2>1. CASE c4 = 0
    BY <1>3, <1>5, <1>6, <1>7, <1>8, <2>1
  <2>2. CASE c4 # 0 /\ c2 = 0
    BY <1>3, <1>5, <1>6, <1>9, <2>2
  <2>3. CASE c4 # 0 /\ c2 # 0
    BY <1>3, <1>5, <1>6, <2>3
  <2> QED
    BY <2>1, <2>2, <2>3
<1>11. /\ HeadBounds(s).end \in Nat /\ HeadBounds(s).separator \in {2, 4}
       /\ HeadBounds(s).end + HeadBounds(s).separator <= n
  <2> HIDE DEF t, c2, d4, n, d2, c4
  <2>1. CASE c4 = 0 \/ (c2 # 0 /\ c2 < c4)
    BY <1>1, <1>2, <1>5, <1>7, <2>1
  <2>2. CASE ~(c4 = 0 \/ (c2 # 0 /\ c2 < c4))
    BY <1>1, <1>2, <1>5, <1>7, <2>2
  <2> QED
    BY <2>1, <2>2
<1> QED
  BY <1>10, <1>11
-----------------------------------------------------------------------------
(* The trailer section *)

\* The equation of Trailers.
LEMMA TrailersIs ==
    /\ Trailers \in [Seq(HttpLexemes) -> Nat]
    /\ \A s \in Seq(HttpLexemes) :
          Trailers[s] = IF Find(s, CrLf) = 0 THEN 0
                        ELSE IF Find(s, CrLf) = 1 THEN 2
                        ELSE IF Trailers[After(s, Find(s, CrLf) + 1)] = 0 THEN 0
                        ELSE Find(s, CrLf) + 1 + Trailers[After(s, Find(s, CrLf) + 1)]
<1> DEFINE D == Seq(HttpLexemes)
           V == Nat
           Next0(s) == After(s, Find(s, CrLf) + 1)
           Body(g, s) == CASE Find(s, CrLf) = 0 -> 0
                           [] Find(s, CrLf) = 1 -> 2
                           [] OTHER -> IF g[Next0(s)] = 0 THEN 0 ELSE Find(s, CrLf) + 1 + g[Next0(s)]
           F == [p \in [D -> V] \X D |-> Body(p[1], p[2])]
           size == [s \in D |-> Len(s)]
<1>1. size \in [D -> Nat] /\ 0 \in V
  BY LenProperties
<1>2. ASSUME NEW s \in D
      PROVE  Find(s, CrLf) \in Nat
             /\ (Find(s, CrLf) # 0 => Next0(s) \in D /\ Len(Next0(s)) < Len(s))
  <2>1. /\ Find(s, CrLf) \in Nat /\ Len(s) \in Nat
        /\ Find(s, CrLf) # 0 => Find(s, CrLf) + 2 <= Len(s) + 1
    BY FindIs, Patterns
  <2>2. Find(s, CrLf) # 0 => /\ Find(s, CrLf) + 1 \in Nat /\ Find(s, CrLf) + 1 <= Len(s)
    BY <2>1
  <2>3. Find(s, CrLf) # 0 => Next0(s) \in D /\ Len(Next0(s)) = Len(s) - (Find(s, CrLf) + 1)
    BY <2>2, AfterType
  <2> HIDE DEF Next0
  <2> QED
    BY <2>1, <2>2, <2>3
<1>3. ASSUME NEW g, NEW s \in D, Find(s, CrLf) # 0 => g[Next0(s)] \in V
      PROVE  Body(g, s) \in V
  <2> HIDE DEF Next0
  <2> QED
    BY <1>2, <1>3
<1>4. F \in [[D -> V] \X D -> V]
  <2> HIDE DEF Body, Next0
  <2> QED
    BY <1>2, <1>3
<1>5. OnSmaller(D, V, size, F)
  <2>1. SUFFICES ASSUME NEW g \in [D -> V], NEW h \in [D -> V], NEW s \in D,
                        \A r \in D : size[r] < size[s] => g[r] = h[r]
                 PROVE  F[<<g, s>>] = F[<<h, s>>]
    BY DEF OnSmaller
  <2>2. F[<<g, s>>] = Body(g, s) /\ F[<<h, s>>] = Body(h, s)
    <3> HIDE DEF Body
    <3> QED
      OBVIOUS
  <2>3. Find(s, CrLf) # 0 => g[Next0(s)] = h[Next0(s)]
    <3> HIDE DEF Next0
    <3> QED
      BY <1>2, <2>1
  <2>4. Body(g, s) = Body(h, s)
    <3> HIDE DEF Next0
    <3> QED
      BY <1>2, <2>3
  <2> QED
    BY <2>2, <2>4
<1>6. PICK h \in [D -> V] : \A s \in D : h[s] = F[<<h, s>>]
  <2> HIDE DEF D, V, F, size
  <2>1. Recursive(D, V, F)
    BY <1>1, <1>4, <1>5, RecursionOnSize
  <2> QED
    BY <2>1 DEF Recursive
<1>7. h = [s \in D |-> Body(h, s)]
  <2> HIDE DEF Body
  <2> QED
    BY <1>6
<1>8. Trailers = [s \in D |-> Body(Trailers, s)]
  BY <1>7, Zenon DEF Trailers
<1>9. DOMAIN Trailers = D /\ \A s \in D : Trailers[s] = Body(Trailers, s)
  <2> HIDE DEF Body
  <2> QED
    BY <1>8
<1>10. ASSUME NEW s \in D, \A r \in D : size[r] < size[s] => Trailers[r] \in V
       PROVE  Trailers[s] \in V
  <2>1. Find(s, CrLf) # 0 => Trailers[Next0(s)] \in V
    <3> HIDE DEF Next0
    <3> QED
      BY <1>2, <1>10
  <2> HIDE DEF Body, Next0
  <2> QED
    BY <1>3, <1>9, <2>1
<1>11. \A s \in D : Trailers[s] \in V
  <2> DEFINE T == {s \in D : Trailers[s] \in V}
  <2>1. \A s \in D : (\A r \in D : size[r] < size[s] => r \in T) => s \in T
    BY <1>10
  <2>2. D \subseteq T
    <3> HIDE DEF T, D, size
    <3> QED
      BY <1>1, <2>1, InductionOnSize
  <2> QED
    BY <2>2
<1>12. \A s \in D : Trailers[s] = IF Find(s, CrLf) = 0 THEN 0
                        ELSE IF Find(s, CrLf) = 1 THEN 2
                        ELSE IF Trailers[Next0(s)] = 0 THEN 0
                        ELSE Find(s, CrLf) + 1 + Trailers[Next0(s)]
  <2> HIDE DEF Next0
  <2> QED
    BY <1>2, <1>9
<1>13. Trailers \in [D -> V]
  <2> HIDE DEF Body
  <2> QED
    BY <1>8, <1>11
<1> QED
  BY <1>12, <1>13

LEMMA TrailersStay ==
    ASSUME NEW s \in Seq(HttpLexemes), NEW c \in HttpLexemes, Trailers[s] # 0
    PROVE  Trailers[Append(s, c)] = Trailers[s]
<1> DEFINE D == Seq(HttpLexemes)
           size == [u \in D |-> Len(u)]
           T == {u \in D : Trailers[u] # 0 => Trailers[Append(u, c)] = Trailers[u]}
<1>1. size \in [D -> Nat]
  BY LenProperties
<1>2. ASSUME NEW u \in D, \A r \in D : size[r] < size[u] => r \in T
      PROVE  u \in T
  <2>1. SUFFICES ASSUME Trailers[u] # 0 PROVE Trailers[Append(u, c)] = Trailers[u]
    OBVIOUS
  <2> DEFINE e == Find(u, CrLf)
             r == After(u, e + 1)
             w == Append(u, c)
  <2>2. Trailers[u] = IF e = 0 THEN 0 ELSE IF e = 1 THEN 2
                      ELSE IF Trailers[r] = 0 THEN 0 ELSE e + 1 + Trailers[r]
    BY TrailersIs
  <2>3. e \in Nat /\ Len(u) \in Nat /\ e # 0 /\ e + 2 <= Len(u) + 1
    <3>1. e \in Nat /\ Len(u) \in Nat /\ (e # 0 => e + Len(CrLf) <= Len(u) + 1) /\ Len(CrLf) = 2
      BY FindIs, Patterns
    <3>2. e # 0
      BY <2>1, <2>2
    <3> HIDE DEF e
    <3> QED
      BY <3>1, <3>2
  <2>4. Find(w, CrLf) = e /\ w \in D
    BY <2>3, FindStays, Patterns, OneMore
  <2>5. e + 1 \in Nat /\ e + 1 <= Len(u)
    <3> HIDE DEF e
    <3> QED
      BY <2>3
  <2>6. After(w, e + 1) = Append(r, c) /\ r \in D /\ Len(r) = Len(u) - (e + 1)
    BY <2>5, AfterOneMore, AfterType
  <2>7. r \in T
    <3> HIDE DEF T, e, r
    <3>1. size[r] < size[u]
      BY <2>3, <2>6
    <3> QED
      BY <1>2, <2>6, <3>1
  <2>8. Trailers[w] = IF e = 0 THEN 0 ELSE IF e = 1 THEN 2
                      ELSE IF Trailers[Append(r, c)] = 0 THEN 0 ELSE e + 1 + Trailers[Append(r, c)]
    <3>1. \A v \in D : Trailers[v] = IF Find(v, CrLf) = 0 THEN 0
                        ELSE IF Find(v, CrLf) = 1 THEN 2
                        ELSE IF Trailers[After(v, Find(v, CrLf) + 1)] = 0 THEN 0
                        ELSE Find(v, CrLf) + 1 + Trailers[After(v, Find(v, CrLf) + 1)]
      BY TrailersIs
    <3> HIDE DEF w, e, r
    <3> QED
      BY <2>4, <2>6, <3>1
  <2>9. Trailers[r] # 0 => Trailers[Append(r, c)] = Trailers[r]
    BY <2>7
  <2> HIDE DEF w, e, r
  <2>10. Trailers[w] = Trailers[u]
    BY <2>1, <2>2, <2>8, <2>9
  <2> QED
    BY <2>10 DEF w
<1>3. D \subseteq T
  <2> HIDE DEF D, T, size
  <2> QED
    BY <1>1, <1>2, InductionOnSize
<1> QED
  BY <1>3

-----------------------------------------------------------------------------
(* Chunks *)

Sizes == Nat \cup {-1}

\* A digit more.
NextSize(m, d) == IF m = -1 \/ m > (Npos - d) \div 16 THEN -1 ELSE m * 16 + d

LEMMA ChunkSizeIs ==
    ASSUME NEW digits \in Seq(DOMAIN Hex)
    PROVE  \E g \in [0 .. Len(digits) -> Sizes] :
              /\ g[0] = 0 /\ \A k \in 1 .. Len(digits) : g[k] = NextSize(g[k - 1], Hex[digits[k]])
              /\ ChunkSize(digits) = g[Len(digits)]
<1> DEFINE n == Len(digits)
           More(k, m) == NextSize(m, Hex[digits[k]])
           step == [p \in (1 .. n) \X Sizes |-> More(p[1], p[2])]
           Is(g) == g = [k \in 0 .. n |-> IF k = 0 THEN 0 ELSE More(k, g[k - 1])]
<1>1. n \in Nat /\ 0 \in Sizes
  BY LenProperties DEF Sizes
<1>2. ASSUME NEW k \in 1 .. n, NEW m \in Sizes PROVE More(k, m) \in Sizes
  <2>1. digits[k] \in DOMAIN Hex
    BY <1>1, ElementOfSeq
  <2>2. Hex[digits[k]] \in Nat
    BY <2>1 DEF Hex
  <2> QED
    BY <2>2 DEF Sizes, NextSize
<1>3. step \in [(1 .. n) \X Sizes -> Sizes]
  <2> HIDE DEF More, Sizes
  <2> QED
    BY <1>2
<1>4. PICK g \in [0 .. n -> Sizes] : g[0] = 0 /\ \A k \in 1 .. n : g[k] = step[<<k, g[k - 1]>>]
  <2> HIDE DEF step, n
  <2>1. Iterates(Sizes, n, 0, step)
    BY <1>1, <1>3, Iteration
  <2> QED
    BY <2>1 DEF Iterates
<1>5. Is(g)
  <2>1. \A k \in 1 .. n : g[k - 1] \in Sizes /\ step[<<k, g[k - 1]>>] = More(k, g[k - 1])
    <3> HIDE DEF More, Sizes
    <3>1. \A k \in 1 .. n : k - 1 \in 0 .. n
      BY <1>1
    <3> QED
      BY <3>1
  <2>2. \A k \in 0 .. n : g[k] = IF k = 0 THEN 0 ELSE More(k, g[k - 1])
    <3> HIDE DEF More, step
    <3>1. \A k \in 0 .. n : k = 0 \/ k \in 1 .. n
      BY <1>1
    <3> QED
      BY <1>4, <2>1, <3>1
  <2> HIDE DEF More, step
  <2> QED
    BY <2>2
<1> DEFINE size == CHOOSE h : Is(h)
<1>6. Is(size)
  <2> HIDE DEF Is
  <2> QED
    BY <1>5
<1>7. ChunkSize(digits) = size[n]
  BY Zenon DEF ChunkSize, NextSize
<1>8. \A k \in 0 .. n : size[k] \in Sizes
  <2> HIDE DEF size
  <2>1. size[0] \in Sizes
    <3> HIDE DEF More
    <3> QED
      BY <1>1, <1>6
  <2>2. ASSUME NEW k \in 1 .. n, size[k - 1] \in Sizes PROVE size[k] \in Sizes
    <3>1. size[k] = More(k, size[k - 1])
      <4> HIDE DEF More
      <4> QED
        BY <1>1, <1>6
    <3> HIDE DEF More
    <3> QED
      BY <1>2, <2>2, <3>1
  <2> HIDE DEF Is, Sizes
  <2> QED
    BY <1>1, <2>1, <2>2, IterationKeeps
<1>9. size[0] = 0 /\ \A k \in 1 .. n : size[k] = More(k, size[k - 1])
  <2> HIDE DEF More, size
  <2>1. \A k \in 1 .. n : k \in 0 .. n /\ k # 0
    BY <1>1
  <2>2. 0 \in 0 .. n
    BY <1>1
  <2> QED
    BY <1>6, <2>1, <2>2
<1>10. size \in [0 .. n -> Sizes]
  <2> HIDE DEF More, size, Sizes
  <2> QED
    BY <1>6, <1>8
<1> HIDE DEF size
<1> QED
  BY <1>7, <1>9, <1>10, Zenon

LEMMA ChunkSizeType ==
    ASSUME NEW digits \in Seq(DOMAIN Hex)
    PROVE  ChunkSize(digits) \in Sizes
<1>1. Len(digits) \in 0 .. Len(digits)
  BY LenProperties
<1> QED
  BY <1>1, ChunkSizeIs

\* What a chunk line is read for.
LEMMA ChunkLineType ==
    ASSUME NEW s \in Seq(HttpLexemes)
    PROVE  /\ Find(s, CrLf) \in Nat /\ Len(s) \in Nat
           /\ Find(s, CrLf) # 0 =>
                 /\ Find(s, CrLf) + 1 <= Len(s)
                 /\ ChunkSize(SizeDigits(SubSeq(s, 1, Find(s, CrLf) - 1))) \in Sizes
<1> DEFINE e == Find(s, CrLf)
           l == SubSeq(s, 1, e - 1)
           good == {n \in DOMAIN l : \A i \in 1 .. n : l[i] \in DOMAIN Hex}
           m == Max({0} \cup good)
<1>1. e \in Nat /\ Len(s) \in Nat /\ (e # 0 => e + 1 <= Len(s))
  <2>1. /\ e \in Nat /\ Len(s) \in Nat
        /\ e # 0 => e + Len(CrLf) <= Len(s) + 1
    BY FindIs, Patterns
  <2> HIDE DEF e
  <2> QED
    BY <2>1, Patterns
<1>2. ASSUME e # 0 PROVE ChunkSize(SizeDigits(l)) \in Sizes
  <2>1. e - 1 \in Nat /\ e - 1 <= Len(s)
    BY <1>1, <1>2
  <2>2. l \in Seq(HttpLexemes) /\ Len(l) = e - 1
    <3> HIDE DEF e
    <3> QED
      BY <2>1, Prefix
  <2>3. DOMAIN l = 1 .. Len(l) /\ Len(l) \in Nat
    BY <2>2, LenProperties
  <2> HIDE DEF l, e
  <2>4. {0} \cup good \subseteq 0 .. Len(l) /\ {0} \cup good # {}
    BY <2>3
  <2>5. m \in {0} \cup good
    <3> HIDE DEF good
    <3> QED
      BY <2>3, <2>4, MaxIsGreatest
  <2>6. m \in Nat /\ m <= Len(l) /\ \A i \in 1 .. m : l[i] \in DOMAIN Hex
    <3> HIDE DEF m
    <3>1. CASE m = 0
      BY <2>3, <3>1
    <3>2. CASE m \in good
      BY <2>3, <3>2
    <3> QED
      BY <2>5, <3>1, <3>2
  <2>7. SizeDigits(l) = SubSeq(l, 1, m)
    BY DEF SizeDigits
  <2> HIDE DEF m
  <2>8. /\ SubSeq(l, 1, m) \in Seq(HttpLexemes) /\ Len(SubSeq(l, 1, m)) = m
        /\ \A i \in 1 .. m : SubSeq(l, 1, m)[i] = l[i]
    BY <2>2, <2>6, Prefix
  <2>9. SubSeq(l, 1, m) \in Seq(DOMAIN Hex)
    <3>1. \A i \in 1 .. Len(SubSeq(l, 1, m)) : SubSeq(l, 1, m)[i] \in DOMAIN Hex
      BY <2>6, <2>8
    <3> QED
      BY <2>8, <3>1, SeqDef
  <2> QED
    BY <2>7, <2>9, ChunkSizeType
<1> QED
  BY <1>1, <1>2

\* The chunk that a text begins with, as ScanChunks names its parts.
LineOf(s) == SubSeq(s, 1, Find(s, CrLf) - 1)
DigitsOf(s) == SizeDigits(LineOf(s))
SizeOf(s) == ChunkSize(DigitsOf(s))
BehindOf(s) == Find(s, CrLf) + 1 + SizeOf(s)
LastOf(s) == Trailers[After(s, Find(s, CrLf) + 1)]
NextOf(s) == After(s, BehindOf(s) + 2)
Wrong(s) == \/ DigitsOf(s) = <<>> \/ SizeOf(s) = -1
            \/ Len(DigitsOf(s)) < Len(LineOf(s)) /\ LineOf(s)[Len(DigitsOf(s)) + 1] # ";"

\* What is made of a chunk with data, from what is made of the next.
WithNext(s, next) ==
    IF ~At(s, BehindOf(s) + 1, CrLf) THEN Chunks("malformed", <<>>, 0)
    ELSE IF next.state # "complete" THEN next
    ELSE Chunks("complete", SubSeq(s, Find(s, CrLf) + 1 + 1, BehindOf(s)) \o next.data,
                BehindOf(s) + 2 + next.consumed)

ScanFrom(s, next) ==
    CASE Find(s, CrLf) = 0 -> Chunks("incomplete", <<>>, 0)
      [] Find(s, CrLf) > 0 /\ Wrong(s) -> Chunks("malformed", <<>>, 0)
      [] OTHER ->
         CASE SizeOf(s) = 0 -> IF LastOf(s) = 0 THEN Chunks("incomplete", <<>>, 0)
                               ELSE Chunks("complete", <<>>, Find(s, CrLf) + 1 + LastOf(s))
           [] SizeOf(s) > 0 /\ Len(s) < BehindOf(s) + 2 -> Chunks("incomplete", <<>>, 0)
           [] OTHER -> WithNext(s, next)

\* There is a chunk with data, whole and with the two bytes behind it.
HasData(s) == Find(s, CrLf) > 0 /\ ~Wrong(s) /\ SizeOf(s) # 0 /\ Len(s) >= BehindOf(s) + 2

Scans == [state : {"incomplete", "malformed", "complete"}, data : Seq(HttpLexemes), consumed : Nat]

LEMMA SizeIsNat ==
    ASSUME NEW s \in Seq(HttpLexemes), Find(s, CrLf) > 0, ~Wrong(s)
    PROVE  SizeOf(s) \in Nat
<1>1. Find(s, CrLf) \in Nat
  BY ChunkLineType
<1>2. Find(s, CrLf) # 0
  BY <1>1
<1>3. SizeOf(s) \in Sizes
  BY <1>2, ChunkLineType DEF SizeOf, DigitsOf, LineOf
<1>4. SizeOf(s) # -1
  BY DEF Wrong
<1> QED
  BY <1>3, <1>4 DEF Sizes

LEMMA NextIsShorter ==
    ASSUME NEW s \in Seq(HttpLexemes), HasData(s)
    PROVE  /\ SizeOf(s) \in Nat /\ SizeOf(s) > 0 /\ BehindOf(s) \in Nat /\ Find(s, CrLf) + 1 \in Nat
           /\ Find(s, CrLf) + 1 <= BehindOf(s) /\ BehindOf(s) + 2 <= Len(s)
           /\ NextOf(s) \in Seq(HttpLexemes) /\ Len(NextOf(s)) < Len(s)
           /\ SubSeq(s, Find(s, CrLf) + 1 + 1, BehindOf(s)) \in Seq(HttpLexemes)
<1> DEFINE e == Find(s, CrLf)
           z == SizeOf(s)
           b == BehindOf(s)
<1>1. e \in Nat /\ Len(s) \in Nat /\ e > 0
  BY ChunkLineType DEF HasData
<1>2. z \in Nat /\ z > 0
  <2>1. z \in Nat /\ z # 0
    BY SizeIsNat DEF HasData
  <2> HIDE DEF z
  <2> QED
    BY <2>1
<1>3. b = e + 1 + z /\ Len(s) >= b + 2
  BY DEF BehindOf, HasData
<1> HIDE DEF e, z, b
<1>4. b \in Nat /\ e + 1 \in Nat /\ e + 1 <= b /\ b + 2 <= Len(s) /\ b + 2 \in Nat /\ b <= Len(s)
  BY <1>1, <1>2, <1>3
<1>5. After(s, b + 2) \in Seq(HttpLexemes) /\ Len(After(s, b + 2)) = Len(s) - (b + 2)
  BY <1>4, AfterType
<1>6. SubSeq(s, (e + 1) + 1, b) \in Seq(HttpLexemes)
  BY <1>4, Stretch
<1>7. Len(After(s, b + 2)) < Len(s)
  BY <1>1, <1>4, <1>5
<1> QED
  BY <1>1, <1>2, <1>4, <1>5, <1>6, <1>7 DEF NextOf, e, z, b

LEMMA ScanFromType ==
    ASSUME NEW s \in Seq(HttpLexemes), NEW next, HasData(s) => next \in Scans
    PROVE  ScanFrom(s, next) \in Scans
<1>1. <<>> \in Seq(HttpLexemes)
  OBVIOUS
<1>2. Find(s, CrLf) \in Nat /\ Len(s) \in Nat
  BY ChunkLineType
<1>3. \A a \in {"incomplete", "malformed", "complete"}, d \in Seq(HttpLexemes), k \in Nat : Chunks(a, d, k) \in Scans
  BY DEF Chunks, Scans
<1>4. Find(s, CrLf) # 0 => LastOf(s) \in Nat
  <2>1. Find(s, CrLf) + 1 \in Nat
    BY <1>2
  <2>2. After(s, Find(s, CrLf) + 1) \in Seq(HttpLexemes)
    BY <2>1, AfterType
  <2> QED
    BY <2>2, TrailersIs DEF LastOf
<1>5. Find(s, CrLf) # 0 => Find(s, CrLf) + 1 + LastOf(s) \in Nat
  BY <1>2, <1>4
<1>6. HasData(s) => WithNext(s, next) \in Scans
  <2> SUFFICES ASSUME HasData(s) PROVE WithNext(s, next) \in Scans
    OBVIOUS
  <2>1. next \in Scans /\ next.data \in Seq(HttpLexemes) /\ next.consumed \in Nat
    BY DEF Scans
  <2>2. BehindOf(s) + 2 + next.consumed \in Nat
    BY <2>1, NextIsShorter
  <2>3. SubSeq(s, Find(s, CrLf) + 1 + 1, BehindOf(s)) \o next.data \in Seq(HttpLexemes)
    BY <2>1, NextIsShorter, ConcatProperties
  <2> QED
    BY <1>1, <1>3, <2>1, <2>2, <2>3 DEF WithNext
<1>7. Find(s, CrLf) > 0 /\ ~Wrong(s) => SizeOf(s) \in Nat
  BY SizeIsNat
<1>8. BehindOf(s) = Find(s, CrLf) + 1 + SizeOf(s)
  BY DEF BehindOf
<1>9. CASE Find(s, CrLf) = 0
  BY <1>1, <1>2, <1>3, <1>9 DEF ScanFrom
<1>10. CASE Find(s, CrLf) > 0 /\ Wrong(s)
  BY <1>1, <1>2, <1>3, <1>10 DEF ScanFrom
<1>11. CASE Find(s, CrLf) > 0 /\ ~Wrong(s) /\ SizeOf(s) = 0
  BY <1>1, <1>2, <1>3, <1>5, <1>7, <1>11 DEF ScanFrom
<1>12. CASE Find(s, CrLf) > 0 /\ ~Wrong(s) /\ SizeOf(s) > 0 /\ Len(s) < BehindOf(s) + 2
  <2>1. ScanFrom(s, next) = Chunks("incomplete", <<>>, 0)
    BY <1>2, <1>7, <1>12 DEF ScanFrom
  <2> QED
    BY <1>1, <1>3, <2>1
<1>13. CASE Find(s, CrLf) > 0 /\ ~Wrong(s) /\ SizeOf(s) > 0 /\ ~(Len(s) < BehindOf(s) + 2)
  <2>1. HasData(s)
    BY <1>2, <1>7, <1>8, <1>13 DEF HasData
  <2>2. ScanFrom(s, next) = WithNext(s, next)
    BY <1>2, <1>7, <1>13 DEF ScanFrom
  <2> QED
    BY <1>6, <2>1, <2>2
<1> QED
  <2>1. \/ Find(s, CrLf) = 0
        \/ Find(s, CrLf) > 0 /\ Wrong(s)
        \/ Find(s, CrLf) > 0 /\ ~Wrong(s)
    BY <1>2
  <2>2. SizeOf(s) \in Nat => SizeOf(s) = 0 \/ SizeOf(s) > 0
    OBVIOUS
  <2> QED
    BY <1>7, <1>9, <1>10, <1>11, <1>12, <1>13, <2>1, <2>2

\* ScanFrom looks at what is made of the next chunk only if there is one.
LEMMA ScanFromLooks ==
    ASSUME NEW s \in Seq(HttpLexemes), NEW a, NEW b, HasData(s) => a = b
    PROVE  ScanFrom(s, a) = ScanFrom(s, b)
<1>1. Find(s, CrLf) \in Nat /\ Len(s) \in Nat
  BY ChunkLineType
<1>2. CASE HasData(s)
  BY <1>2
<1>3. CASE ~HasData(s)
  <2>1. Find(s, CrLf) > 0 /\ ~Wrong(s) => SizeOf(s) \in Nat
    BY SizeIsNat
  <2>2. BehindOf(s) = Find(s, CrLf) + 1 + SizeOf(s)
    BY DEF BehindOf
  <2>3. \/ Find(s, CrLf) = 0
        \/ Find(s, CrLf) > 0 /\ Wrong(s)
        \/ Find(s, CrLf) > 0 /\ ~Wrong(s) /\ SizeOf(s) = 0
        \/ Find(s, CrLf) > 0 /\ ~Wrong(s) /\ SizeOf(s) > 0 /\ Len(s) < BehindOf(s) + 2
    BY <1>1, <1>3, <2>1, <2>2 DEF HasData
  <2> QED
    BY <2>3 DEF ScanFrom
<1> QED
  BY <1>2, <1>3

\* The equation of ScanChunks.
LEMMA ScanChunksIs ==
    /\ ScanChunks \in [Seq(HttpLexemes) -> Scans]
    /\ \A s \in Seq(HttpLexemes) : ScanChunks[s] = ScanFrom(s, ScanChunks[NextOf(s)])
<1> DEFINE D == Seq(HttpLexemes)
           F == [p \in [D -> Scans] \X D |-> ScanFrom(p[2], p[1][NextOf(p[2])])]
           size == [s \in D |-> Len(s)]
<1>1. size \in [D -> Nat]
  BY LenProperties
<1>2. Chunks("incomplete", <<>>, 0) \in Scans
  BY DEF Chunks, Scans
<1>3. ASSUME NEW g, NEW s \in D, HasData(s) => g[NextOf(s)] \in Scans
      PROVE  ScanFrom(s, g[NextOf(s)]) \in Scans
  BY <1>3, ScanFromType
<1>4. F \in [[D -> Scans] \X D -> Scans]
  <2>1. ASSUME NEW g \in [D -> Scans], NEW s \in D PROVE ScanFrom(s, g[NextOf(s)]) \in Scans
    BY <1>3, NextIsShorter
  <2> QED
    BY <2>1
<1>5. OnSmaller(D, Scans, size, F)
  <2>1. SUFFICES ASSUME NEW g \in [D -> Scans], NEW h \in [D -> Scans], NEW s \in D,
                        \A r \in D : size[r] < size[s] => g[r] = h[r]
                 PROVE  F[<<g, s>>] = F[<<h, s>>]
    BY DEF OnSmaller
  <2>2. F[<<g, s>>] = ScanFrom(s, g[NextOf(s)]) /\ F[<<h, s>>] = ScanFrom(s, h[NextOf(s)])
    OBVIOUS
  <2>3. HasData(s) => g[NextOf(s)] = h[NextOf(s)]
    BY <2>1, NextIsShorter
  <2>4. ScanFrom(s, g[NextOf(s)]) = ScanFrom(s, h[NextOf(s)])
    BY <2>3, ScanFromLooks
  <2> QED
    BY <2>2, <2>4
<1>6. PICK h \in [D -> Scans] : \A s \in D : h[s] = F[<<h, s>>]
  <2> HIDE DEF D, F, size
  <2>1. Recursive(D, Scans, F)
    BY <1>1, <1>2, <1>4, <1>5, RecursionOnSize
  <2> QED
    BY <2>1 DEF Recursive
<1>7. h = [s \in D |-> ScanFrom(s, h[NextOf(s)])]
  BY <1>6
<1>8. ScanChunks = [s \in D |-> ScanFrom(s, ScanChunks[NextOf(s)])]
  BY <1>7, Zenon DEF ScanChunks, ScanFrom, WithNext, Wrong, LastOf, NextOf, BehindOf, SizeOf, DigitsOf, LineOf
<1>9. ASSUME NEW s \in D, \A r \in D : size[r] < size[s] => ScanChunks[r] \in Scans
      PROVE  ScanChunks[s] \in Scans
  <2>1. HasData(s) => ScanChunks[NextOf(s)] \in Scans
    BY <1>9, NextIsShorter
  <2> QED
    BY <1>3, <1>8, <2>1
<1>10. \A s \in D : ScanChunks[s] \in Scans
  <2> DEFINE T == {s \in D : ScanChunks[s] \in Scans}
  <2>1. \A s \in D : (\A r \in D : size[r] < size[s] => r \in T) => s \in T
    BY <1>9
  <2>2. D \subseteq T
    <3> HIDE DEF T, D, size
    <3> QED
      BY <1>1, <2>1, InductionOnSize
  <2> QED
    BY <2>2
<1> QED
  BY <1>8, <1>10

\* What ScanChunks calls complete.
LEMMA CompleteScan ==
    ASSUME NEW s \in Seq(HttpLexemes), NEW next, ScanFrom(s, next).state = "complete"
    PROVE  /\ Find(s, CrLf) > 0 /\ ~Wrong(s)
           /\ \/ SizeOf(s) = 0 /\ LastOf(s) # 0
              \/ HasData(s) /\ At(s, BehindOf(s) + 1, CrLf) /\ next.state = "complete"
<1>1. Find(s, CrLf) \in Nat /\ Len(s) \in Nat
  BY ChunkLineType
<1>2. /\ Chunks("incomplete", <<>>, 0).state # "complete"
      /\ Chunks("malformed", <<>>, 0).state # "complete"
  BY DEF Chunks
<1>3. Find(s, CrLf) > 0
  <2>1. SUFFICES ASSUME Find(s, CrLf) = 0 PROVE FALSE
    BY <1>1
  <2>2. ScanFrom(s, next) = Chunks("incomplete", <<>>, 0)
    BY <2>1 DEF ScanFrom
  <2> QED
    BY <1>2, <2>2
<1>4. ~Wrong(s)
  <2>1. SUFFICES ASSUME Wrong(s) PROVE FALSE
    OBVIOUS
  <2>2. ScanFrom(s, next) = Chunks("malformed", <<>>, 0)
    BY <1>1, <1>3, <2>1 DEF ScanFrom
  <2> QED
    BY <1>2, <2>2
<1>5. SizeOf(s) \in Nat
  BY <1>3, <1>4, SizeIsNat
<1>6. CASE SizeOf(s) = 0
  <2>1. SUFFICES ASSUME LastOf(s) = 0 PROVE FALSE
    BY <1>3, <1>4, <1>6
  <2>2. ScanFrom(s, next) = Chunks("incomplete", <<>>, 0)
    BY <1>1, <1>3, <1>4, <1>6, <2>1 DEF ScanFrom
  <2> QED
    BY <1>2, <2>2
<1>7. CASE SizeOf(s) > 0
  <2>1. ~(Len(s) < BehindOf(s) + 2)
    <3>1. SUFFICES ASSUME Len(s) < BehindOf(s) + 2 PROVE FALSE
      OBVIOUS
    <3>2. ScanFrom(s, next) = Chunks("incomplete", <<>>, 0)
      BY <1>1, <1>3, <1>4, <1>7, <3>1 DEF ScanFrom
    <3> QED
      BY <1>2, <3>2
  <2>2. BehindOf(s) = Find(s, CrLf) + 1 + SizeOf(s)
    BY DEF BehindOf
  <2>3. HasData(s)
    BY <1>1, <1>3, <1>4, <1>5, <1>7, <2>1, <2>2 DEF HasData
  <2>4. ScanFrom(s, next) = WithNext(s, next)
    BY <1>1, <1>3, <1>4, <1>5, <1>7, <2>1 DEF ScanFrom
  <2>5. At(s, BehindOf(s) + 1, CrLf) /\ next.state = "complete"
    BY <1>2, <2>4 DEF WithNext
  <2> QED
    BY <1>3, <1>4, <2>3, <2>5
<1> QED
  BY <1>5, <1>6, <1>7

\* A chunk that has arrived is read the same when more has.
LEMMA ChunkStays ==
    ASSUME NEW s \in Seq(HttpLexemes), NEW c \in HttpLexemes, Find(s, CrLf) > 0, ~Wrong(s)
    PROVE  /\ Find(Append(s, c), CrLf) = Find(s, CrLf) /\ ~Wrong(Append(s, c))
           /\ SizeOf(Append(s, c)) = SizeOf(s) /\ BehindOf(Append(s, c)) = BehindOf(s)
           /\ Append(s, c) \in Seq(HttpLexemes) /\ Len(Append(s, c)) = Len(s) + 1
           /\ LastOf(s) # 0 => LastOf(Append(s, c)) = LastOf(s)
           /\ HasData(s) => /\ NextOf(Append(s, c)) = Append(NextOf(s), c)
                            /\ At(Append(s, c), BehindOf(s) + 1, CrLf) <=> At(s, BehindOf(s) + 1, CrLf)
                            /\ SubSeq(Append(s, c), Find(s, CrLf) + 1 + 1, BehindOf(s))
                                  = SubSeq(s, Find(s, CrLf) + 1 + 1, BehindOf(s))
<1> DEFINE t == Append(s, c)
           e == Find(s, CrLf)
<1>1. t \in Seq(HttpLexemes) /\ Len(t) = Len(s) + 1 /\ Len(s) \in Nat
  BY OneMore
<1>2. e \in Nat /\ e # 0 /\ e + 1 <= Len(s)
  BY ChunkLineType
<1>3. Find(t, CrLf) = e
  BY <1>2, FindStays, Patterns
<1>4. LineOf(t) = LineOf(s)
  <2>1. e - 1 \in Nat /\ e - 1 <= Len(s)
    <3> HIDE DEF e
    <3> QED
      BY <1>1, <1>2
  <2>2. SubSeq(t, 1, e - 1) = SubSeq(s, 1, e - 1)
    <3> HIDE DEF e
    <3> QED
      BY <2>1, SameCut
  <2> QED
    BY <1>3, <2>2 DEF LineOf
<1>5. DigitsOf(t) = DigitsOf(s) /\ SizeOf(t) = SizeOf(s) /\ BehindOf(t) = BehindOf(s) /\ ~Wrong(t)
  BY <1>3, <1>4 DEF DigitsOf, SizeOf, BehindOf, Wrong
<1>6. LastOf(s) # 0 => LastOf(t) = LastOf(s)
  <2>1. e + 1 \in Nat /\ e + 1 <= Len(s)
    <3> HIDE DEF e
    <3> QED
      BY <1>2
  <2>2. After(s, e + 1) \in Seq(HttpLexemes) /\ After(t, e + 1) = Append(After(s, e + 1), c)
    <3> HIDE DEF e
    <3> QED
      BY <2>1, AfterType, AfterOneMore
  <2>3. LastOf(s) = Trailers[After(s, e + 1)] /\ LastOf(t) = Trailers[After(t, e + 1)]
    BY <1>3 DEF LastOf
  <2> HIDE DEF t, e
  <2> QED
    BY <2>2, <2>3, TrailersStay
<1>7. ASSUME HasData(s)
      PROVE  /\ NextOf(t) = Append(NextOf(s), c)
             /\ At(t, BehindOf(s) + 1, CrLf) <=> At(s, BehindOf(s) + 1, CrLf)
             /\ SubSeq(t, e + 1 + 1, BehindOf(s)) = SubSeq(s, e + 1 + 1, BehindOf(s))
  <2> DEFINE b == BehindOf(s)
  <2>1. b \in Nat /\ b + 2 <= Len(s)
    BY <1>7, NextIsShorter
  <2> HIDE DEF b
  <2>2. /\ b + 2 \in Nat /\ b + 1 \in Nat /\ b + 1 > 0 /\ b + 1 + Len(CrLf) <= Len(s) + 1
        /\ e + 1 + 1 \in Nat /\ e + 1 + 1 > 0 /\ b <= Len(s)
    <3> HIDE DEF e
    <3> QED
      BY <1>1, <1>2, <2>1, Patterns
  <2>3. After(t, b + 2) = Append(After(s, b + 2), c)
    BY <2>1, <2>2, AfterOneMore
  <2>4. At(t, b + 1, CrLf) <=> At(s, b + 1, CrLf)
    BY <2>2, Patterns, AtStays
  <2>5. SubSeq(t, e + 1 + 1, b) = SubSeq(s, e + 1 + 1, b)
    <3> HIDE DEF e
    <3> QED
      BY <2>1, <2>2, SameCut
  <2>6. NextOf(t) = Append(NextOf(s), c)
    BY <1>5, <2>3 DEF NextOf, b
  <2> QED
    BY <2>4, <2>5, <2>6 DEF b
<1> QED
  BY <1>1, <1>3, <1>5, <1>6, <1>7

\* A chunked body that is complete stays what it is, whatever follows it.
LEMMA ScanStays ==
    ASSUME NEW s \in Seq(HttpLexemes), NEW c \in HttpLexemes, ScanChunks[s].state = "complete"
    PROVE  ScanChunks[Append(s, c)] = ScanChunks[s]
<1> DEFINE D == Seq(HttpLexemes)
           size == [u \in D |-> Len(u)]
           T == {u \in D : ScanChunks[u].state = "complete" => ScanChunks[Append(u, c)] = ScanChunks[u]}
<1>1. size \in [D -> Nat]
  BY LenProperties
<1>2. ASSUME NEW u \in D, \A r \in D : size[r] < size[u] => r \in T
      PROVE  u \in T
  <2> DEFINE w == Append(u, c)
             next == ScanChunks[NextOf(u)]
             later == ScanChunks[NextOf(w)]
  <2>1. SUFFICES ASSUME ScanChunks[u].state = "complete" PROVE ScanChunks[w] = ScanChunks[u]
    OBVIOUS
  <2>2. w \in D /\ Len(w) = Len(u) + 1 /\ Len(u) \in Nat
    BY OneMore
  <2>3. ScanChunks[u] = ScanFrom(u, next) /\ ScanChunks[w] = ScanFrom(w, later)
    BY <2>2, ScanChunksIs
  <2>4. /\ Find(u, CrLf) > 0 /\ ~Wrong(u)
        /\ \/ SizeOf(u) = 0 /\ LastOf(u) # 0
           \/ HasData(u) /\ At(u, BehindOf(u) + 1, CrLf) /\ next.state = "complete"
    BY <2>1, <2>3, CompleteScan
  <2>5. /\ Find(w, CrLf) = Find(u, CrLf) /\ ~Wrong(w)
        /\ SizeOf(w) = SizeOf(u) /\ BehindOf(w) = BehindOf(u)
        /\ LastOf(u) # 0 => LastOf(w) = LastOf(u)
        /\ HasData(u) => /\ NextOf(w) = Append(NextOf(u), c)
                         /\ At(w, BehindOf(u) + 1, CrLf) <=> At(u, BehindOf(u) + 1, CrLf)
                         /\ SubSeq(w, Find(u, CrLf) + 1 + 1, BehindOf(u))
                               = SubSeq(u, Find(u, CrLf) + 1 + 1, BehindOf(u))
    BY <2>4, ChunkStays
  <2>6. Find(u, CrLf) \in Nat /\ SizeOf(u) \in Nat
    BY <2>4, ChunkLineType, SizeIsNat
  <2>7. CASE SizeOf(u) = 0 /\ LastOf(u) # 0
    <3>1. ScanFrom(u, next) = Chunks("complete", <<>>, Find(u, CrLf) + 1 + LastOf(u))
      BY <2>4, <2>6, <2>7 DEF ScanFrom
    <3>2. ScanFrom(w, later) = Chunks("complete", <<>>, Find(u, CrLf) + 1 + LastOf(u))
      <4> HIDE DEF w, later
      <4> QED
        BY <2>4, <2>5, <2>6, <2>7 DEF ScanFrom
    <3> QED
      BY <2>3, <3>1, <3>2
  <2>8. CASE HasData(u) /\ At(u, BehindOf(u) + 1, CrLf) /\ next.state = "complete"
    <3>1. later = next
      <4>1. NextOf(u) \in D /\ size[NextOf(u)] < size[u]
        BY <2>8, NextIsShorter
      <4>2. NextOf(u) \in T
        <5> HIDE DEF T
        <5> QED
          BY <1>2, <4>1
      <4> QED
        BY <2>5, <2>8, <4>2
    <3>2. SizeOf(u) > 0 /\ ~(Len(u) < BehindOf(u) + 2) /\ ~(Len(w) < BehindOf(u) + 2)
      <4>1. BehindOf(u) \in Nat /\ BehindOf(u) + 2 <= Len(u) /\ SizeOf(u) > 0
        BY <2>8, NextIsShorter
      <4> HIDE DEF w
      <4> QED
        BY <2>2, <4>1
    <3>3. ScanFrom(u, next) = WithNext(u, next)
      <4> HIDE DEF next
      <4> QED
        BY <2>4, <2>6, <3>2 DEF ScanFrom
    <3>4. ScanFrom(w, later) = WithNext(w, later)
      <4> HIDE DEF w, later
      <4> QED
        BY <2>4, <2>5, <2>6, <3>2 DEF ScanFrom
    <3>5. WithNext(w, next) = WithNext(u, next)
      <4> HIDE DEF w, next
      <4> QED
        BY <2>5, <2>8 DEF WithNext
    <3> QED
      BY <2>3, <3>1, <3>3, <3>4, <3>5
  <2> QED
    BY <2>4, <2>7, <2>8
<1>3. D \subseteq T
  <2> HIDE DEF D, T, size
  <2> QED
    BY <1>1, <1>2, InductionOnSize
<1> QED
  BY <1>3

-----------------------------------------------------------------------------
(* The header lines *)

ScanStates == [length : Sizes, coding : {"none", "chunked", "other"},
               verdict : {"ok", "bad", "many"}, count : Nat]

LEMMA BadScan ==
    ASSUME NEW scan \in ScanStates
    PROVE  Bad(scan) \in ScanStates
<1> QED
  BY DEF Bad, ScanStates

LEMMA ScanLineType ==
    ASSUME NEW scan \in ScanStates, NEW raw
    PROVE  ScanLine(scan, raw) \in ScanStates
<1> DEFINE l == WithoutCR(raw)
           counted == [scan EXCEPT !.count = @ + 1]
<1>1. counted \in ScanStates
  BY DEF ScanStates
<1>2. [scan EXCEPT !.verdict = "many"] \in ScanStates
  BY DEF ScanStates
<1>3. ASSUME NEW x \in ScanStates PROVE ScanLength(x, l) \in ScanStates
  <2>1. l[1] \in DOMAIN LengthOf => LengthOf[l[1]] \in Sizes
    <3>1. \A d \in DOMAIN LengthOf : LengthOf[d] \in Nat
      BY HttpAssumption DEF LengthOf
    <3> QED
      BY <3>1 DEF Sizes
  <2>2. l[1] \in DOMAIN LengthOf => [x EXCEPT !.length = LengthOf[l[1]]] \in ScanStates
    <3> HIDE DEF l
    <3> QED
      BY <2>1 DEF ScanStates
  <2> HIDE DEF l
  <2> QED
    BY <2>2, BadScan DEF ScanLength
<1>4. ASSUME NEW x \in ScanStates PROVE ScanCoding(x, l) \in ScanStates
  <2>1. /\ [x EXCEPT !.coding = "chunked"] \in ScanStates
        /\ [x EXCEPT !.coding = "other"] \in ScanStates
    BY DEF ScanStates
  <2> HIDE DEF l
  <2> QED
    BY <2>1, BadScan DEF ScanCoding
<1>5. Bad(scan) \in ScanStates /\ ScanLength(counted, l) \in ScanStates /\ ScanCoding(counted, l) \in ScanStates
  <2> HIDE DEF l, counted
  <2> QED
    BY <1>1, <1>3, <1>4, BadScan
<1>6. ScanLine(scan, raw) \in {scan, Bad(scan), [scan EXCEPT !.verdict = "many"], ScanLength(counted, l),
                               ScanCoding(counted, l), counted}
  BY Zenon DEF ScanLine
<1> HIDE DEF l, counted
<1> QED
  BY <1>1, <1>2, <1>5, <1>6

\* What the scan of a head makes of the bytes up to p, from what it made before.
ScanTo(h, p, scan) ==
    IF p \in HeaderEnds(h) THEN ScanLine(scan, LineUpTo(h, p))
    ELSE IF p \in Ends(h) /\ Len(FirstLine(h)) > MaxHeaderLine THEN Bad(NoScan)
    ELSE scan

\* ScanHead goes through the head from its start to its end.
LEMMA ScanHeadIs ==
    ASSUME NEW h, Len(h) \in Nat
    PROVE  \E g \in [0 .. Len(h) + 1 -> ScanStates] :
              /\ g[0] = NoScan
              /\ \A k \in 1 .. Len(h) + 1 : g[k] = ScanTo(h, k, g[k - 1])
              /\ ScanHead(h) = g[Len(h) + 1]
<1> DEFINE n == Len(h) + 1
           step == [p \in (1 .. n) \X ScanStates |-> ScanTo(h, p[1], p[2])]
           Is(g) == g = [p \in 0 .. n |-> IF p = 0 THEN NoScan ELSE ScanTo(h, p, g[p - 1])]
<1>1. n \in Nat /\ NoScan \in ScanStates
  BY DEF NoScan, ScanStates, Sizes
<1>2. ASSUME NEW k \in 1 .. n, NEW x \in ScanStates PROVE ScanTo(h, k, x) \in ScanStates
  BY <1>1, ScanLineType, BadScan DEF ScanTo
<1>3. step \in [(1 .. n) \X ScanStates -> ScanStates]
  BY <1>2
<1>4. PICK g \in [0 .. n -> ScanStates] : g[0] = NoScan /\ \A k \in 1 .. n : g[k] = step[<<k, g[k - 1]>>]
  <2> HIDE DEF step, n
  <2>1. Iterates(ScanStates, n, NoScan, step)
    BY <1>1, <1>3, Iteration
  <2> QED
    BY <2>1 DEF Iterates
<1> HIDE DEF n
<1>5. Is(g)
  <2>1. \A k \in 1 .. n : g[k] = ScanTo(h, k, g[k - 1])
    <3>1. \A k \in 1 .. n : k - 1 \in 0 .. n
      BY <1>1
    <3>2. \A k \in 1 .. n : g[k - 1] \in ScanStates
      BY <3>1
    <3> QED
      BY <1>4, <3>2
  <2>2. \A k \in 0 .. n : g[k] = IF k = 0 THEN NoScan ELSE ScanTo(h, k, g[k - 1])
    <3>1. \A k \in 0 .. n : k = 0 \/ k \in 1 .. n
      BY <1>1
    <3> QED
      BY <1>4, <2>1, <3>1
  <2> QED
    BY <2>2
<1> DEFINE scan == CHOOSE f : Is(f)
<1>6. Is(scan)
  <2> HIDE DEF Is
  <2> QED
    BY <1>5
<1>7. ScanHead(h) = scan[n]
  BY Zenon DEF ScanHead, ScanTo, n
<1>8. scan[0] = NoScan /\ \A k \in 1 .. n : scan[k] = ScanTo(h, k, scan[k - 1])
  <2> HIDE DEF scan
  <2> QED
    BY <1>1, <1>6
<1>9. \A k \in 0 .. n : scan[k] \in ScanStates
  <2> HIDE DEF scan
  <2>1. \A k \in 1 .. n : scan[k - 1] \in ScanStates => scan[k] \in ScanStates
    BY <1>2, <1>8
  <2> HIDE DEF Is
  <2> QED
    BY <1>1, <1>8, <2>1, IterationKeeps
<1>10. scan \in [0 .. n -> ScanStates]
  <2>1. DOMAIN scan = 0 .. n /\ scan = [p \in 0 .. n |-> scan[p]]
    <3> HIDE DEF scan
    <3> QED
      BY <1>6
  <2> HIDE DEF scan, Is
  <2> QED
    BY <1>9, <2>1
<1> QED
  <2> HIDE DEF scan, Is
  <2> QED
    BY <1>7, <1>8, <1>10 DEF n

-----------------------------------------------------------------------------
(* The cut *)

\* Where a request ends, and that it has arrived whole, stays so when one more
\* lexeme arrives.
LEMMA CutStays ==
    ASSUME NEW s \in Seq(HttpLexemes), NEW c \in HttpLexemes, Inspect(s).expected # 0
    PROVE  /\ Inspect(Append(s, c)).expected = Inspect(s).expected
           /\ Inspect(s).framing = "complete" => Inspect(Append(s, c)).framing = "complete"
<1> DEFINE t == Append(s, c)
           bounds == HeadBounds(s)
           h == SubSeq(s, 1, bounds.end)
           scan == ScanHead(h)
           base == bounds.end + bounds.separator
           chunks == ScanChunked(After(s, base))
           later == ScanChunked(After(t, base))
           total == Total(base, Max({0, scan.length}))
           Cut(r, n) ==
             IF bounds.end = Npos THEN Framed("incomplete", 0)
             ELSE IF scan.verdict # "ok" THEN Framed(scan.verdict, 0)
             ELSE IF scan.coding = "other" THEN Framed("unsupported", 0)
             ELSE IF ~LineEndingsOk(h, bounds.separator) THEN Framed("bad", 0)
             ELSE IF scan.coding = "chunked" THEN
                     CASE r.state = "complete" -> Framed("complete", base + r.consumed)
                       [] r.state = "malformed" -> Framed("bad", 0)
                       [] OTHER -> Framed("incomplete", 0)
             ELSE Framed(IF n >= total THEN "complete" ELSE "incomplete", total)
<1>1. bounds.end # Npos
  <2>1. SUFFICES ASSUME bounds.end = Npos PROVE FALSE
    OBVIOUS
  <2>2. Inspect(s) = InspectPartial(s)
    BY <2>1, Zenon DEF Inspect
  <2>3. InspectPartial(s).expected = 0
    BY DEF InspectPartial, Framed
  <2> QED
    BY <2>2, <2>3
<1>2. /\ HeadBounds(t) = bounds
      /\ bounds.end \in Nat /\ bounds.separator \in {2, 4} /\ base <= Len(s)
  BY <1>1, HeadStays
<1>3. t \in Seq(HttpLexemes) /\ Len(t) = Len(s) + 1 /\ Len(s) \in Nat
  BY OneMore
<1>4. SubSeq(t, 1, bounds.end) = h
  <2>1. bounds.end <= Len(s)
    <3> HIDE DEF bounds
    <3> QED
      BY <1>2, <1>3
  <2> HIDE DEF bounds
  <2> QED
    BY <1>2, <2>1, SameCut
<1>5. Inspect(s) = Cut(chunks, Len(s)) /\ Inspect(t) = Cut(later, Len(t))
  <2>1. Inspect(s) = Cut(chunks, Len(s))
    BY <1>1, Zenon DEF Inspect
  <2>2. Inspect(t) = Cut(later, Len(t))
    BY <1>1, <1>2, <1>4, Zenon DEF Inspect
  <2> QED
    BY <2>1, <2>2
<1>6. base \in Nat
  <2> HIDE DEF bounds
  <2> QED
    BY <1>2
<1>7. chunks.state = "complete" => later = chunks
  <2>1. After(s, base) \in Seq(HttpLexemes) /\ After(t, base) = Append(After(s, base), c)
    <3> HIDE DEF base
    <3> QED
      BY <1>2, <1>6, AfterType, AfterOneMore
  <2> QED
    BY <2>1, ScanStays DEF ScanChunked
<1>8. total \in Nat
  <2>1. Len(h) \in Nat
    <3>1. bounds.end <= Len(s)
      <4> HIDE DEF bounds
      <4> QED
        BY <1>2, <1>3
    <3>2. h \in Seq(HttpLexemes)
      <4> HIDE DEF bounds
      <4> QED
        BY <1>2, <3>1, Prefix
    <3> QED
      BY <3>2, LenProperties
  <2>2. scan \in ScanStates
    <3> HIDE DEF h
    <3>1. PICK g \in [0 .. Len(h) + 1 -> ScanStates] : ScanHead(h) = g[Len(h) + 1]
      BY <2>1, ScanHeadIs
    <3> QED
      BY <2>1, <3>1
  <2> HIDE DEF scan
  <2>3. scan.length \in Sizes
    BY <2>2 DEF ScanStates
  <2> DEFINE m == Max({0, scan.length})
  <2>4. m \in Nat
    <3>1. scan.length \in Nat \/ scan.length = -1
      BY <2>3 DEF Sizes
    <3>2. \E x \in {0, scan.length} : x \in Nat /\ \A y \in {0, scan.length} : x >= y
      <4>1. CASE scan.length = -1
        BY <4>1
      <4>2. CASE scan.length \in Nat
        BY <4>2
      <4> QED
        BY <3>1, <4>1, <4>2
    <3>3. m \in {0, scan.length} /\ \A y \in {0, scan.length} : m >= y
      BY <3>2 DEF Max
    <3> HIDE DEF m
    <3> QED
      BY <3>1, <3>3
  <2> HIDE DEF m, base
  <2> QED
    BY <1>6, <2>4, HttpAssumption DEF Total, m
<1> HIDE DEF t, bounds, h, scan, base, chunks, later, total
<1>9. Cut(chunks, Len(s)).expected # 0
  BY <1>5
<1>10. scan.verdict = "ok" /\ scan.coding # "other" /\ LineEndingsOk(h, bounds.separator)
  BY <1>1, <1>9 DEF Framed
<1>11. CASE scan.coding = "chunked"
  <2>1. chunks.state = "complete"
    BY <1>1, <1>9, <1>10, <1>11 DEF Framed
  <2>2. Cut(chunks, Len(s)) = Framed("complete", base + chunks.consumed)
    BY <1>1, <1>10, <1>11, <2>1
  <2>3. Cut(later, Len(t)) = Framed("complete", base + chunks.consumed)
    BY <1>1, <1>7, <1>10, <1>11, <2>1
  <2> HIDE DEF Cut
  <2> QED
    BY <1>5, <2>2, <2>3 DEF t
<1>12. CASE scan.coding # "chunked"
  <2>1. Cut(chunks, Len(s)) = Framed(IF Len(s) >= total THEN "complete" ELSE "incomplete", total)
    BY <1>1, <1>10, <1>12
  <2>2. Cut(later, Len(t)) = Framed(IF Len(t) >= total THEN "complete" ELSE "incomplete", total)
    BY <1>1, <1>10, <1>12
  <2>3. Len(s) >= total => Len(t) >= total
    BY <1>3, <1>8
  <2> HIDE DEF Cut
  <2> QED
    BY <1>5, <2>1, <2>2, <2>3 DEF t, Framed
<1> QED
  BY <1>11, <1>12

\* Whatever the client does, it sends one lexeme.
LEMMA SentOne == HttpRead => \E l \in HttpLexemes : text' = Append(text, l)
<1> SUFFICES ASSUME HttpRead PROVE \E l \in HttpLexemes : text' = Append(text, l)
  OBVIOUS
<1>1. ASSUME NEW l \in HttpLexemes, Send(l) PROVE \E k \in HttpLexemes : text' = Append(text, k)
  BY <1>1 DEF Send
<1>2. \E l \in HttpLexemes : Send(l)
  <2>1. CASE \E l \in {"1.1", "1.0", "short"} : RequestLine(l)
    BY <2>1 DEF RequestLine, HttpLexemes
  <2>2. CASE \E l \in Fields \cup {"fold", "nocolon"} : FieldLine(l)
    BY <2>2 DEF FieldLine, HttpLexemes
  <2>3. CASE LineByte \/ BodyByte \/ ChunkJunk \/ TrailerByte
    BY <2>3 DEF LineByte, BodyByte, ChunkJunk, TrailerByte, HttpLexemes
  <2>4. CASE LineReturn \/ HeadReturn \/ ChunkReturn
    BY <2>4 DEF LineReturn, HeadReturn, ChunkReturn, HttpLexemes
  <2>5. CASE LineEnd \/ HeadEnd \/ ChunkLine
    BY <2>5 DEF LineEnd, HeadEnd, ChunkLine, HttpLexemes
  <2>6. CASE \E d \in DOMAIN Hex : SizeDigit(d)
    BY <2>6 DEF SizeDigit, HttpLexemes
  <2>7. CASE \E l \in {";", "x"} : Extension(l)
    BY <2>7 DEF Extension, HttpLexemes
  <2>8. CASE NextRequest
    BY <2>8 DEF NextRequest, HttpLexemes
  <2> QED
    BY <2>1, <2>2, <2>3, <2>4, <2>5, <2>6, <2>7, <2>8 DEF HttpRead
<1> QED
  BY <1>1, <1>2

LEMMA HttpTextType == HttpSpec => [](text \in Seq(HttpLexemes))
<1>1. HttpInit => text \in Seq(HttpLexemes)
  BY DEF HttpInit
<1>2. text \in Seq(HttpLexemes) /\ [HttpRead]_httpVars => (text \in Seq(HttpLexemes))'
  <2> SUFFICES ASSUME text \in Seq(HttpLexemes), [HttpRead]_httpVars PROVE text' \in Seq(HttpLexemes)
    OBVIOUS
  <2>1. CASE UNCHANGED httpVars
    BY <2>1 DEF httpVars
  <2>2. CASE HttpRead
    BY <2>2, SentOne, OneMore
  <2> QED
    BY <2>1, <2>2
<1> QED
  BY <1>1, <1>2, PTL DEF HttpSpec

\* Wherever the network cuts a request of any form and length: the end that
\* inspect has announced does not move, and what is complete stays complete.
THEOREM CutIsKept == HttpSpec => CutIsStable
<1> DEFINE Kept == Inspect(text).expected # 0 =>
          /\ Inspect(text').expected = Inspect(text).expected
          /\ Inspect(text).framing = "complete" => Inspect(text').framing = "complete"
<1>1. text \in Seq(HttpLexemes) /\ [HttpRead]_httpVars => [Kept]_text
  <2> SUFFICES ASSUME text \in Seq(HttpLexemes), HttpRead PROVE Kept
    BY DEF httpVars
  <2>1. PICK l \in HttpLexemes : text' = Append(text, l)
    BY SentOne
  <2> QED
    BY <2>1, CutStays
<1> QED
  BY <1>1, HttpTextType, PTL DEF HttpSpec, CutIsStable

-----------------------------------------------------------------------------
(* Cutting a text at its separators *)

Texts == Seq(FormLexemes)

\* The equation of Split.
LEMMA SplitIs ==
    ASSUME NEW sep
    PROVE  \A s \in Texts :
              /\ Split(s, sep) \in Seq(Texts)
              /\ Split(s, sep) = IF Piece(s, sep) = s THEN <<s>>
                                 ELSE <<Piece(s, sep)>> \o Split(Rest(s, Len(Piece(s, sep)) + 1), sep)
<1> DEFINE D == Texts
           V == Seq(Texts)
           More(s) == Rest(s, Len(Piece(s, sep)) + 1)
           Body(g, s) == IF Piece(s, sep) = s THEN <<s>> ELSE <<Piece(s, sep)>> \o g[More(s)]
           F == [p \in [D -> V] \X D |-> Body(p[1], p[2])]
           size == [s \in D |-> Len(s)]
           Is(g) == g = [s \in D |-> Body(g, s)]
           pieces == CHOOSE g : Is(g)
<1>1. size \in [D -> Nat] /\ <<>> \in V
  BY LenProperties DEF Texts
<1>2. ASSUME NEW s \in D
      PROVE  Piece(s, sep) \in D /\ (Piece(s, sep) # s => More(s) \in D /\ Len(More(s)) < Len(s))
  <2>1. Piece(s, sep) \in D /\ Len(Piece(s, sep)) <= Len(s)
        /\ (Piece(s, sep) # s => Len(Piece(s, sep)) < Len(s))
    BY PieceOf DEF Texts
  <2>2. Len(Piece(s, sep)) + 1 \in Nat /\ Len(Piece(s, sep)) + 1 > 0 /\ Len(s) \in Nat
        /\ Len(Piece(s, sep)) \in Nat
    BY <2>1, LenProperties DEF Texts
  <2>3. Piece(s, sep) # s => s # <<>>
    BY <2>1, <2>2, EmptySeq DEF Texts
  <2> QED
    BY <2>1, <2>2, <2>3, RestType DEF Texts
<1>3. ASSUME NEW g, NEW s \in D, Piece(s, sep) # s => g[More(s)] \in V
      PROVE  Body(g, s) \in V
  <2>1. \A r \in D : <<r>> \in V
    OBVIOUS
  <2>2. <<s>> \in V /\ <<Piece(s, sep)>> \in V
    BY <1>2, <2>1
  <2> HIDE DEF More, D
  <2> QED
    BY <1>3, <2>2, ConcatProperties
<1>4. F \in [[D -> V] \X D -> V]
  <2> HIDE DEF Body, More
  <2> QED
    BY <1>2, <1>3
<1>5. OnSmaller(D, V, size, F)
  <2>1. SUFFICES ASSUME NEW g \in [D -> V], NEW h \in [D -> V], NEW s \in D,
                        \A r \in D : size[r] < size[s] => g[r] = h[r]
                 PROVE  F[<<g, s>>] = F[<<h, s>>]
    BY DEF OnSmaller
  <2>2. F[<<g, s>>] = Body(g, s) /\ F[<<h, s>>] = Body(h, s)
    OBVIOUS
  <2>3. Piece(s, sep) # s => g[More(s)] = h[More(s)]
    <3> HIDE DEF More
    <3> QED
      BY <1>2, <2>1
  <2> QED
    BY <2>2, <2>3
<1>6. PICK h \in [D -> V] : \A s \in D : h[s] = F[<<h, s>>]
  <2> HIDE DEF D, V, F, size
  <2>1. Recursive(D, V, F)
    BY <1>1, <1>4, <1>5, RecursionOnSize
  <2> QED
    BY <2>1 DEF Recursive
<1>7. Is(h)
  <2>1. \A s \in D : h[s] = Body(h, s)
    BY <1>6
  <2> HIDE DEF Body
  <2> QED
    BY <2>1
<1>8. Is(pieces)
  <2> HIDE DEF Is
  <2> QED
    BY <1>7
<1>9. \A s : Split(s, sep) = pieces[s]
  BY Zenon DEF Split, Texts
<1> HIDE DEF pieces
<1>10. DOMAIN pieces = D /\ \A s \in D : pieces[s] = Body(pieces, s)
  BY <1>8
<1>11. ASSUME NEW s \in D, \A r \in D : size[r] < size[s] => pieces[r] \in V
       PROVE  pieces[s] \in V
  <2>1. Piece(s, sep) # s => pieces[More(s)] \in V
    <3> HIDE DEF More
    <3> QED
      BY <1>2, <1>11
  <2> HIDE DEF Body, More
  <2> QED
    BY <1>3, <1>10, <2>1
<1>12. \A s \in D : pieces[s] \in V
  <2> DEFINE T == {s \in D : pieces[s] \in V}
  <2>1. \A s \in D : (\A r \in D : size[r] < size[s] => r \in T) => s \in T
    BY <1>11
  <2>2. D \subseteq T
    <3> HIDE DEF T, D, size
    <3> QED
      BY <1>1, <2>1, InductionOnSize
  <2> QED
    BY <2>2
<1> HIDE DEF Is
<1> QED
  BY <1>9, <1>10, <1>12

\* A text without separators is one piece; one with a separator is what stands
\* before it and the pieces of what follows.
LEMMA SplitAt ==
    ASSUME NEW sep \in FormLexemes, NEW s \in Texts, Without(s, sep)
    PROVE  /\ Split(s, sep) = <<s>>
           /\ \A t \in Texts : Split(s \o (<<sep>> \o t), sep) = <<s>> \o Split(t, sep)
<1>1. Split(s, sep) = <<s>>
  <2>1. Piece(s, sep) = s
    BY PieceOf DEF Texts
  <2> QED
    BY <2>1, SplitIs
<1>2. ASSUME NEW t \in Texts PROVE Split(s \o (<<sep>> \o t), sep) = <<s>> \o Split(t, sep)
  <2> DEFINE u == s \o (<<sep>> \o t)
  <2>1. u \in Texts /\ Piece(u, sep) = s /\ s # u /\ Rest(u, Len(s) + 1) = t
    BY PieceOfConcat DEF Texts
  <2> HIDE DEF u
  <2>2. Split(u, sep) = <<Piece(u, sep)>> \o Split(Rest(u, Len(Piece(u, sep)) + 1), sep)
    BY <2>1, SplitIs
  <2>3. Split(u, sep) = <<s>> \o Split(t, sep)
    BY <2>1, <2>2
  <2> QED
    BY <2>3 DEF u
<1> QED
  BY <1>1, <1>2

-----------------------------------------------------------------------------
(* The parts among the pieces *)

PartOf(piece) == ParsePart(WithoutLineEnd(WithoutLineStart(piece)))

\* What the k-th piece adds to the parts before it.
WithPiece(k, piece, parts) ==
    IF k < 2 THEN <<>>
    ELSE IF PartOf(piece).name = <<>> THEN parts
    ELSE Append(parts, PartOf(piece))

LEMMA PartsInIs ==
    ASSUME NEW pieces, Len(pieces) \in Nat
    PROVE  \E g : /\ g[0] = <<>>
                  /\ \A k \in 1 .. Len(pieces) : g[k] = WithPiece(k, pieces[k], g[k - 1])
                  /\ PartsIn(pieces) = g[Len(pieces)]
<1> DEFINE n == Len(pieces)
           Found == Seq({PartOf(pieces[k]) : k \in 1 .. n})
           step == [p \in (1 .. n) \X Found |-> WithPiece(p[1], pieces[p[1]], p[2])]
           Is(g) == g = [k \in 0 .. n |-> WithPiece(k, pieces[k], g[k - 1])]
<1>1. n \in Nat /\ <<>> \in Found
  OBVIOUS
<1>2. ASSUME NEW k \in 1 .. n, NEW x \in Found PROVE WithPiece(k, pieces[k], x) \in Found
  <2> DEFINE S == {PartOf(pieces[i]) : i \in 1 .. n}
  <2>1. PartOf(pieces[k]) \in S /\ x \in Seq(S) /\ Found = Seq(S)
    OBVIOUS
  <2> HIDE DEF S, Found
  <2>2. Append(x, PartOf(pieces[k])) \in Seq(S)
    BY <2>1, AppendProperties
  <2> QED
    BY <1>1, <2>1, <2>2 DEF WithPiece
<1>3. step \in [(1 .. n) \X Found -> Found]
  <2> HIDE DEF Found
  <2> QED
    BY <1>2
<1>4. PICK g \in [0 .. n -> Found] : g[0] = <<>> /\ \A k \in 1 .. n : g[k] = step[<<k, g[k - 1]>>]
  <2> HIDE DEF step, n, Found
  <2>1. Iterates(Found, n, <<>>, step)
    BY <1>1, <1>3, Iteration
  <2> QED
    BY <2>1 DEF Iterates
<1> HIDE DEF n, Found
<1>5. \A k \in 1 .. n : g[k] = WithPiece(k, pieces[k], g[k - 1])
  <2>1. \A k \in 1 .. n : k - 1 \in 0 .. n
    BY <1>1
  <2>2. \A k \in 1 .. n : g[k - 1] \in Found
    BY <2>1
  <2> QED
    BY <1>4, <2>2
<1>6. Is(g)
  <2>1. \A k \in 0 .. n : g[k] = WithPiece(k, pieces[k], g[k - 1])
    <3>1. \A k \in 0 .. n : k = 0 \/ k \in 1 .. n
      BY <1>1
    <3>2. WithPiece(0, pieces[0], g[0 - 1]) = <<>>
      BY DEF WithPiece
    <3> QED
      BY <1>4, <1>5, <3>1, <3>2
  <2> QED
    BY <2>1
<1> DEFINE parts == CHOOSE f : Is(f)
<1>7. Is(parts)
  <2> HIDE DEF Is
  <2> QED
    BY <1>6
<1>8. PartsIn(pieces) = parts[n]
  BY Zenon DEF PartsIn, WithPiece, PartOf, n
<1>9. parts[0] = <<>> /\ \A k \in 1 .. n : parts[k] = WithPiece(k, pieces[k], parts[k - 1])
  <2> HIDE DEF parts
  <2>1. \A k \in 0 .. n : parts[k] = WithPiece(k, pieces[k], parts[k - 1])
    BY <1>7
  <2>2. 0 \in 0 .. n /\ \A k \in 1 .. n : k \in 0 .. n
    BY <1>1
  <2>3. WithPiece(0, pieces[0], parts[0 - 1]) = <<>>
    BY DEF WithPiece
  <2> HIDE DEF Is
  <2> QED
    BY <2>1, <2>2, <2>3
<1> QED
  <2> HIDE DEF parts, Is
  <2> QED
    BY <1>8, <1>9 DEF n

LEMMA PartsInOne == PartsIn(<<>>) = <<>> /\ \A p : PartsIn(<<p>>) = <<>>
<1>1. Len(<<>>) = 0 /\ 0 \in Nat
  OBVIOUS
<1>2. PartsIn(<<>>) = <<>>
  BY <1>1, PartsInIs
<1>3. ASSUME NEW p PROVE PartsIn(<<p>>) = <<>>
  <2> DEFINE one == <<p>>
  <2>1. Len(one) = 1 /\ 1 \in Nat /\ 1 \in 1 .. 1
    OBVIOUS
  <2> HIDE DEF one
  <2>2. PICK g : (\A k \in 1 .. Len(one) : g[k] = WithPiece(k, one[k], g[k - 1])) /\ PartsIn(one) = g[Len(one)]
    BY <2>1, PartsInIs
  <2>3. PartsIn(one) = WithPiece(1, one[1], g[1 - 1])
    BY <2>1, <2>2
  <2> QED
    BY <2>3 DEF WithPiece, one
<1> QED
  BY <1>2, <1>3

\* One more piece adds to the parts of the pieces before it.
LEMMA PartsInMore ==
    ASSUME NEW ps \in Seq(Texts), NEW p \in Texts
    PROVE  PartsIn(Append(ps, p)) = WithPiece(Len(ps) + 1, p, PartsIn(ps))
<1> DEFINE n == Len(ps)
           more == Append(ps, p)
<1>1. /\ Len(more) = n + 1 /\ n \in Nat /\ n + 1 \in Nat
      /\ (\A i \in 1 .. n : more[i] = ps[i]) /\ more[n + 1] = p
  BY AppendProperties, LenProperties
<1> HIDE DEF more
<1>2. PICK g : /\ g[0] = <<>> /\ \A k \in 1 .. n : g[k] = WithPiece(k, ps[k], g[k - 1])
               /\ PartsIn(ps) = g[n]
  BY <1>1, PartsInIs
<1>3. PICK h : /\ h[0] = <<>> /\ \A k \in 1 .. Len(more) : h[k] = WithPiece(k, more[k], h[k - 1])
               /\ PartsIn(more) = h[Len(more)]
  BY <1>1, PartsInIs
<1> DEFINE T == {k \in Nat : k <= n => h[k] = g[k]}
<1> HIDE DEF n
<1>4. 0 \in T
  BY <1>2, <1>3
<1>5. ASSUME NEW k \in Nat, k \in T PROVE k + 1 \in T
  <2>1. SUFFICES ASSUME k + 1 <= n PROVE h[k + 1] = g[k + 1]
    OBVIOUS
  <2> DEFINE j == k + 1
  <2>2. j \in 1 .. n /\ j \in 1 .. Len(more) /\ j - 1 = k /\ k <= n
    BY <1>1, <2>1
  <2>3. h[k] = g[k]
    BY <1>5, <2>2
  <2> HIDE DEF j, T
  <2>4. h[j] = WithPiece(j, more[j], h[j - 1]) /\ g[j] = WithPiece(j, ps[j], g[j - 1])
    BY <1>2, <1>3, <2>2, Zenon
  <2>5. more[j] = ps[j]
    BY <1>1, <2>2
  <2> QED
    BY <2>2, <2>3, <2>4, <2>5 DEF j
<1>6. Nat \subseteq T
  <2> HIDE DEF T
  <2> QED
    BY <1>4, <1>5, SetInduction
<1>7. h[n] = g[n]
  BY <1>1, <1>6
<1> DEFINE e == n + 1
<1>8. e \in 1 .. Len(more) /\ e - 1 = n /\ Len(more) = e /\ more[e] = p
  BY <1>1
<1> HIDE DEF e
<1>9. h[e] = WithPiece(e, more[e], h[e - 1])
  BY <1>3, <1>8, Zenon
<1>10. PartsIn(more) = WithPiece(e, p, PartsIn(ps))
  BY <1>2, <1>3, <1>7, <1>8, <1>9
<1> QED
  BY <1>10, Zenon DEF more, e, n

-----------------------------------------------------------------------------
(* The pieces before the final delimiter *)

LedBy(piece, l) == piece # <<>> /\ piece[1] = l

\* The parts are those among the pieces up to the last one, or up to the first
\* that begins with the dashes of the final delimiter.
LEMMA PartsOfIs ==
    ASSUME NEW ps \in Seq(Texts), NEW rest \in Seq(Texts), rest # <<>>,
           \A k \in 2 .. Len(ps) : ~LedBy(ps[k], "--"),
           Len(rest) = 1 \/ (ps # <<>> /\ LedBy(rest[1], "--"))
    PROVE  PartsOf(ps \o rest) = PartsIn(ps)
<1> DEFINE all == ps \o rest
           n == Len(ps)
           final == {k \in 2 .. Len(all) : LedBy(all[k], "--")}
           ends == final \cup {Len(all)}
<1>1. /\ n \in Nat /\ Len(rest) \in Nat /\ Len(rest) > 0 /\ Len(all) = n + Len(rest)
      /\ \A i \in 1 .. n : all[i] = ps[i]
      /\ \A i \in 1 .. Len(rest) : all[n + i] = rest[i]
      /\ SubSeq(all, 1, n) = ps
  BY ConcatParts, LenProperties, EmptySeq
<1>2. PartsOf(all) = PartsIn(SubSeq(all, 1, Min(ends) - 1))
  BY Zenon DEF PartsOf, LedBy
<1>3. ps # <<>> => n > 0
  BY EmptySeq, LenProperties
<1> HIDE DEF all, n
<1>4. ends \subseteq Nat /\ n + 1 \in ends /\ \A y \in ends : n + 1 <= y
  <2>1. \A k \in final : k > n
    <3>1. \A k \in 2 .. n : ~LedBy(all[k], "--")
      BY <1>1 DEF n
    <3> QED
      BY <1>1, <3>1
  <2>2. all[n + 1] = rest[1]
    BY <1>1
  <2>3. n + 1 \in ends
    <3>1. CASE Len(rest) = 1
      BY <1>1, <3>1
    <3>2. CASE ps # <<>> /\ LedBy(rest[1], "--")
      <4>1. n + 1 \in 2 .. Len(all)
        BY <1>1, <1>3, <3>2
      <4> QED
        BY <2>2, <3>2, <4>1
    <3> QED
      BY <3>1, <3>2
  <2> QED
    BY <1>1, <2>1, <2>3
<1>5. Min(ends) = n + 1
  <2> HIDE DEF ends
  <2>1. Min(ends) \in ends /\ \A y \in ends : Min(ends) <= y
    BY <1>4, MinIsLeast
  <2> DEFINE m == Min(ends)
  <2>2. m \in Nat /\ m <= n + 1 /\ n + 1 <= m
    BY <1>4, <2>1
  <2> HIDE DEF m
  <2>3. m = n + 1
    BY <1>1, <2>2
  <2> QED
    BY <2>3 DEF m
<1>6. Min(ends) - 1 = n
  BY <1>1, <1>5
<1> QED
  BY <1>1, <1>2, <1>6 DEF all

-----------------------------------------------------------------------------
(* One part *)

\* A head is not empty, has no blank line and does not end with a line end.
IsHead(h, e) ==
    /\ h \in Texts /\ h # <<>> /\ h[Len(h)] # e
    /\ \A i \in 1 .. Len(h) - 1 : h[i] = e => h[i + 1] # e

BlankLines(part, e) == {p \in 1 .. Len(part) - 1 : part[p] = e /\ part[p + 1] = e}

\* The first blank line of a part is the one behind its head.
LEMMA BlankLineCuts ==
    ASSUME NEW e \in FormLexemes, NEW h, IsHead(h, e), NEW content \in Texts,
           NEW part, part = h \o (<<e, e>> \o content)
    PROVE  /\ part \in Texts /\ BlankLines(part, e) # {}
           /\ SubSeq(part, 1, Min(BlankLines(part, e)) - 1) = h
           /\ Rest(part, Min(BlankLines(part, e)) + 1) = content
<1> DEFINE n == Len(h)
           u == <<e, e>> \o content
           upto == h \o <<e, e>>
           blanks == BlankLines(part, e)
<1>1. /\ h \in Seq(FormLexemes) /\ content \in Seq(FormLexemes) /\ <<e, e>> \in Seq(FormLexemes) /\ h # <<>>
      /\ Len(<<e, e>>) = 2 /\ <<e, e>>[1] = e /\ <<e, e>>[2] = e
  BY DEF IsHead, Texts
<1>2. n \in Nat /\ n >= 1 /\ Len(content) \in Nat
  BY <1>1, LenProperties, EmptySeq
<1>3. /\ u \in Seq(FormLexemes) /\ Len(u) = Len(content) + 2 /\ u[1] = e /\ u[2] = e
  <2>1. /\ u \in Seq(FormLexemes) /\ Len(u) = Len(<<e, e>>) + Len(content)
        /\ \A i \in 1 .. Len(<<e, e>>) : u[i] = <<e, e>>[i]
    BY <1>1, ConcatParts
  <2> QED
    BY <1>1, <1>2, <2>1
<1>4. part = h \o u
  OBVIOUS
<1>5. part = upto \o content /\ upto \in Seq(FormLexemes) /\ Len(upto) = n + 2
  <2>1. upto \in Seq(FormLexemes) /\ Len(upto) = n + Len(<<e, e>>)
    BY <1>1, ConcatParts
  <2>2. part = upto \o content
    BY <1>1, Associative
  <2> QED
    BY <1>1, <1>2, <2>1, <2>2
<1> HIDE DEF upto, u
<1>6. /\ part \in Seq(FormLexemes) /\ Len(part) = n + Len(u) /\ SubSeq(part, 1, n) = h
      /\ \A i \in 1 .. n : part[i] = h[i]
      /\ \A i \in 1 .. Len(u) : part[n + i] = u[i]
  BY <1>1, <1>3, <1>4, ConcatParts
<1>7. Rest(part, n + 2) = content
  <2>1. SubSeq(part, Len(upto) + 1, Len(part)) = content
    BY <1>1, <1>5, ConcatParts
  <2> QED
    BY <1>5, <2>1 DEF Rest
<1>8. part[n + 1] = e /\ part[n + 2] = e
  BY <1>2, <1>3, <1>6
<1>9. blanks \subseteq Nat /\ n + 1 \in blanks
  <2>1. n + 1 \in 1 .. Len(part) - 1 /\ (n + 1) + 1 = n + 2
    BY <1>2, <1>3, <1>6
  <2>2. Len(part) \in Nat
    BY <1>6, LenProperties
  <2> QED
    BY <1>8, <2>1, <2>2 DEF BlankLines
<1>10. ASSUME NEW y \in blanks PROVE n + 1 <= y
  <2>1. y \in Nat /\ y \in 1 .. Len(part) - 1 /\ part[y] = e /\ part[y + 1] = e
    BY <1>9 DEF BlankLines
  <2>2. CASE y < n
    <3>1. y \in 1 .. n - 1 /\ y \in 1 .. n /\ y + 1 \in 1 .. n
      BY <1>2, <2>1, <2>2
    <3>2. h[y] = e /\ h[y + 1] = e
      BY <1>6, <2>1, <3>1
    <3> QED
      BY <3>1, <3>2 DEF IsHead
  <2>3. CASE y = n
    <3>1. h[n] = e
      BY <1>2, <1>6, <2>1, <2>3
    <3> QED
      BY <3>1 DEF IsHead
  <2> QED
    BY <1>2, <2>1, <2>2, <2>3
<1> DEFINE m == Min(blanks)
<1>11. m = n + 1
  <2>1. m \in blanks /\ \A y \in blanks : m <= y
    BY <1>9, MinIsLeast
  <2> HIDE DEF m, blanks
  <2>2. m \in Nat /\ m <= n + 1 /\ n + 1 <= m
    BY <1>9, <1>10, <2>1
  <2> QED
    BY <1>2, <2>2
<1>12. m - 1 = n /\ m + 1 = n + 2
  BY <1>2, <1>11
<1> QED
  BY <1>6, <1>7, <1>9, <1>12 DEF Texts

\* What is read from the header lines and the content of a part.
PartWith(headers, content) ==
    LET ofKind(k) == {i \in DOMAIN headers : headers[i] # <<>> /\ headers[i][1] = k}
        disposition == IF ofKind("CD") = {} THEN <<>> ELSE Rest(headers[Max(ofKind("CD"))], 1)
        file == SanitizeFilename(DispositionParam(disposition, <<"file", "name">>))
    IN  [name |-> DispositionParam(disposition, <<"name">>), file |-> file,
         typed |-> file # <<>> /\ ofKind("CT") # {}, content |-> content]

LEMMA ParsePartIs ==
    ASSUME NEW h, IsHead(h, "CRLF"), NEW content \in Texts,
           NEW part, part = h \o (<<"CRLF", "CRLF">> \o content)
    PROVE  ParsePart(part) = PartWith(Split(h, "CRLF"), content)
<1> DEFINE blanks == BlankLines(part, "CRLF")
           headers == Split(IF blanks = {} THEN part ELSE SubSeq(part, 1, Min(blanks) - 1), "CRLF")
           bytes == IF blanks = {} THEN <<>> ELSE Rest(part, Min(blanks) + 1)
<1>1. ParsePart(part) = PartWith(headers, bytes)
  BY Zenon DEF ParsePart, PartWith, BlankLines
<1>2. "CRLF" \in FormLexemes
  BY Zenon DEF FormLexemes
<1>3. /\ blanks # {} /\ SubSeq(part, 1, Min(blanks) - 1) = h /\ Rest(part, Min(blanks) + 1) = content
  BY <1>2, BlankLineCuts
<1> QED
  BY <1>1, <1>3

\* A part stands in its piece between two line ends.
LEMMA PartOfIs ==
    ASSUME NEW part \in Texts, NEW piece, piece = <<"CRLF">> \o (part \o <<"CRLF">>)
    PROVE  PartOf(piece) = ParsePart(part)
<1> DEFINE ended == part \o <<"CRLF">>
<1>0. "CRLF" \in FormLexemes
  BY Zenon DEF FormLexemes
<1>1. "CRLF" \in FormLexemes /\ <<"CRLF">> \in Seq(FormLexemes) /\ Len(<<"CRLF">>) = 1 /\ <<"CRLF">>[1] = "CRLF"
      /\ part \in Seq(FormLexemes)
  BY <1>0 DEF Texts
<1>2. /\ ended \in Seq(FormLexemes) /\ Len(ended) = Len(part) + 1 /\ SubSeq(ended, 1, Len(part)) = part
      /\ \A i \in 1 .. 1 : ended[Len(part) + i] = <<"CRLF">>[i]
  BY <1>1, ConcatParts
<1>3. Len(part) \in Nat
  BY <1>1, LenProperties
<1>4. WithoutLineEnd(ended) = part
  <2>1. ended # <<>> /\ Len(ended) - 1 = Len(part)
    BY <1>2, <1>3, EmptySeq
  <2>2. ended[Len(ended)] = "CRLF"
    BY <1>1, <1>2, <1>3
  <2>3. Front(ended) = part
    BY <1>2, <2>1 DEF Front
  <2> HIDE DEF ended
  <2> QED
    BY <2>1, <2>2, <2>3 DEF WithoutLineEnd
<1>5. WithoutLineStart(piece) = ended
  <2> HIDE DEF ended
  <2>1. piece = <<"CRLF">> \o ended
    BY DEF ended
  <2> DEFINE e == "CRLF"
  <2>0. e \in FormLexemes
    BY <1>1
  <2> HIDE DEF e
  <2>2. <<e>> \o ended # <<>> /\ (<<e>> \o ended)[1] = e /\ Rest(<<e>> \o ended, 1) = ended
    BY <1>2, <2>0, FirstAndRest
  <2>3. piece # <<>> /\ piece[1] = "CRLF" /\ Rest(piece, 1) = ended
    BY <2>1, <2>2 DEF e
  <2> QED
    BY <2>3 DEF WithoutLineStart
<1> QED
  BY <1>4, <1>5 DEF PartOf

-----------------------------------------------------------------------------
(* The parameters of a disposition *)

\* Two texts, and the two or three pieces they make around a separator.
LEMMA OneInFront ==
    ASSUME NEW S, NEW s \in S, NEW x \in Seq(S), NEW y \in Seq(S), Len(y) = Len(x) + 1, y[1] = s,
           \A i \in 1 .. Len(x) : y[i + 1] = x[i]
    PROVE  <<s>> \o x = y
<1> DEFINE w == <<s>> \o x
<1>1. /\ w \in Seq(S) /\ Len(w) = Len(x) + 1 /\ w[1] = s /\ \A i \in 1 .. Len(x) : w[i + 1] = x[i]
  BY FirstAndRest
<1> HIDE DEF w
<1>2. Len(x) \in Nat
  BY LenProperties
<1>3. \A i \in 1 .. Len(w) : w[i] = y[i]
  <2>1. ASSUME NEW i \in 1 .. Len(w), i # 1 PROVE w[i] = y[i]
    <3> DEFINE k == i - 1
    <3>1. k \in 1 .. Len(x) /\ k + 1 = i
      BY <1>1, <1>2, <2>1
    <3> HIDE DEF k
    <3>2. w[k + 1] = x[k] /\ y[k + 1] = x[k]
      BY <1>1, <3>1
    <3> QED
      BY <3>1, <3>2
  <2> QED
    BY <1>1, <2>1
<1>4. w = y
  BY <1>1, <1>3, SeqEqual
<1> QED
  BY <1>4 DEF w

LEMMA Tuples ==
    ASSUME NEW s, NEW t, NEW u
    PROVE  <<s>> \o <<t>> = <<s, t>> /\ <<s>> \o <<t, u>> = <<s, t, u>>
<1> DEFINE S == {s, t, u}
<1>1. s \in S
  OBVIOUS
<1>2. <<s>> \o <<t>> = <<s, t>>
  <2>1. <<t>> \in Seq(S) /\ <<s, t>> \in Seq(S) /\ Len(<<s, t>>) = Len(<<t>>) + 1 /\ <<s, t>>[1] = s
        /\ \A i \in 1 .. Len(<<t>>) : <<s, t>>[i + 1] = <<t>>[i]
    OBVIOUS
  <2> HIDE DEF S
  <2> QED
    BY <1>1, <2>1, OneInFront
<1>3. <<s>> \o <<t, u>> = <<s, t, u>>
  <2>1. /\ <<t, u>> \in Seq(S) /\ <<s, t, u>> \in Seq(S) /\ Len(<<s, t, u>>) = Len(<<t, u>>) + 1
        /\ <<s, t, u>>[1] = s /\ \A i \in 1 .. Len(<<t, u>>) : <<s, t, u>>[i + 1] = <<t, u>>[i]
    OBVIOUS
  <2> HIDE DEF S
  <2> QED
    BY <1>1, <2>1, OneInFront
<1> QED
  BY <1>2, <1>3

LEMMA TupleOfFour ==
    ASSUME NEW s, NEW t, NEW u, NEW v
    PROVE  <<s>> \o <<t, u, v>> = <<s, t, u, v>>
<1> DEFINE S == {s, t, u, v}
<1>1. s \in S
  OBVIOUS
<1>2. /\ <<t, u, v>> \in Seq(S) /\ <<s, t, u, v>> \in Seq(S) /\ Len(<<s, t, u, v>>) = Len(<<t, u, v>>) + 1
      /\ <<s, t, u, v>>[1] = s
      /\ \A i \in 1 .. Len(<<t, u, v>>) : <<s, t, u, v>>[i + 1] = <<t, u, v>>[i]
  OBVIOUS
<1> HIDE DEF S
<1> QED
  BY <1>1, <1>2, OneInFront

LEMMA SplitTwo ==
    ASSUME NEW sep \in FormLexemes, NEW s \in Texts, Without(s, sep), NEW t \in Texts, Without(t, sep)
    PROVE  Split(s \o (<<sep>> \o t), sep) = <<s, t>>
<1>1. Split(s \o (<<sep>> \o t), sep) = <<s>> \o Split(t, sep) /\ Split(t, sep) = <<t>>
  BY SplitAt
<1>2. <<s>> \o <<t>> = <<s, t>>
  BY Tuples
<1> QED
  BY <1>1, <1>2

LEMMA SplitParams ==
    ASSUME NEW sep \in FormLexemes, NEW u \in Texts, Without(u, sep)
    PROVE  /\ Split(<<sep>> \o u, sep) = <<<<>>, u>>
           /\ \A v \in Texts : Without(v, sep) => Split(<<sep>> \o (u \o (<<sep>> \o v)), sep) = <<<<>>, u, v>>
<1>1. <<>> \in Texts /\ Without(<<>>, sep) /\ <<sep>> \in Texts
  BY WithoutOne DEF Texts
<1>2. Split(<<sep>> \o u, sep) = <<<<>>, u>>
  <2>1. <<>> \o (<<sep>> \o u) = <<sep>> \o u
    BY <1>1, Associative DEF Texts
  <2> QED
    BY <1>1, <2>1, SplitTwo
<1>3. ASSUME NEW v \in Texts, Without(v, sep)
      PROVE  Split(<<sep>> \o (u \o (<<sep>> \o v)), sep) = <<<<>>, u, v>>
  <2> DEFINE w == u \o (<<sep>> \o v)
  <2>1. w \in Texts /\ Split(w, sep) = <<u, v>>
    <3>1. w \in Texts
      BY PieceOfConcat DEF Texts
    <3> QED
      BY <1>3, <3>1, SplitTwo
  <2> HIDE DEF w
  <2>2. Split(<<>> \o (<<sep>> \o w), sep) = <<<<>>>> \o Split(w, sep)
    BY <1>1, <2>1, SplitAt
  <2>3. <<>> \o (<<sep>> \o w) = <<sep>> \o w
    BY <1>1, <2>1, Associative DEF Texts
  <2>4. <<<<>>>> \o <<u, v>> = <<<<>>, u, v>>
    BY Tuples
  <2>5. Split(<<sep>> \o w, sep) = <<<<>>, u, v>>
    BY <2>1, <2>2, <2>3, <2>4
  <2> QED
    BY <2>5 DEF w
<1> QED
  BY <1>2, <1>3

IsParam(p, key, q) == Len(p) > Len(key) /\ SubSeq(p, 1, Len(key)) = key /\ p[Len(key) + 1] = q

Param(params, key, q) ==
    LET them   == {k \in DOMAIN params : IsParam(params[k], key, q)}
        values == Split(Rest(params[Min(them)], Len(key) + 1), q)
    IN  IF them = {} \/ Len(values) < 2 THEN <<>> ELSE values[1]

Quoted(key, q, value) == key \o (<<q>> \o (value \o <<q>>))

LEMMA QuotedIs ==
    ASSUME NEW q \in FormLexemes, NEW key \in Texts, key # <<>>, NEW value \in Texts
    PROVE  /\ Quoted(key, q, value) \in Texts /\ IsParam(Quoted(key, q, value), key, q)
           /\ Quoted(key, q, value)[1] = key[1]
           /\ Rest(Quoted(key, q, value), Len(key) + 1) = value \o <<q>>
           /\ value \o <<q>> \in Texts
<1> DEFINE v == value \o <<q>>
           w == <<q>> \o v
           p == key \o w
<1>1. /\ key \in Seq(FormLexemes) /\ value \in Seq(FormLexemes) /\ <<q>> \in Seq(FormLexemes) /\ Len(<<q>>) = 1
  BY DEF Texts
<1>2. v \in Seq(FormLexemes)
  BY <1>1, ConcatParts
<1> HIDE DEF v
<1>3. w \in Seq(FormLexemes) /\ Len(w) = Len(v) + 1 /\ w[1] = q /\ Rest(w, 1) = v
  BY <1>2, FirstAndRest
<1>4. Len(key) \in Nat /\ Len(key) >= 1 /\ Len(v) \in Nat
  BY <1>1, <1>2, LenProperties, EmptySeq
<1>5. p = (key \o <<q>>) \o v /\ key \o <<q>> \in Seq(FormLexemes) /\ Len(key \o <<q>>) = Len(key) + 1
  <2>1. p = (key \o <<q>>) \o v
    BY SMTT(20), <1>1, <1>2, Associative
  <2> QED
    BY <1>1, <2>1, ConcatParts
<1>6. SubSeq(p, Len(key) + 1 + 1, Len(p)) = v
  <2> DEFINE x == key \o <<q>>
  <2>1. x \in Seq(FormLexemes) /\ Len(x) = Len(key) + 1 /\ p = x \o v
    BY <1>5
  <2> HIDE DEF x, p
  <2>2. SubSeq(x \o v, Len(x) + 1, Len(x \o v)) = v
    BY <1>2, <2>1, ConcatParts
  <2> QED
    BY <2>1, <2>2
<1> HIDE DEF w
<1>7. /\ p \in Seq(FormLexemes) /\ Len(p) = Len(key) + Len(w) /\ SubSeq(p, 1, Len(key)) = key
      /\ \A i \in 1 .. Len(key) : p[i] = key[i]
      /\ \A i \in 1 .. Len(w) : p[Len(key) + i] = w[i]
  <2> DEFINE S == FormLexemes
  <2>1. key \in Seq(S) /\ w \in Seq(S)
    BY <1>1, <1>3
  <2> HIDE DEF S
  <2>2. /\ p \in Seq(S) /\ Len(p) = Len(key) + Len(w)
        /\ \A i \in 1 .. Len(key) : p[i] = key[i]
        /\ \A i \in 1 .. Len(w) : p[Len(key) + i] = w[i]
    BY <2>1, ConcatParts
  <2>3. SubSeq(p, 1, Len(key)) = key
    BY <2>1, ConcatParts
  <2> QED
    BY <2>2, <2>3 DEF S
<1> HIDE DEF p
<1>8. p[Len(key) + 1] = q /\ p[1] = key[1] /\ Len(p) > Len(key)
  BY <1>3, <1>4, <1>7
<1>9. Quoted(key, q, value) = p
  BY DEF Quoted, p, w, v
<1> QED
  BY <1>2, <1>6, <1>7, <1>8, <1>9 DEF IsParam, Rest, Texts, v

\* A parameter begins as its key does.
LEMMA ParamBegins ==
    ASSUME NEW p \in Texts, NEW key \in Texts, key # <<>>, NEW q, IsParam(p, key, q)
    PROVE  p # <<>> /\ p[1] = key[1]
<1>1. Len(key) \in Nat /\ Len(key) >= 1 /\ Len(p) \in Nat /\ Len(p) > Len(key) /\ Len(<<>>) = 0
  BY LenProperties, EmptySeq DEF Texts, IsParam
<1>2. SubSeq(p, 1, Len(key))[1] = p[1]
  BY <1>1, Prefix DEF Texts
<1> QED
  BY <1>1, <1>2 DEF IsParam

\* The value of the one parameter with a key, and of a key without one.
LEMMA ParamIs ==
    ASSUME NEW q \in FormLexemes, NEW key \in Texts, key # <<>>, NEW params \in Seq(Texts)
    PROVE  /\ (\A i \in DOMAIN params : ~IsParam(params[i], key, q)) => Param(params, key, q) = <<>>
           /\ \A k \in DOMAIN params, value \in Texts :
                 /\ Without(value, q) /\ params[k] = Quoted(key, q, value)
                 /\ \A i \in DOMAIN params : i # k => ~IsParam(params[i], key, q)
                 => Param(params, key, q) = value
<1>1. (\A i \in DOMAIN params : ~IsParam(params[i], key, q)) => Param(params, key, q) = <<>>
  BY DEF Param
<1>2. ASSUME NEW k \in DOMAIN params, NEW value \in Texts, Without(value, q),
             params[k] = Quoted(key, q, value), \A i \in DOMAIN params : i # k => ~IsParam(params[i], key, q)
      PROVE  Param(params, key, q) = value
  <2> DEFINE them == {i \in DOMAIN params : IsParam(params[i], key, q)}
  <2>1. them = {k}
    <3>1. IsParam(params[k], key, q)
      BY <1>2, QuotedIs
    <3> QED
      BY <1>2, <3>1
  <2>2. k \in Nat
    BY LenProperties
  <2>3. Min(them) = k
    <3>1. them \subseteq Nat /\ them # {}
      BY <2>1, <2>2
    <3> HIDE DEF them
    <3>2. Min(them) \in them
      BY <3>1, MinIsLeast
    <3> QED
      BY <2>1, <3>2
  <2>4. Rest(params[k], Len(key) + 1) = value \o <<q>>
    BY <1>2, QuotedIs
  <2> DEFINE values == Split(value \o <<q>>, q)
  <2>5. values = <<value, <<>>>>
    <3>1. <<>> \in Texts /\ Without(<<>>, q)
      BY WithoutOne DEF Texts
    <3>2. <<q>> \o <<>> = <<q>>
      OBVIOUS
    <3>3. Split(value \o (<<q>> \o <<>>), q) = <<value, <<>>>>
      BY <1>2, <3>1, SplitTwo
    <3> QED
      BY <3>2, <3>3
  <2>6. Len(<<value, <<>>>>) = 2 /\ <<value, <<>>>>[1] = value
    OBVIOUS
  <2>7. Param(params, key, q) = IF them = {} \/ Len(values) < 2 THEN <<>> ELSE values[1]
    <3> HIDE DEF values, them
    <3>1. Param(params, key, q)
             = LET read == Split(Rest(params[Min(them)], Len(key) + 1), q)
               IN  IF them = {} \/ Len(read) < 2 THEN <<>> ELSE read[1]
      BY DEF Param, them
    <3>2. Split(Rest(params[Min(them)], Len(key) + 1), q) = values
      BY <2>3, <2>4 DEF values
    <3> QED
      BY <3>1, <3>2
  <2> HIDE DEF values, them
  <2>8. them # {} /\ Len(values) = 2 /\ values[1] = value
    BY <2>1, <2>5, <2>6
  <2> QED
    BY <2>7, <2>8
<1> QED
  BY <1>1, <1>2

NameKey == <<"name">>
FileKey == <<"file", "name">>
Named(name) == Quoted(NameKey, "quote", name)
Filed(file) == Quoted(FileKey, "quote", file)

\* The parameters of a disposition with a name, and with a file name unless it
\* is empty.
NamesIn(params, name, file) ==
    \/ params = <<<<>>, Named(name)>> /\ file = <<>>
    \/ params = <<<<>>, Named(name), Filed(file)>>
    \/ params = <<<<>>, Filed(file), Named(name)>>

LEMMA Keys ==
    /\ "quote" \in FormLexemes /\ "name" \in FormLexemes /\ "file" \in FormLexemes
    /\ NameKey \in Texts /\ FileKey \in Texts /\ NameKey # <<>> /\ FileKey # <<>>
    /\ NameKey[1] = "name" /\ FileKey[1] = "file" /\ <<>> \in Texts
<1>1. "quote" \in FormLexemes /\ "name" \in FormLexemes /\ "file" \in FormLexemes
  BY Zenon DEF FormLexemes
<1>2. /\ NameKey \in Texts /\ FileKey \in Texts /\ NameKey # <<>> /\ FileKey # <<>>
      /\ NameKey[1] = "name" /\ FileKey[1] = "file" /\ <<>> \in Texts
  BY <1>1 DEF NameKey, FileKey, Texts
<1> QED
  BY <1>1, <1>2

LEMMA OtherKeys ==
    ASSUME NEW name \in Texts, NEW file \in Texts
    PROVE  /\ ~IsParam(<<>>, NameKey, "quote") /\ ~IsParam(<<>>, FileKey, "quote")
           /\ ~IsParam(Filed(file), NameKey, "quote") /\ ~IsParam(Named(name), FileKey, "quote")
           /\ Named(name) \in Texts /\ Filed(file) \in Texts
<1>1. /\ Named(name) \in Texts /\ Filed(file) \in Texts
      /\ Named(name)[1] = "name" /\ Filed(file)[1] = "file"
  BY Keys, QuotedIs DEF Named, Filed
<1> DEFINE q == "quote"
<1> HIDE DEF q
<1>2. ~IsParam(<<>>, NameKey, q) /\ ~IsParam(<<>>, FileKey, q)
  BY Keys, ParamBegins
<1>3. ~IsParam(Filed(file), NameKey, q)
  <2>1. SUFFICES ASSUME IsParam(Filed(file), NameKey, q) PROVE FALSE
    OBVIOUS
  <2>2. Filed(file)[1] = NameKey[1]
    BY <1>1, <2>1, Keys, ParamBegins
  <2> QED
    BY <1>1, <2>2, Keys
<1>4. ~IsParam(Named(name), FileKey, q)
  <2>1. SUFFICES ASSUME IsParam(Named(name), FileKey, q) PROVE FALSE
    OBVIOUS
  <2>2. Named(name)[1] = FileKey[1]
    BY <1>1, <2>1, Keys, ParamBegins
  <2> QED
    BY <1>1, <2>2, Keys
<1> QED
  BY <1>1, <1>2, <1>3, <1>4 DEF q

\* Each name of a disposition is read as it was written.
LEMMA NamesAreRead ==
    ASSUME NEW name \in Texts, NEW file \in Texts, Without(name, "quote"), Without(file, "quote"),
           NEW params, NamesIn(params, name, file)
    PROVE  Param(params, NameKey, "quote") = name /\ Param(params, FileKey, "quote") = file
<1> DEFINE q == "quote"
           N == Named(name)
           F == Filed(file)
<1>1. /\ ~IsParam(<<>>, NameKey, q) /\ ~IsParam(<<>>, FileKey, q)
      /\ ~IsParam(F, NameKey, q) /\ ~IsParam(N, FileKey, q)
      /\ N \in Texts /\ F \in Texts /\ <<>> \in Texts
  BY OtherKeys, Keys
<1>2. q \in FormLexemes /\ Without(name, q) /\ Without(file, q)
  BY Keys
<1>3. N = Quoted(NameKey, q, name) /\ F = Quoted(FileKey, q, file)
  BY DEF Named, Filed
<1> HIDE DEF q, N, F
<1>4. CASE params = <<<<>>, N>> /\ file = <<>>
  <2>1. /\ params \in Seq(Texts) /\ DOMAIN params = {1, 2} /\ params[1] = <<>> /\ params[2] = N
    BY <1>1, <1>4
  <2>2. \A i \in DOMAIN params : ~IsParam(params[i], FileKey, q)
    BY <1>1, <2>1
  <2>3. \A i \in DOMAIN params : i # 2 => ~IsParam(params[i], NameKey, q)
    BY <1>1, <2>1
  <2>4. Param(params, FileKey, q) = <<>>
    BY <1>2, <2>1, <2>2, Keys, ParamIs
  <2>5. 2 \in DOMAIN params
    BY <2>1
  <2>6. Param(params, NameKey, q) = name
    BY <1>2, <1>3, <2>1, <2>3, <2>5, Keys, ParamIs
  <2> QED
    BY <1>4, <2>4, <2>6 DEF q
<1>5. CASE params = <<<<>>, N, F>>
  <2>1. /\ params \in Seq(Texts) /\ DOMAIN params = {1, 2, 3}
        /\ params[1] = <<>> /\ params[2] = N /\ params[3] = F /\ 2 \in DOMAIN params /\ 3 \in DOMAIN params
    BY <1>1, <1>5
  <2>2. \A i \in DOMAIN params : i # 3 => ~IsParam(params[i], FileKey, q)
    BY <1>1, <2>1
  <2>3. \A i \in DOMAIN params : i # 2 => ~IsParam(params[i], NameKey, q)
    BY <1>1, <2>1
  <2>4. Param(params, FileKey, q) = file
    BY ZenonT(30), <1>2, <1>3, <2>1, <2>2, Keys, ParamIs
  <2>6. Param(params, NameKey, q) = name
    BY <1>2, <1>3, <2>1, <2>3, Keys, ParamIs
  <2> QED
    BY <2>4, <2>6 DEF q
<1>6. CASE params = <<<<>>, F, N>>
  <2>1. /\ params \in Seq(Texts) /\ DOMAIN params = {1, 2, 3}
        /\ params[1] = <<>> /\ params[2] = F /\ params[3] = N /\ 2 \in DOMAIN params /\ 3 \in DOMAIN params
    BY <1>1, <1>6
  <2>2. \A i \in DOMAIN params : i # 2 => ~IsParam(params[i], FileKey, q)
    BY <1>1, <2>1
  <2>3. \A i \in DOMAIN params : i # 3 => ~IsParam(params[i], NameKey, q)
    BY <1>1, <2>1
  <2>4. Param(params, FileKey, q) = file
    BY SMTT(20), <1>2, <1>3, <2>1, <2>2, Keys, ParamIs
  <2>6. Param(params, NameKey, q) = name
    BY SMTT(20), <1>2, <1>3, <2>1, <2>3, Keys, ParamIs
  <2> QED
    BY <2>4, <2>6 DEF q
<1> QED
  BY <1>4, <1>5, <1>6 DEF NamesIn, N, F

LEMMA DispositionIsRead ==
    ASSUME NEW name \in Texts, NEW file \in Texts, Without(name, "quote"), Without(file, "quote"),
           NEW d, NamesIn(Split(d, ";"), name, file)
    PROVE  DispositionParam(d, <<"name">>) = name /\ DispositionParam(d, <<"file", "name">>) = file
<1>1. DispositionParam(d, NameKey) = Param(Split(d, ";"), NameKey, "quote")
      /\ DispositionParam(d, FileKey) = Param(Split(d, ";"), FileKey, "quote")
  BY Zenon DEF DispositionParam, Param, IsParam
<1> DEFINE params == Split(d, ";")
<1>2. NamesIn(params, name, file)
  BY Zenon
<1>3. DispositionParam(d, NameKey) = Param(params, NameKey, "quote")
      /\ DispositionParam(d, FileKey) = Param(params, FileKey, "quote")
  BY <1>1, Zenon
<1> HIDE DEF params
<1>4. Param(params, NameKey, "quote") = name /\ Param(params, FileKey, "quote") = file
  BY <1>2, NamesAreRead, Zenon
<1> QED
  BY <1>3, <1>4, Zenon DEF NameKey, FileKey

-----------------------------------------------------------------------------
(* The header lines of a part *)

Header(d) == <<"CD">> \o d

LEMMA HeadsAre ==
    ASSUME NEW e \in FormLexemes, NEW c \in FormLexemes, c # e,
           NEW a \in Texts, a # <<>>, Without(a, e)
    PROVE  /\ IsHead(a, e) /\ Split(a, e) = <<a>>
           /\ IsHead(a \o <<e, c>>, e) /\ Split(a \o <<e, c>>, e) = <<a, <<c>>>>
<1> DEFINE h == a \o <<e, c>>
           n == Len(a)
<1>1. a \in Seq(FormLexemes) /\ <<e, c>> \in Seq(FormLexemes) /\ <<c>> \in Texts /\ Len(<<e, c>>) = 2
      /\ <<e, c>>[1] = e /\ <<e, c>>[2] = c /\ Without(<<c>>, e)
  BY WithoutOne DEF Texts
<1>2. n \in Nat /\ n >= 1
  BY <1>1, LenProperties, EmptySeq
<1>3. IsHead(a, e)
  BY <1>2 DEF IsHead, Without
<1>4. Split(a, e) = <<a>>
  BY SplitAt
<1>5. Split(h, e) = <<a, <<c>>>>
  <2>1. Split(a \o (<<e>> \o <<c>>), e) = <<a, <<c>>>>
    BY <1>1, SplitTwo
  <2>2. <<e>> \o <<c>> = <<e, c>>
    BY Tuples
  <2> QED
    BY <2>1, <2>2
<1>6. IsHead(h, e)
  <2> DEFINE x == <<e, c>>
  <2>1. x \in Seq(FormLexemes) /\ Len(x) = 2 /\ x[1] = e /\ x[2] = c
    BY <1>1
  <2> HIDE DEF x
  <2> DEFINE w == a \o x
  <2>2. /\ w \in Seq(FormLexemes) /\ Len(w) = n + Len(x)
        /\ \A i \in 1 .. n : w[i] = a[i]
        /\ \A i \in 1 .. Len(x) : w[n + i] = x[i]
    BY <1>1, <2>1, ConcatParts
  <2> HIDE DEF w
  <2>3. Len(w) = n + 2 /\ w[n + 1] = e /\ w[n + 2] = c
    BY <2>1, <2>2
  <2>4. w # <<>> /\ w[Len(w)] # e
    BY <1>2, <2>2, <2>3, EmptySeq
  <2>5. ASSUME NEW i \in 1 .. Len(w) - 1, w[i] = e PROVE w[i + 1] # e
    <3>1. i \in 1 .. n \/ i = n + 1
      BY <1>2, <2>3
    <3>2. ~(i \in 1 .. n)
      BY <2>2, <2>5 DEF Without
    <3>3. i + 1 = n + 2
      BY <1>2, <3>1, <3>2
    <3> QED
      BY <2>3, <3>3
  <2>6. IsHead(w, e)
    BY <2>2, <2>4, <2>5 DEF IsHead, Texts
  <2> QED
    BY <2>6 DEF w, x
<1> QED
  BY <1>3, <1>4, <1>5, <1>6

\* A part is read as its disposition says, and as typed if a type follows it.
ReadAs(name, file, typed, content) ==
    [name |-> name, file |-> SanitizeFilename(file),
     typed |-> SanitizeFilename(file) # <<>> /\ typed, content |-> content]

LEMMA PartWithIs ==
    ASSUME NEW d \in Texts, NEW name, NEW file, NEW content,
           DispositionParam(d, <<"name">>) = name, DispositionParam(d, <<"file", "name">>) = file
    PROVE  /\ PartWith(<<Header(d)>>, content) = ReadAs(name, file, FALSE, content)
           /\ PartWith(<<Header(d), <<"CT">>>>, content) = ReadAs(name, file, TRUE, content)
<1> DEFINE a == Header(d)
           OfKind(headers, k) == {i \in DOMAIN headers : headers[i] # <<>> /\ headers[i][1] = k}
<1>1. "CD" \in FormLexemes /\ "CD" # "CT"
  BY Zenon DEF FormLexemes
<1>2. a # <<>> /\ a[1] = "CD" /\ Rest(a, 1) = d
  <2> DEFINE k == "CD"
  <2>1. k \in FormLexemes /\ d \in Seq(FormLexemes)
    BY <1>1 DEF Texts
  <2> HIDE DEF k
  <2>2. <<k>> \o d # <<>> /\ (<<k>> \o d)[1] = k /\ Rest(<<k>> \o d, 1) = d
    BY <2>1, FirstAndRest
  <2> QED
    BY <2>2 DEF k, Header
<1>3. ASSUME NEW headers, NEW typed \in BOOLEAN, OfKind(headers, "CD") = {1}, headers[1] = a,
             OfKind(headers, "CT") # {} <=> typed
      PROVE  PartWith(headers, content) = ReadAs(name, file, typed, content)
  <2>1. Max(OfKind(headers, "CD")) = 1
    <3>1. {1} \subseteq 0 .. 1 /\ {1} # {} /\ 1 \in Nat
      OBVIOUS
    <3>2. Max({1}) \in {1}
      BY <3>1, MaxIsGreatest
    <3> QED
      BY <1>3, <3>2
  <2>2. OfKind(headers, "CD") # {}
    BY <1>3
  <2>3. (IF OfKind(headers, "CD") = {} THEN <<>> ELSE Rest(headers[Max(OfKind(headers, "CD"))], 1)) = d
    BY <1>2, <1>3, <2>1, <2>2
  <2> DEFINE disposition == IF OfKind(headers, "CD") = {} THEN <<>> ELSE Rest(headers[Max(OfKind(headers, "CD"))], 1)
             kept == SanitizeFilename(DispositionParam(disposition, <<"file", "name">>))
             told == kept # <<>> /\ OfKind(headers, "CT") # {}
  <2>4. PartWith(headers, content)
           = [name |-> DispositionParam(disposition, <<"name">>), file |-> kept, typed |-> told, content |-> content]
    BY Zenon DEF PartWith
  <2>5. disposition = d
    BY <2>3
  <2>6. DispositionParam(disposition, <<"name">>) = name /\ kept = SanitizeFilename(file)
    BY <2>5, Zenon
  <2>7. told = (SanitizeFilename(file) # <<>> /\ typed)
    BY <1>3, <2>6, Zenon
  <2> HIDE DEF disposition, kept, told
  <2> QED
    BY <2>4, <2>6, <2>7, Zenon DEF ReadAs
<1> HIDE DEF a
<1>4. PartWith(<<a>>, content) = ReadAs(name, file, FALSE, content)
  <2> DEFINE headers == <<a>>
  <2>1. DOMAIN headers = {1} /\ headers[1] = a
    OBVIOUS
  <2> HIDE DEF headers
  <2>2. OfKind(headers, "CD") = {1} /\ OfKind(headers, "CT") = {}
    BY <1>1, <1>2, <2>1
  <2> HIDE DEF OfKind
  <2>3. PartWith(headers, content) = ReadAs(name, file, FALSE, content)
    BY <1>3, <2>1, <2>2
  <2> QED
    BY <2>3 DEF headers
<1>5. PartWith(<<a, <<"CT">>>>, content) = ReadAs(name, file, TRUE, content)
  <2> DEFINE headers == <<a, <<"CT">>>>
  <2>1. DOMAIN headers = {1, 2} /\ headers[1] = a /\ headers[2] = <<"CT">>
        /\ <<"CT">> # <<>> /\ <<"CT">>[1] = "CT"
    OBVIOUS
  <2> HIDE DEF headers
  <2>2. OfKind(headers, "CD") = {1} /\ OfKind(headers, "CT") = {2}
    BY <1>1, <1>2, <2>1
  <2>3. {2} # {}
    OBVIOUS
  <2> HIDE DEF OfKind
  <2>4. PartWith(headers, content) = ReadAs(name, file, TRUE, content)
    BY <1>3, <2>1, <2>2, <2>3
  <2> QED
    BY <2>4 DEF headers
<1> QED
  BY <1>4, <1>5 DEF a

-----------------------------------------------------------------------------
(* File names *)

Kept(file) == IF file = <<"a", "/", "b">> THEN <<"b">> ELSE IF file = <<"a">> THEN <<"a">> ELSE <<>>

Trusted(base) ==
    IF base \in {<<".">>, <<"..">>} \/ \E i \in DOMAIN base : base[i] = "ctl" THEN <<>> ELSE base

LEMMA TrustedIs ==
    /\ Trusted(<<>>) = <<>> /\ Trusted(<<"a">>) = <<"a">> /\ Trusted(<<"b">>) = <<"b">>
    /\ Trusted(<<"..">>) = <<>> /\ Trusted(<<"a", "ctl">>) = <<>>
<1>1. Trusted(<<>>) = <<>>
  BY DEF Trusted
<1>2. ASSUME NEW x, x # ".", x # "..", x # "ctl" PROVE Trusted(<<x>>) = <<x>>
  <2>1. <<x>> # <<".">> /\ <<x>> # <<"..">> /\ \A i \in DOMAIN <<x>> : <<x>>[i] # "ctl"
    BY <1>2
  <2> QED
    BY <2>1, Zenon DEF Trusted
<1>3. "a" # "." /\ "a" # ".." /\ "a" # "ctl" /\ "b" # "." /\ "b" # ".." /\ "b" # "ctl"
  BY Zenon
<1>4. Trusted(<<"..">>) = <<>>
  BY Zenon DEF Trusted
<1>5. Trusted(<<"a", "ctl">>) = <<>>
  <2>1. 2 \in DOMAIN <<"a", "ctl">> /\ <<"a", "ctl">>[2] = "ctl"
    OBVIOUS
  <2> QED
    BY <2>1, Zenon DEF Trusted
<1> QED
  BY <1>1, <1>2, <1>3, <1>4, <1>5, Zenon

LEMMA SanitizeIs == \A file \in Filenames : file \in Texts /\ SanitizeFilename(file) = Kept(file)
<1> DEFINE s == "/"
           up == ".."
<1>1. /\ s \in FormLexemes /\ up \in FormLexemes
      /\ "a" \in FormLexemes /\ "b" \in FormLexemes /\ "ctl" \in FormLexemes
      /\ s # "a" /\ s # "b" /\ s # "ctl" /\ s # up
      /\ up # "a" /\ up # "b" /\ up # "ctl"
  BY Zenon DEF FormLexemes
<1>2. ASSUME NEW file PROVE SanitizeFilename(file) = Trusted(Split(file, s)[Len(Split(file, s))])
  BY Zenon DEF SanitizeFilename, Trusted
<1>3. Filenames = {<<>>, <<"a">>, <<"a", s, "b">>, <<up>>, <<"a", s, up>>, <<"a", s>>, <<"a", "ctl">>}
  BY Zenon DEF Filenames
<1>4. /\ Trusted(<<>>) = <<>> /\ Trusted(<<"a">>) = <<"a">> /\ Trusted(<<"b">>) = <<"b">>
      /\ Trusted(<<up>>) = <<>> /\ Trusted(<<"a", "ctl">>) = <<>>
  BY TrustedIs, Zenon
<1>5. \A file : Kept(file) = IF file = <<"a", s, "b">> THEN <<"b">> ELSE IF file = <<"a">> THEN <<"a">> ELSE <<>>
  BY Zenon DEF Kept
<1> HIDE DEF s, up
<1>6. /\ <<>> \in Texts /\ <<"a">> \in Texts /\ <<"b">> \in Texts /\ <<up>> \in Texts
      /\ <<"a", "ctl">> \in Texts /\ <<"a", s, "b">> \in Texts /\ <<"a", s, up>> \in Texts /\ <<"a", s>> \in Texts
  BY <1>1 DEF Texts
<1>7. /\ Without(<<>>, s) /\ Without(<<"a">>, s) /\ Without(<<"b">>, s) /\ Without(<<up>>, s)
      /\ Without(<<"a", "ctl">>, s)
  <2>1. Without(<<>>, s) /\ Without(<<"a">>, s) /\ Without(<<"b">>, s) /\ Without(<<up>>, s)
    BY <1>1, WithoutOne
  <2>2. Without(<<"a", "ctl">>, s)
    <3>1. Len(<<"a", "ctl">>) = 2 /\ <<"a", "ctl">>[1] = "a" /\ <<"a", "ctl">>[2] = "ctl"
      OBVIOUS
    <3>2. \A i \in 1 .. 2 : i = 1 \/ i = 2
      OBVIOUS
    <3> QED
      BY <1>1, <3>1, <3>2 DEF Without
  <2> QED
    BY <2>1, <2>2
<1>8. ASSUME NEW x \in Texts, Without(x, s) PROVE SanitizeFilename(x) = Trusted(x)
  <2>1. Split(x, s) = <<x>>
    BY <1>1, <1>8, SplitAt
  <2>2. Len(<<x>>) = 1 /\ <<x>>[1] = x
    OBVIOUS
  <2> QED
    BY <1>2, <2>1, <2>2
<1>9. ASSUME NEW x \in Texts, Without(x, s) PROVE SanitizeFilename(<<"a">> \o (<<s>> \o x)) = Trusted(x)
  <2>1. Split(<<"a">> \o (<<s>> \o x), s) = <<<<"a">>, x>>
    BY <1>1, <1>6, <1>7, <1>9, SplitTwo
  <2>2. Len(<<<<"a">>, x>>) = 2 /\ <<<<"a">>, x>>[2] = x
    OBVIOUS
  <2> QED
    BY <1>2, <2>1, <2>2
<1>10. /\ <<"a", s, "b">> = <<"a">> \o (<<s>> \o <<"b">>) /\ <<"a", s, up>> = <<"a">> \o (<<s>> \o <<up>>)
       /\ <<"a", s>> = <<"a">> \o (<<s>> \o <<>>)
  <2>1. \A x : <<"a">> \o (<<s>> \o <<x>>) = <<"a", s, x>>
    <3>1. ASSUME NEW x PROVE <<"a">> \o (<<s>> \o <<x>>) = <<"a", s, x>>
      <4>1. <<s>> \o <<x>> = <<s, x>> /\ <<"a">> \o <<s, x>> = <<"a", s, x>>
        BY Tuples
      <4> QED
        BY <4>1
    <3> QED
      BY <3>1
  <2>2. <<s>> \o <<>> = <<s>>
    OBVIOUS
  <2>3. <<"a">> \o (<<s>> \o <<>>) = <<"a", s>>
    BY <2>2, Tuples
  <2> QED
    BY <2>1, <2>3
<1>11. /\ SanitizeFilename(<<>>) = <<>> /\ SanitizeFilename(<<"a">>) = <<"a">>
       /\ SanitizeFilename(<<"a", s, "b">>) = <<"b">> /\ SanitizeFilename(<<up>>) = <<>>
       /\ SanitizeFilename(<<"a", s, up>>) = <<>> /\ SanitizeFilename(<<"a", s>>) = <<>>
       /\ SanitizeFilename(<<"a", "ctl">>) = <<>>
  BY <1>4, <1>6, <1>7, <1>8, <1>9, <1>10
<1>12. /\ Kept(<<>>) = <<>> /\ Kept(<<"a">>) = <<"a">>
       /\ Kept(<<"a", s, "b">>) = <<"b">> /\ Kept(<<up>>) = <<>>
       /\ Kept(<<"a", s, up>>) = <<>> /\ Kept(<<"a", s>>) = <<>>
       /\ Kept(<<"a", "ctl">>) = <<>>
  BY <1>1, <1>5
<1> QED
  BY <1>3, <1>6, <1>11, <1>12, Zenon

-----------------------------------------------------------------------------
(* The client's account of the body it writes *)

Told(name, file, typed, content) ==
    [name |-> name, file |-> Kept(file), typed |-> Kept(file) # <<>> /\ typed, content |-> content]

Lines(d, typed) == IF typed THEN Header(d) \o <<"CRLF", "CT">> ELSE Header(d)

IsDisposition(d, name, file) ==
    /\ name \in {<<>>, <<"a">>} /\ file \in Filenames
    /\ d \in Texts /\ Without(d, "CRLF") /\ Without(d, "--B")
    /\ NamesIn(Split(d, ";"), name, file)

\* The header lines are open, or the content is.
InHeaders(typed, open, part) ==
    \E name, file, d : /\ IsDisposition(d, name, file)
                       /\ part = Told(name, file, typed, <<>>)
                       /\ open = <<"CRLF">> \o Lines(d, typed)
InContent(open, part) ==
    \E name, file, d : \E typed \in BOOLEAN, content \in Texts :
        /\ IsDisposition(d, name, file) /\ Without(content, "--B")
        /\ part = Told(name, file, typed, content)
        /\ open = <<"CRLF">> \o (Lines(d, typed) \o (<<"CRLF", "CRLF">> \o content))

LEMMA Names ==
    /\ \A name \in {<<>>, <<"a">>} : name \in Texts /\ Without(name, "quote")
    /\ \A file \in Filenames : file \in Texts /\ Without(file, "quote")
<1>1. "a" \in FormLexemes /\ "a" # "quote"
  BY Zenon DEF FormLexemes
<1>2. \A name \in {<<>>, <<"a">>} : name \in Texts /\ Without(name, "quote")
  <2>1. <<>> \in Texts /\ Without(<<>>, "quote") /\ <<"a">> \in Texts /\ Without(<<"a">>, "quote")
    BY <1>1, WithoutOne DEF Texts
  <2> QED
    BY <2>1
<1>3. ASSUME NEW file \in Filenames PROVE file \in Texts /\ Without(file, "quote")
  <2> DEFINE q == "quote"
             s == "/"
             up == ".."
             c == "ctl"
  <2>1. q # s /\ q # up /\ q # c /\ q # "a" /\ q # "b"
    BY Zenon
  <2>2. file \in {<<>>, <<"a">>, <<"a", s, "b">>, <<up>>, <<"a", s, up>>, <<"a", s>>, <<"a", c>>}
    BY Zenon DEF Filenames
  <2> HIDE DEF q, s, up, c
  <2>3. \A i \in 1 .. Len(file) : file[i] # q
    BY <2>1, <2>2
  <2>4. file \in Texts
    BY SanitizeIs
  <2> QED
    BY <2>3, <2>4 DEF Without, q
<1> QED
  BY <1>2, <1>3

LEMMA LinesAre ==
    ASSUME NEW name, NEW file, NEW d, IsDisposition(d, name, file), NEW typed \in BOOLEAN
    PROVE  /\ IsHead(Lines(d, typed), "CRLF")
           /\ Split(Lines(d, typed), "CRLF") = IF typed THEN <<Header(d), <<"CT">>>> ELSE <<Header(d)>>
           /\ Lines(d, typed) \in Texts /\ Without(Lines(d, typed), "--B")
<1> DEFINE e == "CRLF"
           c == "CT"
           k == "CD"
           b == "--B"
           a == <<k>> \o d
<1>1. /\ e \in FormLexemes /\ c \in FormLexemes /\ k \in FormLexemes /\ b \in FormLexemes
      /\ c # e /\ k # e /\ k # b /\ e # b /\ c # b
  BY Zenon DEF FormLexemes
<1>2. d \in Texts /\ Without(d, e) /\ Without(d, b)
  BY DEF IsDisposition
<1>3. Lines(d, typed) = (IF typed THEN a \o <<e, c>> ELSE a) /\ Header(d) = a /\ <<"CT">> = <<c>>
  BY Zenon DEF Lines, Header
<1> HIDE DEF e, c, k, b
<1>4. a \in Texts /\ a # <<>> /\ Without(a, e) /\ Without(a, b)
  <2>1. <<k>> \in Seq(FormLexemes) /\ Without(<<k>>, e) /\ Without(<<k>>, b) /\ d \in Seq(FormLexemes)
    BY <1>1, <1>2, WithoutOne DEF Texts
  <2>2. a \in Seq(FormLexemes) /\ a # <<>>
    BY <1>1, <2>1, FirstAndRest
  <2> QED
    BY <1>2, <2>1, <2>2, WithoutConcat DEF Texts
<1> HIDE DEF a
<1>5. IsHead(a, e) /\ Split(a, e) = <<a>> /\ IsHead(a \o <<e, c>>, e) /\ Split(a \o <<e, c>>, e) = <<a, <<c>>>>
  BY <1>1, <1>4, HeadsAre
<1>6. a \o <<e, c>> \in Texts /\ Without(a \o <<e, c>>, b)
  <2>1. <<e, c>> \in Seq(FormLexemes) /\ Without(<<e, c>>, b)
    <3>1. Len(<<e, c>>) = 2 /\ <<e, c>>[1] = e /\ <<e, c>>[2] = c /\ \A i \in 1 .. 2 : i = 1 \/ i = 2
      OBVIOUS
    <3>2. <<e, c>> \in Seq(FormLexemes)
      BY <1>1
    <3> QED
      BY <1>1, <3>1, <3>2 DEF Without
  <2> DEFINE x == <<e, c>>
  <2> HIDE DEF x
  <2>2. a \o x \in Seq(FormLexemes) /\ Without(a \o x, b)
    BY <1>4, <2>1, ConcatParts, WithoutConcat DEF Texts, x
  <2> QED
    BY <2>2 DEF Texts, x
<1>7. CASE typed
  BY <1>3, <1>5, <1>6, <1>7, Zenon DEF e, b
<1>8. CASE ~typed
  BY <1>3, <1>4, <1>5, <1>8, Zenon DEF e, b
<1> QED
  BY <1>7, <1>8

LEMMA PartWithAll ==
    \A d \in Texts : \A content :
       /\ PartWith(<<Header(d)>>, content)
             = ReadAs(DispositionParam(d, <<"name">>), DispositionParam(d, <<"file", "name">>), FALSE, content)
       /\ PartWith(<<Header(d), <<"CT">>>>, content)
             = ReadAs(DispositionParam(d, <<"name">>), DispositionParam(d, <<"file", "name">>), TRUE, content)
<1>1. ASSUME NEW d \in Texts, NEW content
      PROVE  /\ PartWith(<<Header(d)>>, content)
                   = ReadAs(DispositionParam(d, <<"name">>), DispositionParam(d, <<"file", "name">>), FALSE, content)
             /\ PartWith(<<Header(d), <<"CT">>>>, content)
                   = ReadAs(DispositionParam(d, <<"name">>), DispositionParam(d, <<"file", "name">>), TRUE, content)
  BY PartWithIs, ZenonT(30)
<1> QED
  BY <1>1, Zenon

\* A piece that ends with a part's content is read as the client told it.
LEMMA PieceIsRead ==
    ASSUME NEW open, NEW part, InContent(open, part)
    PROVE  PartOf(open \o <<"CRLF">>) = part
<1>1. PICK name, file, d : \E typed \in BOOLEAN, content \in Texts :
          /\ IsDisposition(d, name, file) /\ Without(content, "--B")
          /\ part = Told(name, file, typed, content)
          /\ open = <<"CRLF">> \o (Lines(d, typed) \o (<<"CRLF", "CRLF">> \o content))
  BY Zenon DEF InContent
<1>2. PICK typed \in BOOLEAN, content \in Texts :
          /\ IsDisposition(d, name, file) /\ Without(content, "--B")
          /\ part = Told(name, file, typed, content)
          /\ open = <<"CRLF">> \o (Lines(d, typed) \o (<<"CRLF", "CRLF">> \o content))
  BY <1>1, Zenon
<1> DEFINE h == Lines(d, typed)
           read == h \o (<<"CRLF", "CRLF">> \o content)
<1>3. IsHead(h, "CRLF") /\ Split(h, "CRLF") = IF typed THEN <<Header(d), <<"CT">>>> ELSE <<Header(d)>>
  BY <1>2, LinesAre
<1>4. "CRLF" \in FormLexemes
  BY Zenon DEF FormLexemes
<1> HIDE DEF h
<1>5. read \in Texts
  BY <1>3, <1>4, BlankLineCuts
<1>6. ParsePart(read) = PartWith(Split(h, "CRLF"), content)
  BY <1>3, ParsePartIs
<1>7. PartOf(open \o <<"CRLF">>) = ParsePart(read)
  <2> HIDE DEF read
  <2>1. open = <<"CRLF">> \o read
    BY <1>2 DEF read, h
  <2>2. <<"CRLF">> \in Texts
    BY <1>4 DEF Texts
  <2>3. (<<"CRLF">> \o read) \o <<"CRLF">> = <<"CRLF">> \o (read \o <<"CRLF">>)
    BY <1>5, <2>2, Associative DEF Texts
  <2> QED
    BY <1>5, <2>1, <2>3, PartOfIs
<1>8. name \in Texts /\ Without(name, "quote") /\ file \in Texts /\ Without(file, "quote")
      /\ d \in Texts /\ SanitizeFilename(file) = Kept(file)
  BY <1>2, Names, SanitizeIs, Zenon DEF IsDisposition
<1>9. DispositionParam(d, <<"name">>) = name /\ DispositionParam(d, <<"file", "name">>) = file
  BY <1>2, <1>8, DispositionIsRead, Zenon DEF IsDisposition
<1>10. /\ PartWith(<<Header(d)>>, content) = ReadAs(name, file, FALSE, content)
       /\ PartWith(<<Header(d), <<"CT">>>>, content) = ReadAs(name, file, TRUE, content)
  <2>1. /\ PartWith(<<Header(d)>>, content)
              = ReadAs(DispositionParam(d, <<"name">>), DispositionParam(d, <<"file", "name">>), FALSE, content)
        /\ PartWith(<<Header(d), <<"CT">>>>, content)
              = ReadAs(DispositionParam(d, <<"name">>), DispositionParam(d, <<"file", "name">>), TRUE, content)
    BY <1>8, PartWithAll, Zenon
  <2> QED
    BY <1>9, <2>1, Zenon
<1>11. ReadAs(name, file, typed, content) = part
  BY <1>2, <1>8, Zenon DEF ReadAs, Told
<1>12. PartWith(Split(h, "CRLF"), content) = ReadAs(name, file, typed, content)
  BY <1>3, <1>10, Zenon
<1> QED
  BY <1>6, <1>7, <1>11, <1>12, Zenon

-----------------------------------------------------------------------------
(* A multipart body so far *)

Marker == "--B"

LEMMA Marks ==
    /\ Marker \in FormLexemes /\ "CRLF" \in FormLexemes /\ "CT" \in FormLexemes /\ "CD" \in FormLexemes
    /\ "--" \in FormLexemes /\ "x" \in FormLexemes /\ "LF" \in FormLexemes
    /\ Marker # "CRLF" /\ Marker # "CT" /\ Marker # "CD" /\ Marker # "--" /\ Marker # "x" /\ Marker # "LF"
    /\ "--" # "CRLF" /\ "--" # "x"
BY Zenon DEF FormLexemes, Marker

LEMMA AssociativeTexts == \A a, b, c \in Texts : a \o b \in Texts /\ (a \o b) \o c = a \o (b \o c)
BY SMT DEF Texts

LEMMA FourTexts ==
    ASSUME NEW a \in Texts, NEW b \in Texts, NEW c \in Texts, NEW d \in Texts
    PROVE  /\ b \o c \in Texts /\ a \o (b \o c) \in Texts /\ b \o (c \o d) \in Texts
           /\ (a \o (b \o c)) \o d = a \o (b \o (c \o d))
BY SMT DEF Texts

LEMMA AppendAndMore ==
    ASSUME NEW S, NEW ps \in Seq(S), NEW s \in S, NEW r \in Seq(S)
    PROVE  Append(ps, s) \o r = ps \o (<<s>> \o r)
BY SMT

LEMMA PiecesAndMore ==
    \A ps \in Seq(Texts), s \in Texts, r \in Seq(Texts) : Append(ps, s) \o r = ps \o (<<s>> \o r)
<1>1. ASSUME NEW ps \in Seq(Texts), NEW s \in Texts, NEW r \in Seq(Texts)
      PROVE  Append(ps, s) \o r = ps \o (<<s>> \o r)
  BY AppendAndMore
<1> QED
  BY <1>1, Zenon

\* What was sent up to the last delimiter is cut into ps, whatever follows.
Cut(sent, ps) == \A t \in Texts : Split(sent \o t, Marker) = ps \o Split(t, Marker)

LEMMA CutGrows ==
    ASSUME NEW sent \in Texts, NEW ps \in Seq(Texts), Cut(sent, ps), NEW s \in Texts, Without(s, Marker)
    PROVE  sent \o (s \o <<Marker>>) \in Texts /\ Cut(sent \o (s \o <<Marker>>), Append(ps, s))
<1> DEFINE m == <<Marker>>
<1>1. m \in Texts
  BY Marks DEF Texts
<1> HIDE DEF m
<1>2. sent \o (s \o m) \in Texts
  BY <1>1, FourTexts
<1>3. ASSUME NEW t \in Texts PROVE Split((sent \o (s \o m)) \o t, Marker) = Append(ps, s) \o Split(t, Marker)
  <2>1. s \o (m \o t) \in Texts /\ (sent \o (s \o m)) \o t = sent \o (s \o (m \o t))
    BY <1>1, SMTT(20) DEF Texts
  <2>2. Split(sent \o (s \o (m \o t)), Marker) = ps \o Split(s \o (m \o t), Marker)
    BY <2>1 DEF Cut
  <2>3. Split(s \o (m \o t), Marker) = <<s>> \o Split(t, Marker)
    BY Marks, SplitAt DEF m
  <2> DEFINE r == Split(t, Marker)
  <2>4. r \in Seq(Texts)
    BY SplitIs
  <2> HIDE DEF r
  <2>5. Append(ps, s) \o r = ps \o (<<s>> \o r)
    BY <2>4, PiecesAndMore, Zenon
  <2> QED
    BY <2>1, <2>2, <2>3, <2>5, Zenon DEF r
<1> QED
  BY <1>2, <1>3 DEF Cut, m

\* Nothing is cut before anything was sent.
LEMMA CutNothing == Cut(<<>>, <<>>)
<1>1. ASSUME NEW t \in Texts PROVE Split(<<>> \o t, Marker) = <<>> \o Split(t, Marker)
  <2>1. Split(t, Marker) \in Seq(Texts)
    BY SplitIs
  <2> QED
    BY <2>1, Associative DEF Texts
<1> QED
  BY <1>1 DEF Cut

\* A header section and a part under way hold no delimiter.
LEMMA HeadersText ==
    ASSUME NEW typed \in BOOLEAN, NEW open, NEW part, InHeaders(typed, open, part)
    PROVE  open \in Texts /\ Without(open, Marker)
<1>1. PICK name, file, d : IsDisposition(d, name, file) /\ open = <<"CRLF">> \o Lines(d, typed)
  BY Zenon DEF InHeaders
<1> DEFINE h == Lines(d, typed)
<1>2. h \in Texts /\ Without(h, Marker) /\ open = <<"CRLF">> \o h
  BY <1>1, LinesAre DEF Marker
<1> HIDE DEF h
<1>3. <<"CRLF">> \in Texts /\ Without(<<"CRLF">>, Marker)
  BY Marks, WithoutOne DEF Texts
<1> QED
  BY <1>2, <1>3, ConcatParts, WithoutConcat DEF Texts

LEMMA ContentText ==
    ASSUME NEW open, NEW part, InContent(open, part)
    PROVE  open \in Texts /\ Without(open, Marker) /\ open[1] = "CRLF"
<1>1. PICK name, file, d : \E typed \in BOOLEAN, content \in Texts :
          /\ IsDisposition(d, name, file) /\ Without(content, "--B")
          /\ open = <<"CRLF">> \o (Lines(d, typed) \o (<<"CRLF", "CRLF">> \o content))
  BY Zenon DEF InContent
<1>2. PICK typed \in BOOLEAN, content \in Texts :
          /\ IsDisposition(d, name, file) /\ Without(content, "--B")
          /\ open = <<"CRLF">> \o (Lines(d, typed) \o (<<"CRLF", "CRLF">> \o content))
  BY <1>1, Zenon
<1> DEFINE e == "CRLF"
           h == Lines(d, typed)
           ee == <<e, e>>
           tail == ee \o content
           all == h \o tail
<1>3. h \in Texts /\ Without(h, Marker) /\ content \in Texts /\ Without(content, Marker)
      /\ open = <<e>> \o all
  BY <1>2, LinesAre DEF Marker
<1>4. e \in FormLexemes /\ e # Marker
  BY Marks
<1> HIDE DEF e, h
<1>5. ee \in Texts /\ Without(ee, Marker)
  <2>1. Len(ee) = 2 /\ ee[1] = e /\ ee[2] = e /\ \A i \in 1 .. 2 : i = 1 \/ i = 2
    OBVIOUS
  <2> QED
    BY <1>4, <2>1 DEF Without, Texts
<1> HIDE DEF ee
<1>6. tail \in Texts /\ Without(tail, Marker)
  BY <1>3, <1>5, ConcatParts, WithoutConcat DEF Texts
<1> HIDE DEF tail
<1>7. all \in Texts /\ Without(all, Marker)
  BY <1>3, <1>6, ConcatParts, WithoutConcat DEF Texts
<1> HIDE DEF all
<1>8. <<e>> \in Texts /\ Without(<<e>>, Marker)
  BY <1>4, WithoutOne DEF Texts
<1>9. open \in Texts /\ Without(open, Marker)
  BY <1>3, <1>7, <1>8, ConcatParts, WithoutConcat DEF Texts
<1>10. open[1] = e
  BY <1>3, <1>4, <1>7, FirstAndRest DEF Texts
<1> QED
  BY <1>9, <1>10 DEF e

\* The pieces of what was sent hold the finished parts, and the client is still
\* writing the rest.
Sent(sent, ps, parts) ==
    /\ sent \in Texts /\ ps \in Seq(Texts) /\ Cut(sent, ps) /\ PartsIn(ps) = parts
    /\ \A k \in 2 .. Len(ps) : ~LedBy(ps[k], "--")

Behind(open) == open = <<"--">> \/ (LedBy(Split(open, Marker)[1], "--") /\ Last(open) # "--")

Writes(at, part, ps, open) ==
    \/ at = "preamble" /\ ps = <<>> /\ open \in {<<>>, <<"x">>}
    \/ at = "part" /\ ps # <<>> /\ open = <<>>
    \/ at = "headers" /\ ps # <<>> /\ InHeaders(FALSE, open, part)
    \/ at = "typed" /\ ps # <<>> /\ InHeaders(TRUE, open, part)
    \/ at = "content" /\ ps # <<>> /\ InContent(open, part)
    \/ at = "epilogue" /\ ps # <<>> /\ open \in Texts /\ Behind(open)

\* The body is what was sent and what is being written.
BodyInv ==
    \E sent, ps, open : /\ form = sent \o open /\ Sent(sent, ps, done)
                        /\ Writes(place, current, ps, open)

LEMMA Dashes == <<"--">> \in Texts /\ Without(<<"--">>, Marker) /\ Split(<<"--">>, Marker) = <<<<"--">>>>
<1>1. <<"--">> \in Texts /\ Without(<<"--">>, Marker)
  BY Marks, WithoutOne DEF Texts
<1> QED
  BY <1>1, Marks, SplitAt

\* What is being written is one piece, unless the final delimiter has been sent.
LEMMA OpenPieces ==
    ASSUME NEW at, NEW part, NEW ps, NEW open, Writes(at, part, ps, open)
    PROVE  /\ open \in Texts /\ Split(open, Marker) # <<>> /\ Split(open, Marker) \in Seq(Texts)
           /\ \/ Len(Split(open, Marker)) = 1
              \/ ps # <<>> /\ LedBy(Split(open, Marker)[1], "--")
<1>1. ASSUME open \in Texts, Without(open, Marker)
      PROVE  Len(Split(open, Marker)) = 1 /\ open \in Texts
  <2>1. Split(open, Marker) = <<open>> /\ Len(<<open>>) = 1
    BY <1>1, Marks, SplitAt
  <2> QED
    BY <1>1, <2>1
<1>2. <<>> \in Texts /\ <<"x">> \in Texts /\ Without(<<>>, Marker) /\ Without(<<"x">>, Marker)
  BY Marks, WithoutOne DEF Texts
<1>3. ASSUME open \in {<<>>, <<"x">>}
      PROVE  Len(Split(open, Marker)) = 1 /\ open \in Texts
  BY <1>1, <1>2, <1>3
<1>4. ASSUME NEW typed \in BOOLEAN, InHeaders(typed, open, part)
      PROVE  Len(Split(open, Marker)) = 1 /\ open \in Texts
  BY <1>1, <1>4, HeadersText
<1>5. ASSUME InContent(open, part)
      PROVE  Len(Split(open, Marker)) = 1 /\ open \in Texts
  BY <1>1, <1>5, ContentText
<1>6. ASSUME ps # <<>>, open \in Texts, Behind(open)
      PROVE  Len(Split(open, Marker)) = 1 \/ (ps # <<>> /\ LedBy(Split(open, Marker)[1], "--"))
  <2>1. CASE open = <<"--">>
    <3>1. Split(open, Marker) = <<<<"--">>>>
      BY <2>1, Dashes, Zenon
    <3>2. Len(<<<<"--">>>>) = 1
      OBVIOUS
    <3> QED
      BY <3>1, <3>2, Zenon
  <2>2. CASE LedBy(Split(open, Marker)[1], "--")
    BY <1>6, <2>2
  <2> QED
    BY <1>6, <2>1, <2>2 DEF Behind
<1>7. open \in Texts /\ (Len(Split(open, Marker)) = 1 \/ (ps # <<>> /\ LedBy(Split(open, Marker)[1], "--")))
  <2>1. /\ InHeaders(FALSE, open, part) => Len(Split(open, Marker)) = 1 /\ open \in Texts
        /\ InHeaders(TRUE, open, part) => Len(Split(open, Marker)) = 1 /\ open \in Texts
    BY <1>4
  <2>2. \/ open \in {<<>>, <<"x">>} \/ InHeaders(FALSE, open, part) \/ InHeaders(TRUE, open, part)
        \/ InContent(open, part) \/ (ps # <<>> /\ open \in Texts /\ Behind(open))
    BY Zenon DEF Writes
  <2> QED
    BY <1>3, <1>5, <1>6, <2>1, <2>2, Zenon
<1>8. Split(open, Marker) \in Seq(Texts) /\ Split(open, Marker) # <<>>
  <2> DEFINE p == Piece(open, Marker)
             r == Split(Rest(open, Len(p) + 1), Marker)
  <2>1. Split(open, Marker) \in Seq(Texts) /\ Split(open, Marker) = IF p = open THEN <<open>> ELSE <<p>> \o r
    BY <1>7, SplitIs
  <2>2. p \in Texts /\ (p # open => p # open /\ r \in Seq(Texts))
    <3>1. p \in Texts /\ Len(p) + 1 \in Nat
      BY <1>7, PieceOf, LenProperties DEF Texts
    <3>2. Rest(open, Len(p) + 1) \in Texts
      BY <1>7, <3>1, RestType DEF Texts
    <3> QED
      BY <3>1, <3>2, SplitIs
  <2> HIDE DEF p, r
  <2>3. p # open => <<p>> \o r # <<>>
    BY <2>2, FirstAndRest
  <2>4. <<open>> # <<>>
    OBVIOUS
  <2> QED
    BY <2>1, <2>3, <2>4
<1> QED
  BY <1>7, <1>8

LEMMA BodySplitNow == BodyInv => MultipartIsSplit
<1>1. SUFFICES ASSUME BodyInv PROVE PartsOf(Split(form, Marker)) = done
  BY Zenon DEF MultipartIsSplit, ParseMultipart, Marker
<1>2. PICK sent, ps, open : form = sent \o open /\ Sent(sent, ps, done) /\ Writes(place, current, ps, open)
  BY <1>1, Zenon DEF BodyInv
<1> DEFINE rest == Split(open, Marker)
<1>3. /\ open \in Texts /\ rest # <<>> /\ rest \in Seq(Texts)
      /\ Len(rest) = 1 \/ (ps # <<>> /\ LedBy(rest[1], "--"))
  BY <1>2, OpenPieces
<1>4. /\ ps \in Seq(Texts) /\ PartsIn(ps) = done /\ \A k \in 2 .. Len(ps) : ~LedBy(ps[k], "--")
  BY <1>2 DEF Sent
<1>5. Split(form, Marker) = ps \o rest
  BY <1>2, <1>3 DEF Sent, Cut
<1> HIDE DEF rest
<1>6. PartsOf(ps \o rest) = PartsIn(ps)
  BY <1>3, <1>4, PartsOfIs
<1> QED
  BY <1>4, <1>5, <1>6

LEMMA BodyStarts == BodyInit => BodyInv
<1>1. SUFFICES ASSUME BodyInit PROVE BodyInv
  OBVIOUS
<1>2. form = <<>> \o <<>> /\ place = "preamble" /\ done = <<>>
  BY <1>1 DEF BodyInit
<1>3. Sent(<<>>, <<>>, done)
  <2>1. <<>> \in Texts /\ <<>> \in Seq(Texts) /\ Len(<<>>) = 0
    BY DEF Texts
  <2> QED
    BY <1>2, <2>1, CutNothing, PartsInOne DEF Sent
<1>4. Writes(place, current, <<>>, <<>>)
  BY <1>2, Zenon DEF Writes
<1> QED
  BY <1>2, <1>3, <1>4, Zenon DEF BodyInv

-----------------------------------------------------------------------------
(* What a step adds to a body *)

LEMMA WritesOn ==
    ASSUME NEW sent, NEW ps, NEW open \in Texts, form = sent \o open, Sent(sent, ps, done),
           NEW x \in Texts, Write(x), done' = done, Writes(place', current', ps, open \o x)
    PROVE  BodyInv'
<1>1. sent \in Texts
  BY DEF Sent
<1>2. form' = (sent \o open) \o x
  BY DEF Write
<1>3. form' = sent \o (open \o x)
  BY <1>1, <1>2, SMTT(20) DEF Texts
<1>4. Sent(sent, ps, done')
  OBVIOUS
<1> QED
  BY <1>3, <1>4, Zenon DEF BodyInv

\* A delimiter ends the piece that is being written.
LEMMA SendsOn ==
    ASSUME NEW sent, NEW ps, NEW open \in Texts, form = sent \o open, Sent(sent, ps, done),
           NEW s \in Texts, Without(s, Marker), ps = <<>> \/ ~LedBy(s, "--"),
           form' = sent \o (s \o <<Marker>>), place' = "part",
           done' = WithPiece(Len(ps) + 1, s, done)
    PROVE  BodyInv'
<1> DEFINE qs == Append(ps, s)
           front == sent \o (s \o <<Marker>>)
<1>1. /\ sent \in Texts /\ ps \in Seq(Texts) /\ Cut(sent, ps) /\ PartsIn(ps) = done
      /\ \A k \in 2 .. Len(ps) : ~LedBy(ps[k], "--")
  BY DEF Sent
<1>2. front \in Texts /\ Cut(front, qs)
  BY <1>1, CutGrows
<1>3. PartsIn(qs) = done'
  BY <1>1, PartsInMore
<1>4. qs \in Seq(Texts) /\ qs # <<>>
  <2>1. qs \in Seq(Texts) /\ Len(qs) = Len(ps) + 1 /\ Len(ps) \in Nat
    BY <1>1, AppendProperties, LenProperties
  <2>2. Len(qs) # 0 /\ Len(<<>>) = 0
    BY <2>1
  <2> HIDE DEF qs
  <2> QED
    BY <2>1, <2>2
<1>5. ASSUME NEW k \in 2 .. Len(qs) PROVE ~LedBy(qs[k], "--")
  <2>1. Len(ps) \in Nat /\ Len(qs) = Len(ps) + 1 /\ qs[Len(ps) + 1] = s
        /\ \A i \in 1 .. Len(ps) : qs[i] = ps[i]
    BY <1>1, AppendProperties, LenProperties
  <2>2. ps = <<>> => Len(ps) = 0
    OBVIOUS
  <2> HIDE DEF qs
  <2>3. CASE k = Len(ps) + 1
    <3>1. ps # <<>>
      BY <2>1, <2>2, <2>3
    <3> QED
      BY <2>1, <2>3, <3>1
  <2>4. CASE k # Len(ps) + 1
    <3>1. k \in 2 .. Len(ps) /\ k \in 1 .. Len(ps)
      BY <2>1, <2>4
    <3> QED
      BY <1>1, <2>1, <3>1
  <2> QED
    BY <2>3, <2>4
<1> HIDE DEF qs
<1>6. Sent(front, qs, done')
  BY <1>2, <1>3, <1>4, <1>5 DEF Sent
<1>7. form' = front \o <<>>
  <2>1. front \in Seq(FormLexemes) /\ form' = front
    BY <1>2 DEF Texts
  <2> HIDE DEF front
  <2> QED
    BY <2>1
<1>8. Writes(place', current', qs, <<>>)
  BY <1>4, Zenon DEF Writes
<1> QED
  BY <1>6, <1>7, <1>8, Zenon DEF BodyInv

-----------------------------------------------------------------------------
(* The disposition a client writes *)

LEMMA NamesWithout ==
    ASSUME NEW c, c # "a", c # "b", c # "/", c # "..", c # "ctl"
    PROVE  /\ \A name \in {<<>>, <<"a">>} : Without(name, c)
           /\ \A file \in Filenames : Without(file, c)
<1>1. \A name \in {<<>>, <<"a">>} : Without(name, c)
  <2>1. Without(<<>>, c) /\ Without(<<"a">>, c)
    BY WithoutOne
  <2> QED
    BY <2>1
<1>2. ASSUME NEW file \in Filenames PROVE Without(file, c)
  <2> DEFINE s == "/"
             up == ".."
             k == "ctl"
  <2>1. c # s /\ c # up /\ c # k /\ c # "a" /\ c # "b"
    BY Zenon
  <2>2. file \in {<<>>, <<"a">>, <<"a", s, "b">>, <<up>>, <<"a", s, up>>, <<"a", s>>, <<"a", k>>}
    BY Zenon DEF Filenames
  <2> HIDE DEF s, up, k
  <2>3. \A i \in 1 .. Len(file) : file[i] # c
    BY <2>1, <2>2
  <2> QED
    BY <2>3 DEF Without
<1> QED
  BY <1>1, <1>2

LEMMA QuotedWithout ==
    ASSUME NEW q \in FormLexemes, NEW key \in Texts, NEW value \in Texts,
           NEW c, c # q, Without(key, c), Without(value, c)
    PROVE  Without(Quoted(key, q, value), c)
<1> DEFINE one == <<q>>
<1>1. one \in Texts /\ Without(one, c)
  BY WithoutOne DEF Texts
<1> HIDE DEF one
<1> DEFINE v == value \o one
<1>2. v \in Texts /\ Without(v, c)
  BY <1>1, ConcatParts, WithoutConcat DEF Texts
<1> HIDE DEF v
<1> DEFINE w == one \o v
<1>3. w \in Texts /\ Without(w, c)
  BY <1>1, <1>2, ConcatParts, WithoutConcat DEF Texts
<1> HIDE DEF w
<1>4. Without(key \o w, c)
  BY <1>3, WithoutConcat DEF Texts
<1> QED
  BY <1>4, Zenon DEF Quoted, w, v, one

LEMMA ParamsWithout ==
    ASSUME NEW name \in {<<>>, <<"a">>}, NEW file \in Filenames,
           NEW c, c # "a", c # "b", c # "/", c # "..", c # "ctl", c # "name", c # "file", c # "quote"
    PROVE  /\ Without(Named(name), c) /\ Without(Filed(file), c)
           /\ Named(name) \in Texts /\ Filed(file) \in Texts
<1>1. name \in Texts /\ file \in Texts /\ Without(name, c) /\ Without(file, c)
  BY Names, NamesWithout
<1>2. Without(NameKey, c) /\ Without(FileKey, c)
  <2>1. Len(FileKey) = 2 /\ FileKey[1] = "file" /\ FileKey[2] = "name" /\ Len(NameKey) = 1 /\ NameKey[1] = "name"
        /\ \A i \in 1 .. 2 : i = 1 \/ i = 2
    BY DEF FileKey, NameKey
  <2> QED
    BY <2>1 DEF Without
<1> QED
  BY <1>1, <1>2, Keys, QuotedWithout, OtherKeys DEF Named, Filed

Glue(a, b) == a \o b

LEMMA GlueOn == \A a, b, c \in Texts : Glue(a, b) \in Texts /\ Glue(Glue(a, b), c) = Glue(a, Glue(b, c))
BY AssociativeTexts, Zenon DEF Glue

NamedShape(a, b, q, v) == (<<a, b, q>> \o v) \o <<q>> = <<a>> \o Quoted(<<b>>, q, v)
FiledShape(a, b, c, q, v) == (<<a, b, c, q>> \o v) \o <<q>> = <<a>> \o Quoted(<<b, c>>, q, v)
LineShape(e, k, a, m, n) ==
    /\ <<e, k>> \o (<<a>> \o m) = <<e>> \o (<<k>> \o (<<a>> \o m))
    /\ (<<e, k>> \o (<<a>> \o m)) \o (<<a>> \o n) = <<e>> \o (<<k>> \o (<<a>> \o (m \o (<<a>> \o n))))
    /\ <<a>> \o m \in Texts /\ <<a>> \o (m \o (<<a>> \o n)) \in Texts

LEMMA NamedForm ==
    ASSUME NEW a \in FormLexemes, NEW b \in FormLexemes, NEW q \in FormLexemes, NEW v \in Texts
    PROVE  NamedShape(a, b, q, v)
<1> DEFINE A == <<a>>
           B == <<b>>
           Q == <<q>>
<1>1. <<a, b, q>> = A \o (B \o Q)
  <2>1. B \o Q = <<b, q>> /\ A \o <<b, q>> = <<a, b, q>>
    BY Tuples
  <2> QED
    BY <2>1, Zenon
<1>2. A \in Texts /\ B \in Texts /\ Q \in Texts
  BY DEF Texts
<1> HIDE DEF A, B, Q
<1>3. ((A \o (B \o Q)) \o v) \o Q = A \o (B \o (Q \o (v \o Q)))
  <2>1. Glue(Glue(Glue(A, Glue(B, Q)), v), Q) = Glue(A, Glue(B, Glue(Q, Glue(v, Q))))
    BY <1>2, GlueOn
  <2> QED
    BY <2>1, Zenon DEF Glue
<1>4. (<<a, b, q>> \o v) \o Q = A \o Quoted(B, q, v)
  BY <1>1, <1>3, Zenon DEF Quoted, Q
<1> QED
  BY <1>4, Zenon DEF A, B, Q, NamedShape

LEMMA FiledForm ==
    ASSUME NEW a \in FormLexemes, NEW b \in FormLexemes, NEW c \in FormLexemes, NEW q \in FormLexemes,
           NEW v \in Texts
    PROVE  FiledShape(a, b, c, q, v)
<1> DEFINE A == <<a>>
           B == <<b>>
           C == <<c>>
           Q == <<q>>
<1>1. <<a, b, c, q>> = A \o (B \o (C \o Q)) /\ <<b, c>> = B \o C
  <2>1. C \o Q = <<c, q>> /\ B \o <<c, q>> = <<b, c, q>> /\ B \o C = <<b, c>>
    BY Tuples
  <2>2. A \o <<b, c, q>> = <<a, b, c, q>>
    BY TupleOfFour
  <2> QED
    BY <2>1, <2>2, Zenon
<1>2. A \in Texts /\ B \in Texts /\ C \in Texts /\ Q \in Texts
  BY DEF Texts
<1> HIDE DEF A, B, C, Q
<1>3. ((A \o (B \o (C \o Q))) \o v) \o Q = A \o ((B \o C) \o (Q \o (v \o Q)))
  <2> DEFINE D == Glue(B, C)
  <2>1. D \in Texts /\ Glue(B, Glue(C, Q)) = Glue(D, Q)
    BY <1>2, GlueOn
  <2> HIDE DEF D
  <2>2. Glue(Glue(Glue(A, Glue(D, Q)), v), Q) = Glue(A, Glue(D, Glue(Q, Glue(v, Q))))
    BY <1>2, <2>1, GlueOn
  <2>3. Glue(Glue(Glue(A, Glue(B, Glue(C, Q))), v), Q) = Glue(A, Glue(D, Glue(Q, Glue(v, Q))))
    BY <2>1, <2>2, Zenon
  <2> QED
    BY <2>3, Zenon DEF Glue, D
<1>4. (<<a, b, c, q>> \o v) \o Q = A \o Quoted(<<b, c>>, q, v)
  BY <1>1, <1>3, Zenon DEF Quoted, Q
<1> QED
  BY <1>4, Zenon DEF A, Q, FiledShape

LEMMA LineForms ==
    ASSUME NEW e \in FormLexemes, NEW k \in FormLexemes, NEW a \in FormLexemes,
           NEW m \in Texts, NEW n \in Texts
    PROVE  LineShape(e, k, a, m, n)
<1> DEFINE E == <<e>>
           K == <<k>>
           A == <<a>>
<1>1. <<e, k>> = E \o K
  BY Tuples
<1>2. E \in Texts /\ K \in Texts /\ A \in Texts
  BY DEF Texts
<1> HIDE DEF E, K, A
<1>3. (E \o K) \o (A \o m) = E \o (K \o (A \o m))
  <2>1. Glue(Glue(E, K), Glue(A, m)) = Glue(E, Glue(K, Glue(A, m)))
    BY <1>2, GlueOn
  <2> QED
    BY <2>1, Zenon DEF Glue
<1>4. ((E \o K) \o (A \o m)) \o (A \o n) = E \o (K \o (A \o (m \o (A \o n))))
  <2>1. Glue(Glue(Glue(E, K), Glue(A, m)), Glue(A, n)) = Glue(E, Glue(K, Glue(A, Glue(m, Glue(A, n)))))
    BY <1>2, GlueOn
  <2> QED
    BY <2>1, Zenon DEF Glue
<1>5. A \o m \in Texts /\ A \o (m \o (A \o n)) \in Texts
  <2>1. Glue(A, m) \in Texts /\ Glue(A, Glue(m, Glue(A, n))) \in Texts
    BY <1>2, GlueOn
  <2> QED
    BY <2>1, Zenon DEF Glue
<1> QED
  BY <1>1, <1>3, <1>4, <1>5, Zenon DEF E, K, A, LineShape

\* The lexemes of each form of a disposition, the header line they make up.
NamedAs(name) == (<<";", "name", "quote">> \o name) \o <<"quote">>
FiledAs(file) == (<<";", "file", "name", "quote">> \o file) \o <<"quote">>
DispositionForms(name, file) ==
    IF file = <<>> THEN {<<"CRLF", "CD">> \o NamedAs(name)}
    ELSE {(<<"CRLF", "CD">> \o NamedAs(name)) \o FiledAs(file), (<<"CRLF", "CD">> \o FiledAs(file)) \o NamedAs(name)}

LEMMA WrittenDisposition ==
    ASSUME NEW name \in {<<>>, <<"a">>}, NEW file \in Filenames,
           NEW x, x \in DispositionForms(name, file)
    PROVE  \E d : IsDisposition(d, name, file) /\ x = <<"CRLF">> \o Header(d)
<1> DEFINE s == ";"
           e == "CRLF"
           k == "CD"
           q == "quote"
           N == Named(name)
           F == Filed(file)
<1>1. /\ s \in FormLexemes /\ e \in FormLexemes /\ k \in FormLexemes /\ q \in FormLexemes
      /\ "name" \in FormLexemes /\ "file" \in FormLexemes /\ Marker \in FormLexemes
      /\ s # e /\ s # Marker /\ e # Marker
  BY Zenon DEF FormLexemes, Marker
<1>2. name \in Texts /\ file \in Texts
  BY Names
<1>3. /\ Without(N, s) /\ Without(F, s) /\ N \in Texts /\ F \in Texts
      /\ Without(N, e) /\ Without(F, e) /\ Without(N, Marker) /\ Without(F, Marker)
  <2>1. ASSUME NEW c \in {s, e, Marker}
        PROVE  c # "a" /\ c # "b" /\ c # "/" /\ c # ".." /\ c # "ctl" /\ c # "name" /\ c # "file" /\ c # "quote"
    BY Zenon DEF Marker
  <2>2. \A c \in {s, e, Marker} : Without(N, c) /\ Without(F, c) /\ N \in Texts /\ F \in Texts
    BY <2>1, ParamsWithout, Zenon
  <2> QED
    BY <2>2, Zenon
<1>4. NamedAs(name) = (<<s, "name", q>> \o name) \o <<q>> /\ FiledAs(file) = (<<s, "file", "name", q>> \o file) \o <<q>>
  BY Zenon DEF NamedAs, FiledAs
<1>5. N = Quoted(<<"name">>, q, name) /\ F = Quoted(<<"file", "name">>, q, file)
  BY Zenon DEF Named, Filed, NameKey, FileKey
<1>6. x \in IF file = <<>> THEN {<<e, k>> \o NamedAs(name)}
            ELSE {(<<e, k>> \o NamedAs(name)) \o FiledAs(file), (<<e, k>> \o FiledAs(file)) \o NamedAs(name)}
  BY Zenon DEF DispositionForms
<1>7. \A d : Header(d) = <<k>> \o d
  BY Zenon DEF Header
<1>8. \A d : /\ d \in Texts /\ Without(d, e) /\ Without(d, Marker)
             /\ \/ Split(d, s) = <<<<>>, N>> /\ file = <<>>
                \/ Split(d, s) = <<<<>>, N, F>>
                \/ Split(d, s) = <<<<>>, F, N>>
             => IsDisposition(d, name, file)
  BY Zenon DEF IsDisposition, NamesIn, Marker
<1> HIDE DEF s, e, k, q, N, F
<1>9. NamedAs(name) = <<s>> \o N /\ FiledAs(file) = <<s>> \o F
  <2> DEFINE n == "name"
             f == "file"
  <2>1. n \in FormLexemes /\ f \in FormLexemes
    BY <1>1
  <2> HIDE DEF n, f
  <2>2. NamedShape(s, n, q, name) /\ FiledShape(s, f, n, q, file)
    BY <1>1, <1>2, <2>1, NamedForm, FiledForm
  <2> QED
    BY <1>4, <1>5, <2>2, Zenon DEF NamedShape, FiledShape, n, f
<1>10. <<s>> \in Texts /\ Without(<<s>>, e) /\ Without(<<s>>, Marker)
  BY <1>1, WithoutOne DEF Texts
<1> DEFINE Short(m) == <<s>> \o m
           Long(m, n) == <<s>> \o (m \o (<<s>> \o n))
<1>11. ASSUME NEW m \in Texts, NEW c, Without(m, c), Without(<<s>>, c) PROVE Without(Short(m), c)
  BY <1>10, <1>11, WithoutConcat DEF Texts
<1>12. ASSUME NEW m \in Texts, NEW n \in Texts, NEW c, Without(m, c), Without(n, c), Without(<<s>>, c)
       PROVE Without(Long(m, n), c)
  <2> DEFINE u == <<s>> \o n
             v == m \o u
  <2>1. u \in Texts /\ Without(u, c)
    BY <1>1, <1>10, <1>12, WithoutConcat, FirstAndRest DEF Texts
  <2> HIDE DEF u
  <2>2. v \in Texts /\ Without(v, c)
    BY <1>12, <2>1, WithoutConcat, ConcatParts DEF Texts
  <2> HIDE DEF v
  <2>3. Without(<<s>> \o v, c)
    BY <1>10, <1>12, <2>2, WithoutConcat DEF Texts
  <2> QED
    BY <2>3 DEF v, u
<1>13. ASSUME NEW m \in Texts, NEW n \in Texts, Without(m, s), Without(n, s), Without(m, e), Without(n, e),
              Without(m, Marker), Without(n, Marker)
       PROVE  /\ Short(m) \in Texts /\ Long(m, n) \in Texts
              /\ Without(Short(m), e) /\ Without(Short(m), Marker)
              /\ Without(Long(m, n), e) /\ Without(Long(m, n), Marker)
              /\ Split(Short(m), s) = <<<<>>, m>> /\ Split(Long(m, n), s) = <<<<>>, m, n>>
              /\ <<e, k>> \o Short(m) = <<e>> \o (<<k>> \o Short(m))
              /\ (<<e, k>> \o Short(m)) \o Short(n) = <<e>> \o (<<k>> \o Long(m, n))
  <2>1. /\ <<e, k>> \o Short(m) = <<e>> \o (<<k>> \o Short(m))
        /\ (<<e, k>> \o Short(m)) \o Short(n) = <<e>> \o (<<k>> \o Long(m, n))
        /\ Short(m) \in Texts /\ Long(m, n) \in Texts
    <3>1. LineShape(e, k, s, m, n)
      BY <1>1, LineForms
    <3> QED
      BY <3>1, Zenon DEF LineShape
  <2>2. Split(Short(m), s) = <<<<>>, m>> /\ Split(Long(m, n), s) = <<<<>>, m, n>>
    BY <1>1, <1>13, SplitParams
  <2>3. Without(Short(m), e) /\ Without(Short(m), Marker) /\ Without(Long(m, n), e) /\ Without(Long(m, n), Marker)
    <3> HIDE DEF Short, Long
    <3> QED
      BY <1>10, <1>11, <1>12, <1>13
  <2> QED
    BY <2>1, <2>2, <2>3
<1>14. NamedAs(name) = Short(N) /\ FiledAs(file) = Short(F)
  BY <1>9
<1> HIDE DEF Short, Long
<1>15. CASE file = <<>>
  <2>1. x = <<e>> \o (<<k>> \o Short(N))
    BY <1>3, <1>6, <1>13, <1>14, <1>15, Zenon
  <2>2. IsDisposition(Short(N), name, file)
    BY <1>3, <1>8, <1>13, <1>15, Zenon
  <2> QED
    BY <1>7, <2>1, <2>2, Zenon DEF e
<1>16. CASE file # <<>> /\ x = (<<e, k>> \o NamedAs(name)) \o FiledAs(file)
  <2>1. x = <<e>> \o (<<k>> \o Long(N, F))
    BY <1>3, <1>13, <1>14, <1>16, ZenonT(30)
  <2>2. IsDisposition(Long(N, F), name, file)
    BY <1>3, <1>8, <1>13, Zenon
  <2> QED
    BY <1>7, <2>1, <2>2, Zenon DEF e
<1>17. CASE file # <<>> /\ x = (<<e, k>> \o FiledAs(file)) \o NamedAs(name)
  <2>1. x = <<e>> \o (<<k>> \o Long(F, N))
    BY <1>3, <1>13, <1>14, <1>17, Zenon
  <2>2. IsDisposition(Long(F, N), name, file)
    BY <1>3, <1>8, <1>13, Zenon
  <2> QED
    BY <1>7, <2>1, <2>2, Zenon DEF e
<1> QED
  BY <1>6, <1>15, <1>16, <1>17, Zenon

-----------------------------------------------------------------------------
(* The steps of the client *)

LEMMA StepPreamble == BodyInv /\ Preamble => BodyInv'
<1>1. SUFFICES ASSUME BodyInv, Preamble PROVE BodyInv'
  OBVIOUS
<1>2. PICK sent, ps, open : form = sent \o open /\ Sent(sent, ps, done) /\ Writes(place, current, ps, open)
  BY <1>1, Zenon DEF BodyInv
<1>3. place = "preamble" /\ form = <<>> /\ Write(<<"x">>) /\ place' = place /\ current' = current /\ done' = done
  BY <1>1, Zenon DEF Preamble
<1>4. ps = <<>> /\ open \in {<<>>, <<"x">>}
  BY <1>2, <1>3, Zenon DEF Writes
<1>5. <<>> \in Texts /\ <<"x">> \in Texts /\ sent \in Texts
  BY <1>2, Marks DEF Texts, Sent
<1>6. open = <<>>
  <2>1. open \in Texts /\ Len(sent \o open) = Len(sent) + Len(open) /\ Len(<<>>) = 0 /\ Len(<<"x">>) = 1
        /\ Len(sent) \in Nat
    <3>1. open \in Texts /\ Len(<<>>) = 0 /\ Len(<<"x">>) = 1
      BY <1>4, <1>5
    <3> QED
      BY <1>5, <3>1, ConcatParts, LenProperties DEF Texts
  <2>2. Len(sent \o open) = 0
    BY <1>2, <1>3, <2>1, Zenon
  <2>3. Len(open) = 0
    BY <1>4, <2>1, <2>2
  <2> QED
    BY <1>4, <2>1, <2>3
<1>7. Writes(place', current', ps, open \o <<"x">>)
  <2>1. open \o <<"x">> = <<"x">>
    BY <1>6
  <2> QED
    BY <1>3, <1>4, <2>1, Zenon DEF Writes
<1> QED
  BY <1>2, <1>3, <1>5, <1>6, <1>7, WritesOn

LEMMA StepFirstDelimiter == BodyInv /\ FirstDelimiter => BodyInv'
<1>1. SUFFICES ASSUME BodyInv, FirstDelimiter PROVE BodyInv'
  OBVIOUS
<1>2. PICK sent, ps, open : form = sent \o open /\ Sent(sent, ps, done) /\ Writes(place, current, ps, open)
  BY <1>1, Zenon DEF BodyInv
<1>3. place = "preamble" /\ form' = form \o <<Marker>> /\ place' = "part" /\ done' = done
  BY <1>1, Zenon DEF FirstDelimiter, Write, Marker
<1>4. ps = <<>> /\ open \in {<<>>, <<"x">>}
  BY <1>2, <1>3, Zenon DEF Writes
<1>5. open \in Texts /\ Without(open, Marker)
  <2>1. <<>> \in Texts /\ <<"x">> \in Texts /\ Without(<<>>, Marker) /\ Without(<<"x">>, Marker)
    BY Marks, WithoutOne DEF Texts
  <2> QED
    BY <1>4, <2>1
<1>6. form' = sent \o (open \o <<Marker>>)
  <2>1. sent \in Texts /\ <<Marker>> \in Texts
    BY <1>2, Marks DEF Texts, Sent
  <2>2. Glue(Glue(sent, open), <<Marker>>) = Glue(sent, Glue(open, <<Marker>>))
    BY <1>5, <2>1, GlueOn
  <2> QED
    BY <1>2, <1>3, <2>2, Zenon DEF Glue
<1>7. done' = WithPiece(Len(ps) + 1, open, done)
  <2>1. Len(ps) = 0
    BY <1>4
  <2>2. WithPiece(Len(ps) + 1, open, done) = <<>>
    BY <2>1 DEF WithPiece
  <2>3. done = <<>>
    BY <1>2, <1>4, PartsInOne, Zenon DEF Sent
  <2> QED
    BY <1>3, <2>2, <2>3, Zenon
<1> QED
  BY <1>2, <1>3, <1>4, <1>5, <1>6, <1>7, SendsOn

WithNames(p, a, b, n, f) ==
    [p EXCEPT !.name = a, !.file = b] = [name |-> a, file |-> b, typed |-> f, content |-> n]

LEMMA PartWithNames ==
    \A a, b, n, f, p : p = [name |-> n, file |-> n, typed |-> f, content |-> n] => WithNames(p, a, b, n, f)
<1> SUFFICES ASSUME NEW a, NEW b, NEW n, NEW f, NEW p, p = [name |-> n, file |-> n, typed |-> f, content |-> n]
             PROVE  WithNames(p, a, b, n, f)
  OBVIOUS
<1> DEFINE q == [p EXCEPT !.name = a]
<1>1. [p EXCEPT !.name = a, !.file = b] = [q EXCEPT !.file = b]
  OBVIOUS
<1>2. q = [name |-> a, file |-> n, typed |-> f, content |-> n]
  OBVIOUS
<1> HIDE DEF q
<1>3. [q EXCEPT !.file = b] = [name |-> a, file |-> b, typed |-> f, content |-> n]
  BY <1>2
<1> QED
  BY <1>1, <1>3 DEF WithNames

LEMMA StepDisposition ==
    ASSUME NEW name \in {<<>>, <<"a">>}, NEW file \in Filenames, BodyInv, Disposition(name, file)
    PROVE  BodyInv'
<1>2. PICK sent, ps, open : form = sent \o open /\ Sent(sent, ps, done) /\ Writes(place, current, ps, open)
  BY Zenon DEF BodyInv
<1>3. place = "part" /\ place' = "headers" /\ done' = done
  BY Zenon DEF Disposition
<1>4. PICK x \in DispositionForms(name, file) : Write(x)
  <2>1. \/ file = <<>> /\ Write(<<"CRLF", "CD">> \o NamedAs(name))
        \/ file # <<>> /\ Write((<<"CRLF", "CD">> \o NamedAs(name)) \o FiledAs(file))
        \/ file # <<>> /\ Write((<<"CRLF", "CD">> \o FiledAs(file)) \o NamedAs(name))
    BY Zenon DEF Disposition, NamedAs, FiledAs
  <2> QED
    BY <2>1, Zenon DEF DispositionForms
<1>5. PICK d : IsDisposition(d, name, file) /\ x = <<"CRLF">> \o Header(d)
  BY WrittenDisposition
<1>6. ps # <<>> /\ open = <<>>
  BY <1>2, <1>3, Zenon DEF Writes
<1>7. current' = Told(name, file, FALSE, <<>>)
  <2>1. current' = [NoPart EXCEPT !.name = name, !.file = Kept(file)]
    BY Zenon DEF Disposition, Kept
  <2>2. [NoPart EXCEPT !.name = name, !.file = Kept(file)]
           = [name |-> name, file |-> Kept(file), typed |-> FALSE, content |-> <<>>]
    <3>1. NoPart = [name |-> <<>>, file |-> <<>>, typed |-> FALSE, content |-> <<>>]
      BY Zenon DEF NoPart
    <3>2. WithNames(NoPart, name, Kept(file), <<>>, FALSE)
      BY <3>1, PartWithNames, Zenon
    <3> QED
      BY <3>2, Zenon DEF WithNames
  <2>3. (Kept(file) # <<>> /\ FALSE) = FALSE
    BY Zenon
  <2> QED
    BY <2>1, <2>2, <2>3, Zenon DEF Told
<1>8. x = <<"CRLF">> \o Lines(d, FALSE)
  BY <1>5, Zenon DEF Lines
<1>9. InHeaders(FALSE, x, current')
  BY <1>5, <1>7, <1>8, Zenon DEF InHeaders
<1>10. x \in Texts /\ <<>> \in Texts
  <2>1. x \in Texts
    BY <1>9, HeadersText
  <2> QED
    BY <2>1 DEF Texts
<1>11. open \o x = x
  BY <1>6, <1>10 DEF Texts
<1>12. Writes(place', current', ps, open \o x)
  BY <1>3, <1>6, <1>9, <1>11, Zenon DEF Writes
<1> QED
  BY <1>2, <1>3, <1>4, <1>6, <1>10, <1>12, WritesOn

LEMMA StepType == BodyInv /\ Type => BodyInv'
<1>1. SUFFICES ASSUME BodyInv, Type PROVE BodyInv'
  OBVIOUS
<1>2. PICK sent, ps, open : form = sent \o open /\ Sent(sent, ps, done) /\ Writes(place, current, ps, open)
  BY <1>1, Zenon DEF BodyInv
<1> DEFINE x == <<"CRLF", "CT">>
<1>3. /\ place = "headers" /\ place' = "typed" /\ done' = done /\ Write(x)
      /\ current' = [current EXCEPT !.typed = current.typed \/ current.file # <<>>]
  BY <1>1, Zenon DEF Type
<1>4. ps # <<>> /\ InHeaders(FALSE, open, current)
  BY <1>2, <1>3, Zenon DEF Writes
<1>5. PICK name, file, d : /\ IsDisposition(d, name, file)
                           /\ current = Told(name, file, FALSE, <<>>)
                           /\ open = <<"CRLF">> \o Lines(d, FALSE)
  BY <1>4, Zenon DEF InHeaders
<1>6. current' = Told(name, file, TRUE, <<>>)
  <2> DEFINE kept == Kept(file)
  <2>1. current = [name |-> name, file |-> kept, typed |-> (kept # <<>> /\ FALSE), content |-> <<>>]
    BY <1>5, Zenon DEF Told
  <2>2. (kept # <<>> /\ FALSE) = FALSE
    BY Zenon
  <2>3. Told(name, file, TRUE, <<>>)
           = [name |-> name, file |-> kept, typed |-> (kept # <<>> /\ TRUE), content |-> <<>>]
    BY Zenon DEF Told
  <2> HIDE DEF kept
  <2>4. current = [name |-> name, file |-> kept, typed |-> FALSE, content |-> <<>>]
    BY <2>1, <2>2, Zenon
  <2>5. current.typed = FALSE /\ current.file = kept
    BY <2>4
  <2>6. (current.typed \/ current.file # <<>>) = (kept # <<>>)
    BY <2>5, Zenon
  <2>7. current' = [current EXCEPT !.typed = (kept # <<>>)]
    BY <1>3, <2>6, Zenon
  <2>8. (kept # <<>> /\ TRUE) = (kept # <<>>)
    BY Zenon
  <2>9. [current EXCEPT !.typed = (kept # <<>>)]
           = [name |-> name, file |-> kept, typed |-> (kept # <<>>), content |-> <<>>]
    BY <2>4
  <2> QED
    BY <2>3, <2>7, <2>8, <2>9, Zenon
<1>7. x \in Texts /\ open \in Texts
  <2>1. open \in Texts
    BY <1>4, HeadersText
  <2> QED
    BY <2>1, Marks DEF Texts
<1>8. open \o x = <<"CRLF">> \o Lines(d, TRUE)
  <2> DEFINE e == <<"CRLF">>
             h == Header(d)
  <2>1. Lines(d, FALSE) = h /\ Lines(d, TRUE) = h \o x /\ open = e \o h
    BY <1>5, Zenon DEF Lines
  <2>2. h \in Texts /\ e \in Texts
    <3>1. Lines(d, FALSE) \in Texts
      BY <1>5, LinesAre
    <3>2. e \in Texts
      BY Marks DEF Texts
    <3> QED
      BY <2>1, <3>1, <3>2, Zenon
  <2> HIDE DEF e, h, x
  <2>3. Glue(Glue(e, h), x) = Glue(e, Glue(h, x))
    BY <1>7, <2>2, GlueOn
  <2> QED
    BY <2>1, <2>3, Zenon DEF Glue, e
<1>9. InHeaders(TRUE, open \o x, current')
  BY <1>5, <1>6, <1>8, Zenon DEF InHeaders
<1> HIDE DEF x
<1>10. Writes(place', current', ps, open \o x)
  BY <1>3, <1>4, <1>9, Zenon DEF Writes
<1> QED
  BY <1>2, <1>3, <1>7, <1>10, WritesOn

LEMMA StepBlank == BodyInv /\ Blank => BodyInv'
<1>1. SUFFICES ASSUME BodyInv, Blank PROVE BodyInv'
  OBVIOUS
<1>2. PICK sent, ps, open : form = sent \o open /\ Sent(sent, ps, done) /\ Writes(place, current, ps, open)
  BY <1>1, Zenon DEF BodyInv
<1> DEFINE x == <<"CRLF", "CRLF">>
<1>3. place \in {"headers", "typed"} /\ place' = "content" /\ done' = done /\ Write(x) /\ current' = current
  BY <1>1, Zenon DEF Blank
<1>4. PICK typed \in BOOLEAN : ps # <<>> /\ InHeaders(typed, open, current)
  <2>1. FALSE \in BOOLEAN /\ TRUE \in BOOLEAN
    OBVIOUS
  <2>2. CASE place = "headers"
    BY <1>2, <2>1, <2>2, Zenon DEF Writes
  <2>3. CASE place = "typed"
    BY <1>2, <2>1, <2>3, Zenon DEF Writes
  <2> QED
    BY <1>3, <2>2, <2>3, Zenon
<1>5. PICK name, file, d : /\ IsDisposition(d, name, file)
                           /\ current = Told(name, file, typed, <<>>)
                           /\ open = <<"CRLF">> \o Lines(d, typed)
  BY <1>4, Zenon DEF InHeaders
<1>6. x \in Texts /\ open \in Texts /\ <<>> \in Texts /\ Without(<<>>, "--B")
  <2>1. open \in Texts
    BY <1>4, HeadersText
  <2> QED
    BY <2>1, Marks, WithoutOne DEF Texts
<1>7. open \o x = <<"CRLF">> \o (Lines(d, typed) \o (x \o <<>>))
  <2> DEFINE e == <<"CRLF">>
             h == Lines(d, typed)
  <2>1. h \in Texts /\ e \in Texts /\ x \o <<>> = x
    BY <1>5, <1>6, LinesAre, Marks DEF Texts
  <2>2. open = e \o h
    BY <1>5
  <2> HIDE DEF e, h, x
  <2>3. Glue(Glue(e, h), x) = Glue(e, Glue(h, x))
    BY <1>6, <2>1, GlueOn
  <2> QED
    BY <2>1, <2>2, <2>3, Zenon DEF Glue, e, h
<1>8. InContent(open \o x, current')
  BY <1>3, <1>5, <1>6, <1>7, Zenon DEF InContent
<1> HIDE DEF x
<1>9. Writes(place', current', ps, open \o x)
  BY <1>3, <1>4, <1>8, Zenon DEF Writes
<1> QED
  BY <1>2, <1>3, <1>6, <1>9, WritesOn

LEMMA StepContent ==
    ASSUME NEW c \in {"x", "CRLF", "LF", "--", "CD"}, BodyInv, Content(c)
    PROVE  BodyInv'
<1>2. PICK sent, ps, open : form = sent \o open /\ Sent(sent, ps, done) /\ Writes(place, current, ps, open)
  BY Zenon DEF BodyInv
<1>3. /\ place = "content" /\ place' = "content" /\ done' = done /\ Write(<<c>>)
      /\ current' = [current EXCEPT !.content = Append(current.content, c)]
  BY Zenon DEF Content
<1>4. ps # <<>> /\ InContent(open, current)
  BY <1>2, <1>3, Zenon DEF Writes
<1>5. PICK name, file, d : \E typed \in BOOLEAN, content \in Texts :
        /\ IsDisposition(d, name, file) /\ Without(content, "--B")
        /\ current = Told(name, file, typed, content)
        /\ open = <<"CRLF">> \o (Lines(d, typed) \o (<<"CRLF", "CRLF">> \o content))
  BY <1>4, Zenon DEF InContent
<1>6. PICK typed \in BOOLEAN, content \in Texts :
        /\ IsDisposition(d, name, file) /\ Without(content, "--B")
        /\ current = Told(name, file, typed, content)
        /\ open = <<"CRLF">> \o (Lines(d, typed) \o (<<"CRLF", "CRLF">> \o content))
  BY <1>5, Zenon
<1>7. c \in FormLexemes /\ c # Marker /\ <<c>> \in Texts /\ Without(<<c>>, Marker)
  <2>1. c \in FormLexemes /\ c # Marker
    BY Marks, Zenon
  <2> QED
    BY <2>1, WithoutOne DEF Texts
<1> DEFINE more == content \o <<c>>
<1>8. more \in Texts /\ Without(more, "--B") /\ Append(content, c) = more
  <2>1. Without(content, Marker)
    BY <1>6, Zenon DEF Marker
  <2>2. more \in Texts /\ Without(more, Marker)
    BY <1>7, <2>1, WithoutConcat, ConcatParts DEF Texts
  <2>3. Append(content, c) = more
    BY <1>7, AppendIs DEF Texts
  <2> QED
    BY <2>2, <2>3, Zenon DEF Marker
<1>9. current' = Told(name, file, typed, more)
  <2> DEFINE kept == Kept(file)
             told == Kept(file) # <<>> /\ typed
  <2>1. /\ current = [name |-> name, file |-> kept, typed |-> told, content |-> content]
        /\ Told(name, file, typed, more) = [name |-> name, file |-> kept, typed |-> told, content |-> more]
    BY <1>6, Zenon DEF Told
  <2> HIDE DEF kept, told, more
  <2>2. current.content = content
    BY <2>1
  <2>3. current' = [current EXCEPT !.content = more]
    BY <1>3, <1>8, <2>2, Zenon
  <2>4. [current EXCEPT !.content = more] = [name |-> name, file |-> kept, typed |-> told, content |-> more]
    BY <2>1
  <2> QED
    BY <2>1, <2>3, <2>4, Zenon
<1>10. open \in Texts
  BY <1>4, ContentText
<1>11. open \o <<c>> = <<"CRLF">> \o (Lines(d, typed) \o (<<"CRLF", "CRLF">> \o more))
  <2> DEFINE e == <<"CRLF">>
             h == Lines(d, typed)
             ee == <<"CRLF", "CRLF">>
             one == <<c>>
  <2>1. h \in Texts /\ e \in Texts /\ ee \in Texts /\ one \in Texts
    BY <1>6, <1>7, LinesAre, Marks DEF Texts
  <2>2. open = e \o (h \o (ee \o content))
    BY <1>6
  <2> HIDE DEF e, h, ee, one
  <2>3. Glue(Glue(e, Glue(h, Glue(ee, content))), one) = Glue(e, Glue(h, Glue(ee, Glue(content, one))))
    BY <1>6, <2>1, GlueOn
  <2> QED
    BY <2>2, <2>3, Zenon DEF Glue, e, h, ee, one
<1> HIDE DEF more
<1>12. InContent(open \o <<c>>, current')
  BY <1>6, <1>8, <1>9, <1>11, Zenon DEF InContent
<1>13. Writes(place', current', ps, open \o <<c>>)
  BY <1>3, <1>4, <1>12, Zenon DEF Writes
<1> QED
  BY <1>2, <1>3, <1>7, <1>10, <1>13, WritesOn

LEMMA StepDelimiter == BodyInv /\ Delimiter => BodyInv'
<1>1. SUFFICES ASSUME BodyInv, Delimiter PROVE BodyInv'
  OBVIOUS
<1>2. PICK sent, ps, open : form = sent \o open /\ Sent(sent, ps, done) /\ Writes(place, current, ps, open)
  BY <1>1, Zenon DEF BodyInv
<1>3. /\ place = "content" /\ place' = "part" /\ form' = form \o <<"CRLF", Marker>>
      /\ done' = IF current.name = <<>> THEN done ELSE Append(done, current)
  BY <1>1, Zenon DEF Delimiter, Write, Marker
<1>4. ps # <<>> /\ InContent(open, current)
  BY <1>2, <1>3, Zenon DEF Writes
<1> DEFINE e == <<"CRLF">>
           m == <<Marker>>
           s == open \o e
<1>5. open \in Texts /\ Without(open, Marker) /\ open[1] = "CRLF"
  BY <1>4, ContentText
<1>6. e \in Texts /\ m \in Texts /\ Without(e, Marker) /\ sent \in Texts
  BY <1>2, Marks, WithoutOne DEF Texts, Sent
<1>7. s \in Texts /\ Without(s, Marker)
  <2> HIDE DEF e
  <2> QED
    BY <1>5, <1>6, WithoutConcat, ConcatParts DEF Texts
<1>8. ~LedBy(s, "--")
  <2>1. open # <<>>
    <3>1. PICK name, file, d : \E typed \in BOOLEAN, content \in Texts :
            open = <<"CRLF">> \o (Lines(d, typed) \o (<<"CRLF", "CRLF">> \o content))
            /\ IsDisposition(d, name, file)
      BY <1>4, Zenon DEF InContent
    <3>2. PICK typed \in BOOLEAN, content \in Texts :
            open = <<"CRLF">> \o (Lines(d, typed) \o (<<"CRLF", "CRLF">> \o content))
            /\ IsDisposition(d, name, file)
      BY <3>1, Zenon
    <3> DEFINE t == Lines(d, typed) \o (<<"CRLF", "CRLF">> \o content)
    <3>3. t \in Seq(FormLexemes)
      <4>1. IsHead(Lines(d, typed), "CRLF")
        BY <3>2, LinesAre
      <4>2. t \in Texts
        BY <4>1, Marks, BlankLineCuts
      <4> QED
        BY <4>2 DEF Texts
    <3> HIDE DEF t
    <3>4. open = <<"CRLF">> \o t
      BY <3>2, Zenon DEF t
    <3> QED
      BY <3>3, <3>4, Marks, FirstAndRest
  <2>2. 1 \in 1 .. Len(open)
    BY <1>5, <2>1, LenProperties, EmptySeq DEF Texts
  <2> HIDE DEF e
  <2>3. s[1] = "CRLF"
    BY <1>5, <1>6, <2>2, ConcatParts DEF Texts
  <2> QED
    BY <2>3, Marks DEF LedBy
<1>9. form' = sent \o (s \o m)
  <2>1. <<"CRLF", Marker>> = e \o m
    BY Tuples
  <2> HIDE DEF e, m
  <2>2. Glue(Glue(sent, open), Glue(e, m)) = Glue(sent, Glue(Glue(open, e), m))
    BY <1>5, <1>6, GlueOn
  <2> QED
    BY <1>2, <1>3, <2>1, <2>2, Zenon DEF Glue
<1>10. done' = WithPiece(Len(ps) + 1, s, done)
  <2>1. PartOf(s) = current
    BY <1>4, PieceIsRead
  <2>2. Len(ps) + 1 >= 2 /\ Len(ps) + 1 \in Nat
    BY <1>2, <1>4, LenProperties, EmptySeq DEF Sent
  <2>3. ~(Len(ps) + 1 < 2)
    BY <2>2
  <2> QED
    BY <1>3, <2>1, <2>3, Zenon DEF WithPiece
<1> HIDE DEF s
<1> QED
  BY <1>2, <1>3, <1>5, <1>7, <1>8, <1>9, <1>10, SendsOn

LEMMA StepClose == BodyInv /\ Close => BodyInv'
<1>1. SUFFICES ASSUME BodyInv, Close PROVE BodyInv'
  OBVIOUS
<1>2. PICK sent, ps, open : form = sent \o open /\ Sent(sent, ps, done) /\ Writes(place, current, ps, open)
  BY <1>1, Zenon DEF BodyInv
<1> DEFINE x == <<"--">>
<1>3. place = "part" /\ place' = "epilogue" /\ done' = done /\ Write(x) /\ current' = current
  BY <1>1, Zenon DEF Close
<1>4. ps # <<>> /\ open = <<>>
  BY <1>2, <1>3, Zenon DEF Writes
<1>5. x \in Texts /\ <<>> \in Texts
  BY Dashes DEF Texts
<1>6. open \o x = x
  BY <1>4
<1>7. Behind(x)
  BY Zenon DEF Behind
<1> HIDE DEF x
<1>8. Writes(place', current', ps, open \o x)
  BY <1>3, <1>4, <1>5, <1>6, <1>7, Zenon DEF Writes
<1> QED
  BY <1>2, <1>3, <1>4, <1>5, <1>8, WritesOn

LEMMA StepEpilogue ==
    ASSUME NEW l \in {"x", "CRLF", "--B"}, BodyInv, Epilogue(l)
    PROVE  BodyInv'
<1>2. PICK sent, ps, open : form = sent \o open /\ Sent(sent, ps, done) /\ Writes(place, current, ps, open)
  BY Zenon DEF BodyInv
<1> DEFINE x == <<l>>
<1>3. place = "epilogue" /\ place' = "epilogue" /\ done' = done /\ Write(x) /\ current' = current
      /\ Last(form) = "--"
  BY Zenon DEF Epilogue
<1>4. ps # <<>> /\ open \in Texts /\ Behind(open)
  BY <1>2, <1>3, Zenon DEF Writes
<1>5. l \in FormLexemes /\ l # "--" /\ (l = Marker \/ (l # Marker)) /\ x \in Texts /\ sent \in Texts
  <2>1. l \in FormLexemes /\ l # "--"
    BY Marks, Zenon DEF Marker
  <2> QED
    BY <1>2, <2>1 DEF Texts, Sent
<1> DEFINE all == <<"--">> \o x
<1>6. open = <<"--">>
  <2>1. CASE open = <<>>
    <3>1. ~LedBy(Split(open, Marker)[1], "--")
      <4>1. Split(<<>>, Marker) = <<<<>>>>
        <5>1. <<>> \in Texts /\ Without(<<>>, Marker)
          BY WithoutOne DEF Texts
        <5> QED
          BY <5>1, Marks, SplitAt
      <4>2. <<<<>>>>[1] = <<>>
        OBVIOUS
      <4> QED
        BY <2>1, <4>1, <4>2, Zenon DEF LedBy
    <3> QED
      BY <1>4, <3>1, Zenon DEF Behind
  <2>2. CASE open # <<>>
    <3>1. Last(sent \o open) = open[Len(open)]
      BY <1>4, <1>5, <2>2, LastOfConcat DEF Texts
    <3>2. Last(open) = "--"
      BY <1>2, <1>3, <3>1, Zenon DEF Last
    <3> QED
      BY <1>4, <3>2, Zenon DEF Behind
  <2> QED
    BY <2>1, <2>2
<1>7. LedBy(Split(all, Marker)[1], "--")
  <2> DEFINE dashes == <<"--">>
  <2>1. dashes \in Texts /\ Without(dashes, Marker) /\ dashes # <<>> /\ dashes[1] = "--"
    BY Dashes
  <2>2. CASE l = Marker
    <3>1. <<>> \in Texts /\ Without(<<>>, Marker)
      BY WithoutOne DEF Texts
    <3>2. Split(dashes \o (<<Marker>> \o <<>>), Marker) = <<dashes, <<>>>>
      BY <2>1, <3>1, Marks, SplitTwo
    <3>3. <<Marker>> \o <<>> = x
      BY <2>2
    <3>4. <<dashes, <<>>>>[1] = dashes
      OBVIOUS
    <3>5. Split(all, Marker)[1] = dashes
      BY <3>2, <3>3, <3>4, Zenon
    <3> QED
      BY <2>1, <3>5, Zenon DEF LedBy
  <2>3. CASE l # Marker
    <3>1. Without(x, Marker)
      BY <2>3, WithoutOne
    <3> HIDE DEF x, dashes
    <3>2. dashes \o x \in Texts /\ Without(dashes \o x, Marker)
      BY <1>5, <2>1, <3>1, WithoutConcat, ConcatParts DEF Texts
    <3> DEFINE w == dashes \o x
    <3>3. w \in Texts /\ Without(w, Marker)
      BY <3>2
    <3>4. Len(dashes) \in Nat /\ 1 \in 1 .. Len(dashes)
      BY <2>1, LenProperties, EmptySeq DEF Texts
    <3>5. w[1] = "--" /\ w # <<>>
      <4>1. w[1] = dashes[1] /\ Len(w) = Len(dashes) + Len(x) /\ Len(x) \in Nat /\ Len(<<>>) = 0
        BY <1>5, <2>1, <3>4, ConcatParts, LenProperties DEF Texts
      <4> HIDE DEF w
      <4>2. Len(w) # 0
        BY <3>4, <4>1
      <4> QED
        BY <2>1, <4>1, <4>2
    <3> HIDE DEF w
    <3>6. Split(w, Marker) = <<w>>
      BY <3>3, Marks, SplitAt
    <3>7. <<w>>[1] = w
      OBVIOUS
    <3>8. LedBy(Split(w, Marker)[1], "--")
      BY <3>5, <3>6, <3>7, Zenon DEF LedBy
    <3> QED
      BY <3>8, Zenon DEF w, dashes
  <2> QED
    BY <2>2, <2>3
<1>8. all \in Texts /\ Last(all) # "--"
  <2>1. <<"--">> \in Seq(FormLexemes) /\ x \in Seq(FormLexemes) /\ x # <<>> /\ x[Len(x)] = l
    BY <1>5, Dashes DEF Texts
  <2> HIDE DEF x
  <2>2. Last(all) = x[Len(x)] /\ all \in Seq(FormLexemes)
    BY <2>1, LastOfConcat, ConcatParts
  <2> QED
    BY <1>5, <2>1, <2>2, Zenon DEF Texts
<1> HIDE DEF all
<1>9. Behind(all)
  BY <1>7, <1>8, Zenon DEF Behind
<1>10. open \o x = all
  BY <1>6, Zenon DEF all
<1>11. Writes(place', current', ps, open \o x)
  BY <1>3, <1>4, <1>8, <1>9, <1>10, Zenon DEF Writes
<1> HIDE DEF x
<1> QED
  BY <1>2, <1>3, <1>4, <1>5, <1>11, WritesOn

LEMMA BodyStep == BodyInv /\ [WriteBody]_formVars => BodyInv'
<1>1. SUFFICES ASSUME BodyInv, [WriteBody]_formVars PROVE BodyInv'
  OBVIOUS
<1>2. CASE UNCHANGED formVars
  BY <1>1, <1>2, Zenon DEF BodyInv, formVars
<1>3. CASE \E name \in {<<>>, <<"a">>}, file \in Filenames : Disposition(name, file)
  BY <1>1, <1>3, StepDisposition, Zenon
<1>4. CASE \E c \in {"x", "CRLF", "LF", "--", "CD"} : Content(c)
  BY <1>1, <1>4, StepContent, Zenon
<1>5. CASE \E l \in {"x", "CRLF", "--B"} : Epilogue(l)
  BY <1>1, <1>5, StepEpilogue, Zenon
<1> QED
  BY <1>1, <1>2, <1>3, <1>4, <1>5, StepPreamble, StepFirstDelimiter, StepType, StepBlank,
     StepDelimiter, StepClose, Zenon DEF WriteBody

\* Whatever a client writes, the parts that are found are the ones whose
\* delimiter has arrived, each as it was written, for any length of the body
\* and of its contents.
THEOREM MultipartSplit == BodySpec => []MultipartIsSplit
<1>1. BodyInit => BodyInv
  BY BodyStarts
<1>2. BodyInv /\ [WriteBody]_formVars => BodyInv'
  BY BodyStep
<1>3. BodyInv => MultipartIsSplit
  BY BodySplitNow
<1> QED
  BY <1>1, <1>2, <1>3, PTL DEF BodySpec
=============================================================================

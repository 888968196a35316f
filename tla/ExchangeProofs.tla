---------------------------- MODULE ExchangeProofs ----------------------------
(***************************************************************************)
(* Proofs about Response, Exchange and RouteGuard, for all registrations,  *)
(* handlers, middlewares, files, requests and bounds that satisfy their    *)
(* assumptions.                                                            *)
(***************************************************************************)
EXTENDS RouteGuard, Exchange, QueueLemmas

-----------------------------------------------------------------------------
(* Headers *)

\* The names and values of headers: texts, those of the code among them, and
\* what is not a text, a length or a tag.
Lexemes ==
    STRING \cup {"Connection", "Content-Type", "Content-Length", "ETag", "keep-alive", "close",
                "text/plain", "application/json", "mime", "message", "error", "empty", "LF"}
Values == Lexemes \cup Nat \cup Nat \X Nat

OneEach(headers) ==
    \A i, j \in DOMAIN headers : CaseFold(headers[i][1]) = CaseFold(headers[j][1]) => i = j

\* Headers, none named twice.
Headers(V) == {h \in Seq(Lexemes \X V) : OneEach(h)}

LEMMA CaseFolds ==
    /\ CaseFold("Connection") = "connection" /\ CaseFold("Content-Length") = "content-length"
    /\ CaseFold("Content-Type") = "content-type" /\ CaseFold("ETag") = "ETag"
BY DEF CaseFold, Lower

LEMMA ProxyFolds == CaseFold("Proxy-Connection") = "Proxy-Connection"
BY DEF CaseFold, Lower

LEMMA HeadersGrow ==
    ASSUME NEW V, NEW W, V \subseteq W, NEW h \in Headers(V)
    PROVE  h \in Headers(W)
<1>1. h \in Seq(Lexemes \X V) /\ OneEach(h)
  BY DEF Headers
<1>2. \A i \in 1 .. Len(h) : h[i] \in Lexemes \X W
  BY <1>1
<1>3. h \in Seq(Lexemes \X W)
  BY <1>1, <1>2
<1> QED
  BY <1>1, <1>3 DEF Headers

\* An element behind the others, or in front.
LEMMA AddedElement ==
    ASSUME NEW T, NEW h \in Seq(T), NEW e \in T
    PROVE  /\ Len(h) \in Nat /\ DOMAIN h = 1 .. Len(h)
           /\ Append(h, e) \in Seq(T) /\ DOMAIN Append(h, e) = 1 .. Len(h) + 1
           /\ Append(h, e)[Len(h) + 1] = e /\ \A i \in 1 .. Len(h) : Append(h, e)[i] = h[i]
           /\ <<e>> \o h \in Seq(T) /\ DOMAIN (<<e>> \o h) = 1 .. Len(h) + 1
           /\ (<<e>> \o h)[1] = e /\ \A i \in 1 .. Len(h) : (<<e>> \o h)[i + 1] = h[i]
<1> DEFINE n == Len(h)
<1>1. n \in Nat /\ DOMAIN h = 1 .. n
  BY LenProperties
<1>2. /\ Append(h, e) \in Seq(T) /\ DOMAIN Append(h, e) = 1 .. n + 1
      /\ Append(h, e)[n + 1] = e /\ \A i \in 1 .. n : Append(h, e)[i] = h[i]
  BY AppendProperties
<1>3. <<e>> \in Seq(T) /\ Len(<<e>>) = 1 /\ <<e>>[1] = e
  OBVIOUS
<1>4. /\ <<e>> \o h \in Seq(T) /\ Len(<<e>> \o h) = 1 + n
      /\ \A i \in 1 .. 1 + n : (<<e>> \o h)[i] = IF i <= 1 THEN <<e>>[i] ELSE h[i - 1]
  BY <1>3, ConcatProperties
<1> DEFINE p == <<e>> \o h
<1>5. DOMAIN p = 1 .. n + 1
  BY <1>1, <1>4
<1> HIDE DEF n, p
<1>6. p[1] = e /\ \A i \in 1 .. n : p[i + 1] = h[i]
  <2>1. 1 \in 1 .. 1 + n
    BY <1>1
  <2>2. \A i \in 1 .. n : i + 1 \in 1 .. 1 + n /\ ~(i + 1 <= 1) /\ (i + 1) - 1 = i
    BY <1>1
  <2> QED
    BY <1>3, <1>4, <2>1, <2>2 DEF p
<1> QED
  BY <1>1, <1>2, <1>4, <1>5, <1>6 DEF n, p

\* A header of a name that is not there.
LEMMA AddedHeader ==
    ASSUME NEW V, NEW h \in Headers(V), NEW name \in Lexemes, NEW value \in V, ~Has(h, name)
    PROVE  Append(h, <<name, value>>) \in Headers(V) /\ <<<<name, value>>>> \o h \in Headers(V)
<1> DEFINE a == Append(h, <<name, value>>)
           n == Len(h)
           p == <<<<name, value>>>> \o h
           T == Lexemes \X V
           e == <<name, value>>
<1>1. h \in Seq(T) /\ OneEach(h) /\ e \in T
  BY DEF Headers
<1>2. /\ n \in Nat /\ DOMAIN h = 1 .. n
      /\ a \in Seq(T) /\ DOMAIN a = 1 .. n + 1 /\ a[n + 1] = e /\ \A i \in 1 .. n : a[i] = h[i]
      /\ p \in Seq(T) /\ DOMAIN p = 1 .. n + 1 /\ p[1] = e /\ \A i \in 1 .. n : p[i + 1] = h[i]
  <2> HIDE DEF T, e
  <2>1. a = Append(h, e) /\ p = <<e>> \o h
    BY DEF e
  <2> HIDE DEF a, p
  <2>2. /\ n \in Nat /\ DOMAIN h = 1 .. n
        /\ Append(h, e) \in Seq(T) /\ DOMAIN Append(h, e) = 1 .. n + 1
        /\ Append(h, e)[n + 1] = e /\ \A i \in 1 .. n : Append(h, e)[i] = h[i]
        /\ <<e>> \o h \in Seq(T) /\ DOMAIN (<<e>> \o h) = 1 .. n + 1
        /\ (<<e>> \o h)[1] = e /\ \A i \in 1 .. n : (<<e>> \o h)[i + 1] = h[i]
    BY <1>1, AddedElement
  <2> QED
    BY <2>1, <2>2
<1>3. e[1] = name
  OBVIOUS
<1>4. \A i \in 1 .. n : CaseFold(h[i][1]) # CaseFold(name)
  BY <1>2 DEF Has, SameName
<1> HIDE DEF a, n, p, T, e
<1>5. \A i, j \in 1 .. n : CaseFold(h[i][1]) = CaseFold(h[j][1]) => i = j
  BY <1>1, <1>2 DEF OneEach
<1>6. OneEach(a)
  <2>1. \A i \in 1 .. n + 1 : i \in 1 .. n \/ i = n + 1
    BY <1>2
  <2>2. SUFFICES ASSUME NEW i \in 1 .. n + 1, NEW j \in 1 .. n + 1,
                        CaseFold(a[i][1]) = CaseFold(a[j][1])
                 PROVE  i = j
    BY <1>2, Zenon DEF OneEach
  <2> QED
    BY <1>2, <1>3, <1>4, <1>5, <2>1, <2>2, Zenon
<1>7. OneEach(p)
  <2>1. \A i \in 1 .. n + 1 : i = 1 \/ \E k \in 1 .. n : i = k + 1
    <3>1. \A i \in 1 .. n + 1 : i = 1 \/ (i - 1 \in 1 .. n /\ i = (i - 1) + 1)
      BY <1>2
    <3> QED
      BY <3>1
  <2>2. SUFFICES ASSUME NEW i \in 1 .. n + 1, NEW j \in 1 .. n + 1,
                        CaseFold(p[i][1]) = CaseFold(p[j][1])
                 PROVE  i = j
    BY <1>2, Zenon DEF OneEach
  <2>3. CASE i = 1 /\ \E k \in 1 .. n : j = k + 1
    BY <1>2, <1>3, <1>4, <2>2, <2>3, ZenonT(60)
  <2>4. CASE j = 1 /\ \E k \in 1 .. n : i = k + 1
    BY <1>2, <1>3, <1>4, <2>2, <2>4, ZenonT(60)
  <2>5. ASSUME NEW k \in 1 .. n, NEW l \in 1 .. n, i = k + 1, j = l + 1 PROVE i = j
    BY <1>2, <1>5, <2>2, <2>5, ZenonT(60)
  <2> QED
    BY <2>1, <2>3, <2>4, <2>5, Zenon
<1> QED
  BY <1>2, <1>6, <1>7 DEF Headers, a, p, T, e

\* Response::set
LEMMA SetKeepsOneEach ==
    ASSUME NEW V, NEW h \in Headers(V), NEW name \in Lexemes, NEW value \in V
    PROVE  Set(h, name, value) \in Headers(V)
<1> DEFINE same == {i \in DOMAIN h : SameName(h[i][1], name)}
           m == Min(same)
           s == [h EXCEPT ![m] = <<@[1], value>>]
<1>1. CASE same = {}
  <2>1. ~Has(h, name)
    BY <1>1 DEF Has
  <2> QED
    BY <1>1, <2>1, AddedHeader DEF Set
<1>2. CASE same # {}
  <2>1. h \in Seq(Lexemes \X V) /\ OneEach(h) /\ DOMAIN h = 1 .. Len(h) /\ Len(h) \in Nat
    BY DEF Headers
  <2>2. m \in DOMAIN h
    <3>1. same \subseteq Nat /\ same \subseteq DOMAIN h
      <4>1. DOMAIN h \subseteq Nat
        BY <2>1
      <4> QED
        BY <4>1, Zenon
    <3> HIDE DEF same
    <3> QED
      BY <1>2, <3>1, MinIsLeast
  <2> HIDE DEF m
  <2>3. /\ s \in Seq(Lexemes \X V) /\ DOMAIN s = DOMAIN h
        /\ \A i \in DOMAIN h : s[i][1] = h[i][1]
    <3>1. \A i \in DOMAIN h : h[i] \in Lexemes \X V
      BY <2>1
    <3>2. DOMAIN s = DOMAIN h /\ \A i \in DOMAIN h : s[i] = IF i = m THEN <<h[i][1], value>> ELSE h[i]
      BY <2>2
    <3>3. \A i \in DOMAIN h : s[i] \in Lexemes \X V /\ s[i][1] = h[i][1]
      BY <3>1, <3>2
    <3>4. s \in [1 .. Len(h) -> Lexemes \X V]
      BY <2>1, <3>2, <3>3
    <3>5. \A n \in Nat : \A f \in [1 .. n -> Lexemes \X V] : f \in Seq(Lexemes \X V)
      BY SeqDef
    <3> QED
      BY <2>1, <3>2, <3>3, <3>4, <3>5
  <2> HIDE DEF s
  <2>4. OneEach(s)
    BY <2>1, <2>3 DEF OneEach
  <2>5. Set(h, name, value) = s
    BY <1>2 DEF Set, s, m
  <2> QED
    BY <2>3, <2>4, <2>5 DEF Headers
<1> QED
  BY <1>1, <1>2

\* A stretch of a text is one.
LEMMA SubSeqType ==
    ASSUME NEW S, NEW s \in Seq(S), NEW m \in Nat \ {0}, NEW n \in Int, n <= Len(s)
    PROVE  SubSeq(s, m, n) \in Seq(S)
OBVIOUS

LEMMA SanitizeType ==
    ASSUME NEW text \in Seq(Lexemes)
    PROVE  Sanitize(text) \in Seq(Lexemes)
<1> DEFINE dirty == {p \in DOMAIN text : text[p] \in {"CR", "LF", "CTL"}}
<1>1. CASE dirty = {}
  BY <1>1 DEF Sanitize
<1>2. CASE dirty # {}
  <2>1. dirty \subseteq Nat /\ dirty \subseteq 1 .. Len(text) /\ Len(text) \in Nat
    OBVIOUS
  <2>2. Sanitize(text) = SubSeq(text, 1, Min(dirty) - 1)
    BY <1>2 DEF Sanitize
  <2> HIDE DEF dirty
  <2>3. Min(dirty) \in 1 .. Len(text)
    BY <1>2, <2>1, MinIsLeast
  <2> DEFINE m == Min(dirty)
  <2>4. m - 1 \in Int /\ m - 1 <= Len(text)
    BY <2>1, <2>3
  <2> QED
    BY <2>2, <2>4, SubSeqType
<1> QED
  BY <1>1, <1>2

\* One line of a block.
LEMMA LineKeepsOneEach ==
    ASSUME NEW h \in Headers(Lexemes), NEW line \in Seq(Lexemes)
    PROVE  HeaderLine(h, line) \in Headers(Lexemes)
<1> DEFINE colons == {p \in DOMAIN line : line[p] = ":"}
           after  == SubSeq(line, Min(colons) + 1, Len(line))
           blank  == after # <<>> /\ after[1] = " "
           text   == IF blank THEN Tail(after) ELSE after
           value  == Sanitize(text)
           none   == "empty"
           word   == IF value = <<>> THEN none ELSE value[1]
<1>1. CASE colons = {} \/ Min(colons) = 1 \/ line[1] = "CTL"
  BY <1>1 DEF HeaderLine
<1>2. CASE ~(colons = {} \/ Min(colons) = 1 \/ line[1] = "CTL")
  <2>1. colons \subseteq Nat /\ colons \subseteq 1 .. Len(line) /\ Len(line) \in Nat /\ colons # {}
    BY <1>2
  <2>2. HeaderLine(h, line) = Set(h, line[1], word)
    BY <1>2 DEF HeaderLine
  <2> HIDE DEF colons
  <2>3. Min(colons) \in 1 .. Len(line)
    BY <2>1, MinIsLeast
  <2> DEFINE m == Min(colons) + 1
  <2>4. m \in Nat \ {0} /\ Len(line) \in Int /\ Len(line) <= Len(line) /\ 1 \in 1 .. Len(line)
    BY <2>1, <2>3
  <2>5. line[1] \in Lexemes
    BY <2>4
  <2>6. after \in Seq(Lexemes)
    BY <2>4, SubSeqType
  <2>7. none \in Lexemes
    BY DEF Lexemes
  <2>8. blank => after # <<>>
    BY Zenon
  <2> HIDE DEF after, blank, none
  <2>9. text \in Seq(Lexemes)
    <3>1. CASE blank
      <4>1. Tail(after) \in Seq(Lexemes)
        BY <2>6, <2>8, <3>1, HeadTailProperties
      <4> QED
        BY <3>1, <4>1
    <3>2. CASE ~blank
      BY <2>6, <3>2
    <3> QED
      BY <3>1, <3>2
  <2> HIDE DEF text
  <2>10. value \in Seq(Lexemes)
    BY <2>9, SanitizeType
  <2> HIDE DEF value
  <2>11. word \in Lexemes
    <3>1. value # <<>> => 1 \in 1 .. Len(value)
      BY <2>10
    <3>2. value # <<>> => value[1] \in Lexemes
      BY <2>10, <3>1
    <3> QED
      BY <2>7, <3>2
  <2> HIDE DEF word
  <2> QED
    BY <2>2, <2>5, <2>11, SetKeepsOneEach
<1> QED
  BY <1>1, <1>2

LEMMA LineType ==
    ASSUME NEW block \in Seq(Lexemes), NEW p \in 1 .. Len(block) + 1
    PROVE  LineUpTo(block, p) \in Seq(Lexemes)
<1> DEFINE ends == {q \in 1 .. p - 1 : block[q] = "LF"}
           m == Max({0} \cup ends)
<1>1. Len(block) \in Nat /\ p - 1 \in Nat /\ p - 1 <= Len(block)
  OBVIOUS
<1>2. {0} \cup ends \subseteq 0 .. p - 1 /\ {0} \cup ends # {}
  BY <1>1
<1>3. LineUpTo(block, p) = SubSeq(block, m + 1, p - 1)
  BY DEF LineUpTo
<1> HIDE DEF ends
<1>4. m \in {0} \cup ends
  BY <1>1, <1>2, MaxIsGreatest
<1> HIDE DEF m
<1>5. m + 1 \in Nat \ {0} /\ p - 1 \in Int
  BY <1>1, <1>2, <1>4
<1> QED
  BY <1>1, <1>3, <1>5, SubSeqType

\* utility_t::apply_headers: whatever the block says, no header is named twice.
LEMMA BlockKeepsOneEach ==
    ASSUME NEW h \in Headers(Lexemes), NEW block \in Seq(Lexemes)
    PROVE  ApplyHeaders(h, block) \in Headers(Lexemes)
<1> DEFINE S == Headers(Lexemes)
           n == Len(block) + 1
           Ends(p) == p = n \/ block[p] = "LF"
           Is(f) == f = [p \in 0 .. n |-> IF p = 0 THEN h
                                          ELSE IF Ends(p) THEN HeaderLine(f[p - 1], LineUpTo(block, p))
                                          ELSE f[p - 1]]
           f == CHOOSE f : Is(f)
           step == [a \in (1 .. n) \X S |-> IF Ends(a[1]) THEN HeaderLine(a[2], LineUpTo(block, a[1]))
                                            ELSE a[2]]
<1>1. n \in Nat
  OBVIOUS
<1>2. ApplyHeaders(h, block) = f[n]
  BY Zenon DEF ApplyHeaders
<1>3. \A x \in S, p \in 1 .. n : HeaderLine(x, LineUpTo(block, p)) \in S
  BY LineType, LineKeepsOneEach
<1> HIDE DEF S, n, Ends
<1>4. step \in [(1 .. n) \X S -> S]
  BY <1>3
<1>5. \A x \in S, p \in 1 .. n :
         step[<<p, x>>] = IF Ends(p) THEN HeaderLine(x, LineUpTo(block, p)) ELSE x
  OBVIOUS
<1> HIDE DEF step
<1>6. h \in S
  BY DEF S
<1>7. PICK g \in [0 .. n -> S] :
         g[0] = h /\ \A k \in 1 .. n : g[k] = step[<<k, g[k - 1]>>]
  <2>1. Iterates(S, n, h, step)
    BY <1>1, <1>4, <1>6, Iteration
  <2> QED
    BY <2>1 DEF Iterates
<1>8. \A k \in 0 .. n : k # 0 => k \in 1 .. n /\ k - 1 \in 0 .. n
  BY <1>1
<1>9. Is(g)
  <2>1. \A k \in 0 .. n : g[k] =
           IF k = 0 THEN h
           ELSE IF Ends(k) THEN HeaderLine(g[k - 1], LineUpTo(block, k)) ELSE g[k - 1]
    BY <1>5, <1>7, <1>8
  <2> QED
    BY <1>7, <2>1
<1>10. Is(f)
  BY <1>9, Zenon
<1> HIDE DEF f
<1>11. f[0] = h /\ \A k \in 1 .. n : k # 0 /\ k \in 0 .. n /\
         f[k] = IF Ends(k) THEN HeaderLine(f[k - 1], LineUpTo(block, k)) ELSE f[k - 1]
  BY <1>1, <1>10
<1>12. \A k \in 0 .. n : f[k] \in S
  BY <1>1, <1>3, <1>6, <1>11, IterationKeeps
<1> QED
  BY <1>1, <1>2, <1>12 DEF S

\* No block leaves the headers as they are.
LEMMA EmptyBlock ==
    ASSUME NEW h
    PROVE  ApplyHeaders(h, <<>>) = h
<1> DEFINE n == Len(<<>>) + 1
           Line(x, p) == HeaderLine(x, LineUpTo(<<>>, p))
           f == CHOOSE f : f = [p \in 0 .. n |-> IF p = 0 THEN h
                                      ELSE IF p = n \/ <<>>[p] = "LF" THEN HeaderLine(f[p - 1], LineUpTo(<<>>, p))
                                      ELSE f[p - 1]]
<1>1. n = 1
  OBVIOUS
<1>2. ApplyHeaders(h, <<>>) = f[n]
  BY Zenon DEF ApplyHeaders
<1>3. LineUpTo(<<>>, 1) = <<>>
  <2> DEFINE m == Max({0} \cup {q \in 1 .. 1 - 1 : <<>>[q] = "LF"})
  <2>1. LineUpTo(<<>>, 1) = SubSeq(<<>>, m + 1, 1 - 1)
    BY DEF LineUpTo
  <2>2. {0} \cup {q \in 1 .. 1 - 1 : <<>>[q] = "LF"} = {0}
    OBVIOUS
  <2>3. m = 0
    BY <2>2, MaxIsGreatest
  <2> HIDE DEF m
  <2> QED
    BY <2>1, <2>3
<1>4. HeaderLine(h, <<>>) = h
  BY DEF HeaderLine
<1> DEFINE g == [p \in 0 .. n |-> h]
<1>5. g = [p \in 0 .. n |-> IF p = 0 THEN h
                            ELSE IF p = n \/ <<>>[p] = "LF" THEN Line(g[p - 1], p) ELSE g[p - 1]]
  <2>1. \A p \in 0 .. n : g[p] = h
    OBVIOUS
  <2>2. \A p \in 0 .. n : p = 0 \/ p = 1
    BY <1>1
  <2>3. Line(g[1 - 1], 1) = h
    <3>1. 1 - 1 \in 0 .. n
      BY <1>1
    <3> QED
      BY <1>3, <1>4, <2>1, <3>1
  <2> HIDE DEF Line, n
  <2>4. \A p \in 0 .. n : h = IF p = 0 THEN h
                              ELSE IF p = n \/ <<>>[p] = "LF" THEN Line(g[p - 1], p) ELSE g[p - 1]
    BY <1>1, <2>1, <2>2, <2>3
  <2> QED
    BY <2>4, Zenon
<1> HIDE DEF g
<1>6. f = [p \in 0 .. n |-> IF p = 0 THEN h
                            ELSE IF p = n \/ <<>>[p] = "LF" THEN Line(f[p - 1], p) ELSE f[p - 1]]
  BY <1>5, Zenon
<1> HIDE DEF f
<1>7. f[n] = HeaderLine(f[0], LineUpTo(<<>>, 1)) /\ f[0] = h
  BY <1>1, <1>6
<1> QED
  BY <1>2, <1>3, <1>4, <1>7

-----------------------------------------------------------------------------
(* Heads *)

Entries(headers) == {headers[i] : i \in DOMAIN headers}

LEMMA HasEntry ==
    ASSUME NEW h, NEW name
    PROVE  Has(h, name) <=> \E e \in Entries(h) : SameName(e[1], name)
BY DEF Has, Entries

LEMMA AddedEntry ==
    ASSUME NEW V, NEW h \in Headers(V), NEW name \in Lexemes, NEW value \in V, ~Has(h, name)
    PROVE  /\ Append(h, <<name, value>>) \in Headers(V)
           /\ <<<<name, value>>>> \o h \in Headers(V)
           /\ Entries(Append(h, <<name, value>>)) = Entries(h) \cup {<<name, value>>}
           /\ Entries(<<<<name, value>>>> \o h) = Entries(h) \cup {<<name, value>>}
<1> DEFINE T == Lexemes \X V
           e == <<name, value>>
           n == Len(h)
           a == Append(h, e)
           p == <<e>> \o h
<1>1. h \in Seq(T) /\ e \in T
  BY DEF Headers
<1>2. a \in Headers(V) /\ p \in Headers(V)
  BY AddedHeader
<1>3. /\ n \in Nat /\ DOMAIN h = 1 .. n
      /\ DOMAIN Append(h, e) = 1 .. n + 1 /\ Append(h, e)[n + 1] = e
      /\ \A i \in 1 .. n : Append(h, e)[i] = h[i]
      /\ DOMAIN (<<e>> \o h) = 1 .. n + 1 /\ (<<e>> \o h)[1] = e
      /\ \A i \in 1 .. n : (<<e>> \o h)[i + 1] = h[i]
  <2> HIDE DEF T, e, n
  <2> QED
    BY <1>1, AddedElement DEF n
<1>4. /\ DOMAIN a = 1 .. n + 1 /\ a[n + 1] = e /\ \A i \in 1 .. n : a[i] = h[i]
      /\ DOMAIN p = 1 .. n + 1 /\ p[1] = e /\ \A i \in 1 .. n : p[i + 1] = h[i]
  BY <1>3
<1> HIDE DEF T, e, n, a, p
<1>5. /\ \A i \in 1 .. n + 1 : i \in 1 .. n \/ i = n + 1
      /\ \A i \in 1 .. n : i \in 1 .. n + 1 /\ i + 1 \in 1 .. n + 1
      /\ 1 \in 1 .. n + 1 /\ n + 1 \in 1 .. n + 1
  BY <1>3
<1>6. Entries(a) = Entries(h) \cup {e}
  BY <1>3, <1>4, <1>5, SMTT(40) DEF Entries
<1>7. \A i \in 1 .. n + 1 : i = 1 \/ \E k \in 1 .. n : i = k + 1
  <2>1. \A i \in 1 .. n + 1 : i = 1 \/ (i - 1 \in 1 .. n /\ i = (i - 1) + 1)
    BY <1>3
  <2> QED
    BY <2>1
<1>8. Entries(p) = Entries(h) \cup {e}
  <2>1. ASSUME NEW i \in 1 .. n + 1 PROVE p[i] = e \/ \E k \in 1 .. n : p[i] = h[k]
    BY <1>4, <1>7, Zenon
  <2>2. \A x : x \in Entries(p) <=> \E i \in 1 .. n + 1 : x = p[i]
    BY <1>4, Zenon DEF Entries
  <2>3. \A x : x \in Entries(h) <=> \E k \in 1 .. n : x = h[k]
    BY <1>3, Zenon DEF Entries
  <2>4. \A x : x \in Entries(p) => x \in Entries(h) \cup {e}
    BY <2>1, <2>2, <2>3, Zenon
  <2>5. \A x : x \in Entries(h) \cup {e} => x \in Entries(p)
    BY <1>4, <1>5, <2>2, <2>3, ZenonT(60)
  <2> QED
    BY <2>4, <2>5, Zenon
<1> QED
  BY <1>2, <1>6, <1>8 DEF a, p, e

\* A header that is set unless it is there.
LEMMA DefaultEntry ==
    ASSUME NEW V, NEW h \in Headers(V), NEW name \in Lexemes, NEW value \in V
    PROVE  /\ Default(h, name, value) \in Headers(V)
           /\ Entries(Default(h, name, value)) =
                  Entries(h) \cup IF Has(h, name) THEN {} ELSE {<<name, value>>}
<1>1. CASE Has(h, name)
  BY <1>1 DEF Default
<1>2. CASE ~Has(h, name)
  <2>1. Default(h, name, value) = Append(h, <<name, value>>)
    BY <1>2 DEF Default
  <2>2. /\ Append(h, <<name, value>>) \in Headers(V)
        /\ <<<<name, value>>>> \o h \in Headers(V)
        /\ Entries(Append(h, <<name, value>>)) = Entries(h) \cup {<<name, value>>}
        /\ Entries(<<<<name, value>>>> \o h) = Entries(h) \cup {<<name, value>>}
    BY <1>2, AddedEntry, SMTT(40)
  <2>3. (IF Has(h, name) THEN {} ELSE {<<name, value>>}) = {<<name, value>>}
    BY <1>2
  <2> QED
    BY <2>1, <2>2, <2>3
<1> QED
  BY <1>1, <1>2

\* A head with these headers and those that were missing.
HeadOf(head, code, h, body) ==
    /\ head = [status |-> code, headers |-> head.headers]
    /\ head.headers \in Headers(Values)
    /\ Entries(head.headers) =
         Entries(h)
         \cup (IF Has(h, "Content-Type") THEN {} ELSE {<<"Content-Type", "text/plain">>})
         \cup (IF Has(h, "Content-Length") THEN {} ELSE {<<"Content-Length", Len(body)>>})
         \cup (IF Has(h, "Connection") THEN {} ELSE {<<"Connection", "keep-alive">>})

\* Response::head: what it adds.
LEMMA HeadEntries ==
    ASSUME NEW code, NEW h \in Headers(Values), NEW B, NEW body \in Seq(B)
    PROVE  HeadOf(ResponseHead(code, h, body), code, h, body)
<1> DEFINE len    == Len(body)
           typed  == IF Has(h, "Content-Type") THEN h
                     ELSE <<<<"Content-Type", "text/plain">>>> \o h
           framed == Default(typed, "Content-Length", len)
           all    == Default(framed, "Connection", "keep-alive")
<1>1. /\ "Content-Type" \in Lexemes /\ "Content-Length" \in Lexemes /\ "Connection" \in Lexemes
      /\ "text/plain" \in Values /\ "keep-alive" \in Values
  BY DEF Lexemes, Values
<1>2. len \in Values
  <2>1. len \in Nat
    OBVIOUS
  <2> QED
    BY <2>1 DEF Values
<1>3. ResponseHead(code, h, body) = [status |-> code, headers |-> all]
  BY DEF ResponseHead
<1>4. /\ typed \in Headers(Values)
      /\ Entries(typed) = Entries(h) \cup IF Has(h, "Content-Type") THEN {}
                                         ELSE {<<"Content-Type", "text/plain">>}
  BY <1>1, AddedEntry
<1> HIDE DEF len, typed
<1>5. /\ framed \in Headers(Values)
      /\ Entries(framed) = Entries(typed) \cup IF Has(typed, "Content-Length") THEN {}
                                               ELSE {<<"Content-Length", len>>}
  BY <1>1, <1>2, <1>4, DefaultEntry
<1> HIDE DEF framed
<1>6. /\ all \in Headers(Values)
      /\ Entries(all) = Entries(framed) \cup IF Has(framed, "Connection") THEN {}
                                             ELSE {<<"Connection", "keep-alive">>}
  BY <1>1, <1>5, DefaultEntry
<1> HIDE DEF all
<1>7. Has(typed, "Content-Length") <=> Has(h, "Content-Length")
  BY <1>4, HasEntry, CaseFolds DEF SameName
<1>8. Has(framed, "Connection") <=> Has(h, "Connection")
  <2>1. Has(typed, "Connection") <=> Has(h, "Connection")
    BY <1>4, HasEntry, CaseFolds DEF SameName
  <2>2. Has(framed, "Connection") <=> Has(typed, "Connection")
    BY <1>5, HasEntry, CaseFolds DEF SameName
  <2> QED
    BY <2>1, <2>2
<1>9. Entries(all) =
                Entries(h)
                \cup (IF Has(h, "Content-Type") THEN {} ELSE {<<"Content-Type", "text/plain">>})
                \cup (IF Has(h, "Content-Length") THEN {} ELSE {<<"Content-Length", len>>})
                \cup (IF Has(h, "Connection") THEN {} ELSE {<<"Connection", "keep-alive">>})
  BY <1>4, <1>5, <1>6, <1>7, <1>8, Zenon
<1> DEFINE head == ResponseHead(code, h, body)
<1>10. head.headers = all /\ head = [status |-> code, headers |-> head.headers]
  BY <1>3
<1> HIDE DEF head
<1> QED
  BY <1>6, <1>9, <1>10, Zenon DEF len, HeadOf, head

\* Heads that name no header twice, and say how long the body is and what becomes
\* of the connection.
Heads == {head \in [status : Nat, headers : Headers(Values)] :
             Has(head.headers, "Content-Length") /\ Has(head.headers, "Connection")}
Responses(B) == [head : Heads, body : Seq(B)]

LEMMA WireResponseType ==
    ASSUME NEW code \in Nat, NEW h \in Headers(Values), NEW B, NEW body \in Seq(B)
    PROVE  WireResponse(code, h, body) \in Responses(B)
<1> DEFINE headers == ResponseHead(code, h, body).headers
           r == WireResponse(code, h, body)
<1> DEFINE type == IF Has(h, "Content-Type") THEN {} ELSE {<<"Content-Type", "text/plain">>}
           length == IF Has(h, "Content-Length") THEN {} ELSE {<<"Content-Length", Len(body)>>}
           fate == IF Has(h, "Connection") THEN {} ELSE {<<"Connection", "keep-alive">>}
<1> DEFINE head == ResponseHead(code, h, body)
<1>0. HeadOf(head, code, h, body)
  BY HeadEntries, Zenon
<1>1. r = [head |-> head, body |-> body] /\ head = [status |-> code, headers |-> headers]
  BY <1>0, Zenon DEF WireResponse, HeadOf
<1>2. headers \in Headers(Values) /\ Entries(headers) = Entries(h) \cup type \cup length \cup fate
  BY <1>0, Zenon DEF HeadOf
<1>3. Has(headers, "Content-Length") /\ Has(headers, "Connection")
  <2>1. Entries(h) \subseteq Entries(headers)
    BY <1>2, Zenon
  <2>2. /\ ~Has(h, "Content-Length") => <<"Content-Length", Len(body)>> \in Entries(headers)
        /\ ~Has(h, "Connection") => <<"Connection", "keep-alive">> \in Entries(headers)
    <3>1. /\ ~Has(h, "Content-Length") => <<"Content-Length", Len(body)>> \in length
          /\ ~Has(h, "Connection") => <<"Connection", "keep-alive">> \in fate
      BY Zenon
    <3> HIDE DEF length, fate
    <3> QED
      BY <1>2, <3>1, Zenon
  <2> HIDE DEF headers
  <2>3. \A name : Has(h, name) => Has(headers, name)
    BY <2>1, HasEntry, Zenon
  <2>4. ASSUME NEW name, NEW value, <<name, value>> \in Entries(headers)
        PROVE  Has(headers, name)
    <3>1. SameName(<<name, value>>[1], name)
      BY DEF SameName
    <3> QED
      BY <2>4, <3>1, HasEntry, Zenon
  <2> QED
    BY <2>2, <2>3, <2>4, Zenon
<1> HIDE DEF headers, r
<1> HIDE DEF head
<1>4. head \in [status : Nat, headers : Headers(Values)] /\ head.headers = headers
  BY <1>1, <1>2
<1>5. head \in Heads
  BY <1>3, <1>4 DEF Heads
<1> QED
  BY <1>1, <1>5 DEF Responses, r

\* What the head says of the body is true.
Sized(response) ==
    \A e \in Entries(response.head.headers) :
        SameName(e[1], "Content-Length") => e[2] = Len(response.body)

\* What becomes of the connection is said in the words ExecuteRoute looks for,
\* and no other header says keep-alive where it looks.
Fates == {<<"Connection", "close">>, <<"Connection", "keep-alive">>}
Speaks(e) == SameName(e[1], "Connection") \/ Mentions(e, "keep-alive")
Plain(headers) == \A e \in Entries(headers) : Speaks(e) => e \in Fates

LEMMA OthersAreMute ==
    ASSUME NEW e, e[1] \in {"Content-Type", "Content-Length", "ETag"}
    PROVE  ~Speaks(e) /\ ~Mentions(e, "close")
BY CaseFolds DEF Speaks, SameName, Mentions, FateNames

\* What a response of these headers h says.
Says(response, code, h, body) ==
    /\ response.head.status = code /\ response.body = body
    /\ ~Has(h, "Content-Length") => Sized(response)
    /\ Plain(h) => Plain(response.head.headers)
    /\ Has(response.head.headers, "ETag") => Has(h, "ETag")
    /\ Entries(h) \subseteq Entries(response.head.headers)

LEMMA WireResponseSays ==
    ASSUME NEW code \in Nat, NEW h \in Headers(Values), NEW B, NEW body \in Seq(B)
    PROVE  Says(WireResponse(code, h, body), code, h, body)
<1> DEFINE response == WireResponse(code, h, body)
<1> DEFINE head == ResponseHead(code, h, body)
           headers == head.headers
           type == IF Has(h, "Content-Type") THEN {} ELSE {<<"Content-Type", "text/plain">>}
           length == IF Has(h, "Content-Length") THEN {} ELSE {<<"Content-Length", Len(body)>>}
           fate == IF Has(h, "Connection") THEN {} ELSE {<<"Connection", "keep-alive">>}
<1>1. HeadOf(head, code, h, body)
  BY HeadEntries, Zenon
<1>2. response = [head |-> head, body |-> body] /\ head = [status |-> code, headers |-> headers]
  BY <1>1, Zenon DEF WireResponse, HeadOf
<1>3. Entries(headers) = Entries(h) \cup type \cup length \cup fate
  BY <1>1, Zenon DEF HeadOf
<1> HIDE DEF head
<1> HIDE DEF response
<1>4. /\ response.head.status = code /\ response.body = body /\ response.head.headers = headers
  BY <1>2
<1> HIDE DEF headers
<1>5. ASSUME NEW e \in Entries(headers), e \notin Entries(h)
      PROVE  \/ e = <<"Content-Type", "text/plain">>
             \/ ~Has(h, "Content-Length") /\ e = <<"Content-Length", Len(body)>>
             \/ e = <<"Connection", "keep-alive">>
  BY <1>3, <1>5
<1>6. ASSUME ~Has(h, "Content-Length") PROVE Sized(response)
  <2>1. ASSUME NEW e \in Entries(headers), SameName(e[1], "Content-Length") PROVE e[2] = Len(body)
    <3>1. e \notin Entries(h)
      BY <1>6, <2>1, HasEntry
    <3>2. e = <<"Content-Length", Len(body)>>
      BY <1>5, <2>1, <3>1, CaseFolds DEF SameName
    <3> QED
      BY <3>2
  <2> QED
    BY <1>4, <2>1 DEF Sized
<1>7. ASSUME Plain(h) PROVE Plain(headers)
  <2>1. ASSUME NEW e \in Entries(headers), Speaks(e) PROVE e \in Fates
    <3>1. CASE e \in Entries(h)
      BY <1>7, <2>1, <3>1 DEF Plain
    <3>2. CASE e \notin Entries(h)
      <4>1. e[1] \notin {"Content-Type", "Content-Length"}
        BY <2>1, OthersAreMute
      <4> QED
        BY <1>5, <3>2, <4>1 DEF Fates
    <3> QED
      BY <3>1, <3>2
  <2> QED
    BY <2>1 DEF Plain
<1>8. ASSUME Has(headers, "ETag") PROVE Has(h, "ETag")
  <2>1. PICK e \in Entries(headers) : SameName(e[1], "ETag")
    BY <1>8, HasEntry
  <2>2. e \in Entries(h)
    BY <1>5, <2>1, CaseFolds DEF SameName
  <2> QED
    BY <2>1, <2>2, HasEntry
<1>9. Entries(h) \subseteq Entries(headers)
  BY <1>3, Zenon
<1> HIDE DEF response
<1> QED
  BY <1>4, <1>6, <1>7, <1>8, <1>9, Zenon DEF Says, response

\* utility_t::prepare
LEMMA PrepareType ==
    ASSUME NEW B, NEW body \in Seq(B), NEW type \in Lexemes, NEW block \in Seq(Lexemes),
           NEW code \in Nat
    PROVE  Prepare(body, type, block, code) \in Responses(B)
<1> DEFINE h == <<<<"Content-Type", type>>>>
           headers == ApplyHeaders(h, block)
<1>1. h \in Headers(Lexemes)
  <2>1. "Content-Type" \in Lexemes
    BY DEF Lexemes
  <2>2. h \in Seq(Lexemes \X Lexemes)
    BY <2>1
  <2>3. OneEach(h)
    BY DEF OneEach
  <2> QED
    BY <2>2, <2>3 DEF Headers
<1> HIDE DEF h
<1>2. headers \in Headers(Lexemes)
  BY <1>1, BlockKeepsOneEach
<1>3. Lexemes \subseteq Values
  BY DEF Values
<1>4. headers \in Headers(Values)
  BY <1>2, <1>3, HeadersGrow
<1> QED
  BY <1>4, WireResponseType DEF Prepare, h

-----------------------------------------------------------------------------
(* Chains *)

Unsent == [head |-> <<>>, body |-> <<>>]

\* The query object of a request: what was sent last is a response.
Queries == [headers : Seq(Lexemes), last : Responses(Lexemes) \cup {Unsent},
            next : BOOLEAN, threw : BOOLEAN]

LEMMA TextsAreLexemes == Seq(STRING) \subseteq Seq(Lexemes)
<1>1. STRING \subseteq Lexemes
  BY DEF Lexemes
<1> HIDE DEF Lexemes
<1>2. ASSUME NEW s \in Seq(STRING) PROVE s \in Seq(Lexemes)
  <2>1. s \in [1 .. Len(s) -> STRING] /\ Len(s) \in Nat
    OBVIOUS
  <2>2. s \in [1 .. Len(s) -> Lexemes]
    BY <1>1, <2>1
  <2>3. \A n \in Nat : \A f \in [1 .. n -> Lexemes] : f \in Seq(Lexemes)
    BY SeqDef
  <2> QED
    BY <2>1, <2>2, <2>3
<1> QED
  BY <1>2

LEMMA CalledType ==
    ASSUME NEW query \in Queries, NEW c \in Calls
    PROVE  Called(query, c) \in Queries
<1>1. CASE c \in [call : {"setHeaders"}, block : Seq(STRING)]
  <2>1. c.call = "setHeaders" /\ c.block \in Seq(Lexemes)
    BY <1>1, TextsAreLexemes
  <2> DEFINE headers == query.headers \o c.block \o <<"LF">>
  <2>2. headers \in Seq(Lexemes)
    <3>1. "LF" \in Lexemes
      BY DEF Lexemes
    <3>2. query.headers \in Seq(Lexemes)
      BY DEF Queries
    <3> HIDE DEF headers
    <3> QED
      BY <2>1, <3>1, <3>2 DEF headers
  <2>3. Called(query, c) = [query EXCEPT !.headers = headers]
    BY <2>1 DEF Called
  <2> HIDE DEF headers
  <2> QED
    BY <2>2, <2>3 DEF Queries
<1>2. CASE c \in [call : {"send"}, body : Seq(STRING), type : STRING, status : Nat]
  <2>1. /\ c.call = "send" /\ c.body \in Seq(Lexemes) /\ c.type \in Lexemes /\ c.status \in Nat
        /\ query.headers \in Seq(Lexemes)
    <3>1. STRING \subseteq Lexemes
      BY DEF Lexemes
    <3> QED
      BY <1>2, <3>1, TextsAreLexemes DEF Queries
  <2> DEFINE last == Prepare(c.body, c.type, query.headers, c.status)
  <2>2. last \in Responses(Lexemes)
    BY <2>1, PrepareType
  <2>3. Called(query, c) = [query EXCEPT !.last = last]
    BY <2>1 DEF Called
  <2> HIDE DEF last
  <2> QED
    BY <2>2, <2>3 DEF Queries
<1>3. CASE c \in [call : {"next", "throw"}]
  <2>1. Called(query, c) \in {[query EXCEPT !.next = TRUE], [query EXCEPT !.threw = TRUE]}
    <3>1. CASE c.call = "next"
      BY <3>1 DEF Called
    <3>2. CASE c.call = "throw"
      BY <3>2 DEF Called
    <3> QED
      BY <1>3, <3>1, <3>2
  <2>2. /\ [query EXCEPT !.next = TRUE] \in Queries
        /\ [query EXCEPT !.threw = TRUE] \in Queries
    BY DEF Queries
  <2> QED
    BY <2>1, <2>2
<1> QED
  BY <1>1, <1>2, <1>3 DEF Calls

LEMMA PerformType ==
    ASSUME NEW query \in Queries, NEW calls \in Seq(Calls)
    PROVE  Perform(query, calls) \in Queries
<1> DEFINE S == Queries
           n == Len(calls)
           Is(f) == f = [k \in 0 .. n |->
                            IF k = 0 THEN query
                            ELSE LET q == f[k - 1] IN IF q.threw THEN q ELSE Called(q, calls[k])]
           f == CHOOSE f : Is(f)
           step == [a \in (1 .. n) \X S |-> IF a[2].threw THEN a[2] ELSE Called(a[2], calls[a[1]])]
<1>1. n \in Nat /\ \A k \in 1 .. n : calls[k] \in Calls
  OBVIOUS
<1>2. Perform(query, calls) = f[n]
  BY Zenon DEF Perform
<1>3. \A q \in S, k \in 1 .. n : Called(q, calls[k]) \in S
  BY <1>1, CalledType
<1> HIDE DEF S, n
<1>4. step \in [(1 .. n) \X S -> S]
  BY <1>3
<1>5. \A q \in S, k \in 1 .. n : step[<<k, q>>] = IF q.threw THEN q ELSE Called(q, calls[k])
  OBVIOUS
<1> HIDE DEF step
<1>6. query \in S
  BY DEF S
<1>7. PICK g \in [0 .. n -> S] :
         g[0] = query /\ \A k \in 1 .. n : g[k] = step[<<k, g[k - 1]>>]
  <2>1. Iterates(S, n, query, step)
    BY <1>1, <1>4, <1>6, Iteration
  <2> QED
    BY <2>1 DEF Iterates
<1>8. \A k \in 0 .. n : k # 0 => k \in 1 .. n /\ k - 1 \in 0 .. n
  BY <1>1
<1>9. Is(g)
  <2>1. \A k \in 0 .. n : g[k] =
           IF k = 0 THEN query
           ELSE LET q == g[k - 1] IN IF q.threw THEN q ELSE Called(q, calls[k])
    BY <1>5, <1>7, <1>8
  <2> QED
    BY <1>7, <2>1
<1>10. Is(f)
  BY <1>9, Zenon
<1> HIDE DEF f
<1>11. f[0] = query /\ \A k \in 1 .. n : k # 0 /\ k \in 0 .. n /\
         f[k] = IF f[k - 1].threw THEN f[k - 1] ELSE Called(f[k - 1], calls[k])
  BY <1>1, <1>10
<1>12. \A k \in 0 .. n : f[k] \in S
  BY <1>1, <1>3, <1>6, <1>11, IterationKeeps
<1> QED
  BY <1>1, <1>2, <1>12 DEF S

\* Core_init_t::execute: whatever the middlewares call, what was sent last is
\* nothing or a response with no header named twice.
THEOREM ChainType ==
    ASSUME NEW chain \in Seq(Seq(Calls))
    PROVE  ExecuteChain(Query, chain) \in Queries
<1> DEFINE S == Queries
           n == Len(chain)
           x == [Query EXCEPT !.next = TRUE]
           Onward(q, k) == IF q.next /\ ~q.threw THEN Perform([q EXCEPT !.next = FALSE], chain[k]) ELSE q
           Is(f) == f = [k \in 0 .. n |->
                            IF k = 0 THEN x
                            ELSE LET q == f[k - 1]
                                 IN  IF q.next /\ ~q.threw
                                     THEN Perform([q EXCEPT !.next = FALSE], chain[k]) ELSE q]
           f == CHOOSE f : Is(f)
           step == [a \in (1 .. n) \X S |-> Onward(a[2], a[1])]
<1>1. n \in Nat /\ \A k \in 1 .. n : chain[k] \in Seq(Calls)
  OBVIOUS
<1>2. ExecuteChain(Query, chain) = f[n]
  BY Zenon DEF ExecuteChain
<1>3. \A q \in S, k \in 1 .. n : Onward(q, k) \in S
  <2>1. ASSUME NEW q \in S, NEW k \in 1 .. n PROVE Perform([q EXCEPT !.next = FALSE], chain[k]) \in S
    <3>1. [q EXCEPT !.next = FALSE] \in Queries
      BY DEF Queries
    <3> QED
      BY <1>1, <3>1, PerformType
  <2> QED
    BY <2>1
<1>6. x \in S
  <2>1. Query = [headers |-> <<>>, last |-> Unsent, next |-> FALSE, threw |-> FALSE]
    BY Zenon DEF Query, Unsent
  <2>2. Query \in Queries
    BY <2>1 DEF Queries
  <2>3. \A q \in Queries : [q EXCEPT !.next = TRUE] \in Queries
    BY DEF Queries
  <2> QED
    BY <2>2, <2>3
<1>5. \A g : Is(g) <=> g = [k \in 0 .. n |-> IF k = 0 THEN x ELSE Onward(g[k - 1], k)]
  BY Zenon
<1> HIDE DEF S, n, x, Onward, Is
<1>4. step \in [(1 .. n) \X S -> S]
  BY <1>3
<1>4a. \A q \in S, k \in 1 .. n : step[<<k, q>>] = Onward(q, k)
  OBVIOUS
<1> HIDE DEF step
<1>7. PICK g \in [0 .. n -> S] :
         g[0] = x /\ \A k \in 1 .. n : g[k] = step[<<k, g[k - 1]>>]
  <2>1. Iterates(S, n, x, step)
    BY <1>1, <1>4, <1>6, Iteration
  <2> QED
    BY <2>1 DEF Iterates
<1>8. \A k \in 0 .. n : k # 0 => k \in 1 .. n /\ k - 1 \in 0 .. n
  BY <1>1
<1>9. Is(g)
  <2>1. \A k \in 0 .. n : g[k] = IF k = 0 THEN x ELSE Onward(g[k - 1], k)
    BY <1>4a, <1>7, <1>8
  <2>2. g = [k \in 0 .. n |-> IF k = 0 THEN x ELSE Onward(g[k - 1], k)]
    BY <1>7, <2>1
  <2> QED
    BY <1>5, <2>2
<1>10. f = [k \in 0 .. n |-> IF k = 0 THEN x ELSE Onward(f[k - 1], k)]
  <2>1. Is(f)
    BY <1>9, Zenon
  <2> HIDE DEF f
  <2> QED
    BY <1>5, <2>1
<1> HIDE DEF f
<1>11. f[0] = x /\ \A k \in 1 .. n : k # 0 /\ k \in 0 .. n /\ f[k] = Onward(f[k - 1], k)
  BY <1>1, <1>10
<1>12. \A k \in 0 .. n : f[k] \in S
  BY <1>1, <1>3, <1>6, <1>11, IterationKeeps
<1> QED
  BY <1>1, <1>2, <1>12 DEF S

-----------------------------------------------------------------------------
(* Exchange *)

Words == STRING \cup {"/", "US"}
Bytes == Lexemes \cup Versions

\* What may be answered: the head says how long the body is.
Answers == {r \in Responses(Bytes) : /\ Sized(r)
                                     /\ r.head.status \in {204, 304} => r.body = <<>>}

\* The heads and lexemes that may be on the wire.
SentHeads == {head \in Heads : \A e \in Entries(head.headers) :
                                   SameName(e[1], "Content-Length") => e[2] \in Nat}
Sent == ({"head"} \X SentHeads) \cup {<<"blank">>} \cup ({"byte"} \X Bytes)

DiskOk == \A name \in DOMAIN disk : disk[name] \in Versions \cup Unreadable

\* Every route has a handler.
Exacts == UNION {[keys -> DOMAIN Chains] : keys \in SUBSET Seq(Words)}
Patterns == [segments : {SplitPath(path) : path \in Texts}, method : Texts, handler : DOMAIN Chains]
Mounts == [kind : {"mount"}, prefix : Seq(Words), cache : BOOLEAN, spa : BOOLEAN]
Tables == [exact : Exacts, patterns : Seq(Patterns), mounts : Seq(Mounts)]

Questions == [target : Texts, method : Texts, version : STRING, connection : STRING,
              parses : BOOLEAN, tags : SUBSET Values]

TypeInv ==
    /\ log \in Seq(Registrations)
    /\ table \in Tables
    /\ stage \in {"setup", "idle", "writing", "closed"}
    /\ allow_keep_alive \in BOOLEAN /\ keep_alive \in BOOLEAN /\ cut \in BOOLEAN
    /\ DiskOk
    /\ out \in [head : Seq(Sent), body : Seq(Sent)]
    /\ asked \in Seq(Questions \cup {[method |-> Get]})
    /\ wire \in Seq(Sent)
    /\ \A target \in DOMAIN copies : copies[target].etag \in Values

-----------------------------------------------------------------------------
(* Headers and their values *)

LEMMA ValueOfEntry ==
    ASSUME NEW head, NEW name, Has(head.headers, name)
    PROVE  \E e \in Entries(head.headers) : SameName(e[1], name) /\ Value(head, name) = e[2]
<1> DEFINE h == head.headers
           i == CHOOSE i \in DOMAIN h : SameName(h[i][1], name)
<1>1. \E j \in DOMAIN h : SameName(h[j][1], name)
  BY DEF Has
<1>2. i \in DOMAIN h /\ SameName(h[i][1], name)
  BY <1>1, Zenon
<1>3. Value(head, name) = h[i][2]
  BY Zenon DEF Value
<1> HIDE DEF i
<1>4. h[i] \in Entries(h)
  BY <1>2 DEF Entries
<1> QED
  BY <1>2, <1>3, <1>4, Zenon

LEMMA OneEntry ==
    ASSUME NEW headers, OneEach(headers), NEW name,
           NEW e \in Entries(headers), NEW f \in Entries(headers),
           SameName(e[1], name), SameName(f[1], name)
    PROVE  e = f
<1>1. PICK i \in DOMAIN headers : e = headers[i]
  BY DEF Entries
<1>2. PICK j \in DOMAIN headers : f = headers[j]
  BY DEF Entries
<1>3. CaseFold(headers[i][1]) = CaseFold(headers[j][1])
  BY <1>1, <1>2, Zenon DEF SameName
<1>4. i = j
  BY <1>3, Zenon DEF OneEach
<1> QED
  BY <1>1, <1>2, <1>4

\* The value of a header is that of the entry with its name.
LEMMA ValueIs ==
    ASSUME NEW head, OneEach(head.headers), NEW name, NEW e \in Entries(head.headers),
           SameName(e[1], name)
    PROVE  Value(head, name) = e[2]
<1>1. Has(head.headers, name)
  BY HasEntry
<1>2. PICK f \in Entries(head.headers) : SameName(f[1], name) /\ Value(head, name) = f[2]
  BY <1>1, ValueOfEntry
<1> QED
  BY <1>2, OneEntry

\* Announce: one header may change, to one that says close.
LEMMA AnnounceIs ==
    ASSUME NEW head \in Heads, NEW keep \in BOOLEAN, NEW said, said = Announce(head, keep)
    PROVE  /\ said \in Heads
           /\ said.status = head.status
           /\ \A e \in Entries(said.headers) : e \in Entries(head.headers) \/ Mentions(e, "close")
           /\ \A e \in Entries(head.headers) : e \in Entries(said.headers) \/ Mentions(e, "keep-alive")
           /\ keep => said = head
           /\ ~keep /\ Plain(head.headers) =>
                  <<"Connection", "keep-alive">> \notin Entries(said.headers)
<1> DEFINE h == head.headers
           at == {i \in DOMAIN h : Mentions(h[i], "keep-alive")}
           m == Min(at)
           c == <<h[m][1], "close">>
           s == [h EXCEPT ![m] = c]
           r == [head EXCEPT !.headers[m] = <<@[1], "close">>]
<1>1. /\ h \in Seq(Lexemes \X Values) /\ OneEach(h) /\ DOMAIN h = 1 .. Len(h) /\ Len(h) \in Nat
      /\ Has(h, "Content-Length") /\ Has(h, "Connection")
  BY DEF Heads, Headers
<1>2. CASE keep \/ at = {}
  <2>1. said = head
    BY <1>2 DEF Announce
  <2>2. ~keep => <<"Connection", "keep-alive">> \notin Entries(h)
    BY <1>2 DEF Entries, Mentions, FateNames
  <2> QED
    BY <2>1, <2>2
<1>3. CASE ~(keep \/ at = {})
  <2>1. at \subseteq Nat /\ at \subseteq DOMAIN h /\ at # {}
    BY <1>1, <1>3
  <2>2. m \in at
    <3> HIDE DEF at
    <3> QED
      BY <2>1, MinIsLeast
  <2>3. m \in DOMAIN h /\ Mentions(h[m], "keep-alive")
    BY <2>2
  <2>4. said = r
    BY <1>3, Zenon DEF Announce
  <2> HIDE DEF m
  <2>5. r = [head EXCEPT !.headers = s]
    BY <1>1, <2>3 DEF Heads
  <2>6. r \in [status : Nat, headers : {s}] /\ r.status = head.status /\ r.headers = s
    BY <2>5 DEF Heads
  <2>7. c \in Lexemes \X Values /\ c[1] = h[m][1] /\ Mentions(c, "close") /\ ~Mentions(c, "keep-alive")
    <3>1. h[m] \in Lexemes \X Values
      BY <1>1, <2>3
    <3>2. "close" \in Values
      BY DEF Lexemes, Values
    <3> QED
      BY <2>3, <3>1, <3>2 DEF Mentions
  <2> HIDE DEF c
  <2>8. s \in Seq(Lexemes \X Values) /\ DOMAIN s = DOMAIN h
        /\ \A i \in DOMAIN h : s[i] = IF i = m THEN c ELSE h[i]
    <3> DEFINE T == Lexemes \X Values
    <3>1. c \in T /\ m \in 1 .. Len(h)
      BY <1>1, <2>3, <2>7
    <3> HIDE DEF T
    <3>2. /\ [h EXCEPT ![m] = c] \in Seq(T)
          /\ \A j \in 1 .. Len(h) : [h EXCEPT ![m] = c][j] = IF j = m THEN c ELSE h[j]
      BY <1>1, <3>1, ExceptSeq DEF T
    <3> QED
      BY <1>1, <3>1, <3>2 DEF T
  <2> HIDE DEF s, r
  <2>9. \A i \in DOMAIN h : s[i][1] = h[i][1]
    BY <2>7, <2>8
  <2>10. OneEach(s)
    BY <1>1, <2>8, <2>9, Zenon DEF OneEach
  <2>11. \A name : Has(h, name) => Has(s, name)
    BY <2>8, <2>9, Zenon DEF Has
  <2>12. s \in Headers(Values)
    BY <2>8, <2>10 DEF Headers
  <2>13. said \in Heads
    BY <1>1, <2>4, <2>6, <2>11, <2>12 DEF Heads
  <2>14. \A e \in Entries(s) : e \in Entries(h) \/ Mentions(e, "close")
    BY <2>7, <2>8 DEF Entries
  <2>15. \A e \in Entries(h) : e \in Entries(s) \/ Mentions(e, "keep-alive")
    BY <2>3, <2>8 DEF Entries
  <2>16. Plain(h) => <<"Connection", "keep-alive">> \notin Entries(s)
    <3> SUFFICES ASSUME Plain(h), NEW i \in DOMAIN h, s[i] = <<"Connection", "keep-alive">> PROVE FALSE
      BY <2>8 DEF Entries
    <3>1. Mentions(s[i], "keep-alive")
      BY DEF Mentions, FateNames
    <3>2. i # m /\ h[i] = <<"Connection", "keep-alive">>
      BY <2>7, <2>8, <3>1
    <3>3. h[m] \in Fates
      BY <2>3 DEF Plain, Entries, Speaks
    <3>4. CaseFold(h[i][1]) = CaseFold(h[m][1])
      BY <3>2, <3>3 DEF Fates
    <3> QED
      BY <1>1, <2>3, <3>2, <3>4, Zenon DEF OneEach
  <2> QED
    BY <1>3, <2>4, <2>6, <2>13, <2>14, <2>15, <2>16
<1> QED
  BY <1>2, <1>3

-----------------------------------------------------------------------------
(* Answers *)

\* Headers with these entries.
Consist(headers, entries) == headers \in Headers(Values) /\ Entries(headers) = entries

LEMMA OneHeader ==
    ASSUME NEW a \in Lexemes, NEW x \in Values
    PROVE  Consist(<<<<a, x>>>>, {<<a, x>>})
<1> DEFINE h == <<<<a, x>>>>
<1>1. h \in Seq(Lexemes \X Values) /\ DOMAIN h = {1} /\ h[1] = <<a, x>>
  OBVIOUS
<1> HIDE DEF h
<1>2. OneEach(h)
  BY <1>1 DEF OneEach
<1>3. Entries(h) = {<<a, x>>}
  BY <1>1 DEF Entries
<1> QED
  BY <1>1, <1>2, <1>3 DEF Headers, Consist, h

LEMMA TwoInRow ==
    ASSUME NEW x, NEW y
    PROVE  <<x>> \o <<y>> = <<x, y>>
<1> DEFINE S == {x, y}
           c == <<x>> \o <<y>>
           d == <<x, y>>
<1>1. /\ <<x>> \in Seq(S) /\ Len(<<x>>) = 1 /\ <<x>>[1] = x
      /\ <<y>> \in Seq(S) /\ Len(<<y>>) = 1 /\ <<y>>[1] = y
      /\ d \in Seq(S) /\ Len(d) = 2 /\ d[1] = x /\ d[2] = y
  OBVIOUS
<1>2. /\ c \in Seq(S) /\ Len(c) = 1 + 1
      /\ \A i \in 1 .. 1 + 1 : c[i] = IF i <= 1 THEN <<x>>[i] ELSE <<y>>[i - 1]
  BY <1>1, ConcatProperties
<1> HIDE DEF S, c, d
<1>3. c[1] = x /\ c[2] = y /\ Len(c) = 2
  BY <1>1, <1>2
<1>4. \A i \in 1 .. Len(c) : c[i] = d[i]
  BY <1>1, <1>3
<1>5. c = d
  BY <1>1, <1>2, <1>3, <1>4, SeqEqual
<1> QED
  BY <1>5 DEF c, d

LEMMA TwoHeaders ==
    ASSUME NEW a \in Lexemes, NEW x \in Values, NEW b \in Lexemes, NEW y \in Values,
           CaseFold(a) # CaseFold(b)
    PROVE  Consist(<<<<a, x>>, <<b, y>>>>, {<<a, x>>, <<b, y>>})
<1> DEFINE h == <<<<a, x>>, <<b, y>>>>
<1>1. h \in Seq(Lexemes \X Values) /\ DOMAIN h = {1, 2} /\ h[1] = <<a, x>> /\ h[2] = <<b, y>>
  <2>1. DOMAIN h = 1 .. 2
    OBVIOUS
  <2> QED
    BY <2>1
<1>2. h[1][1] = a /\ h[2][1] = b
  BY <1>1
<1> HIDE DEF h
<1>3. OneEach(h)
  BY <1>1, <1>2 DEF OneEach
<1>4. Entries(h) = {<<a, x>>, <<b, y>>}
  <2>1. \A e : e \in Entries(h) <=> \E i \in {1, 2} : e = h[i]
    BY <1>1, Zenon DEF Entries
  <2> QED
    BY <1>1, <2>1
<1> QED
  BY <1>1, <1>3, <1>4 DEF Headers, Consist, h

LEMMA Literals ==
    /\ "Connection" \in Lexemes /\ "Content-Type" \in Lexemes /\ "ETag" \in Lexemes
    /\ "application/json" \in Values /\ "mime" \in Values /\ "close" \in Values
    /\ "error" \in Bytes /\ "message" \in Lexemes /\ "application/json" \in Lexemes
BY DEF Lexemes, Values, Bytes

LEMMA LexemesAreBytes == Seq(Lexemes) \subseteq Seq(Bytes)
<1>1. Lexemes \subseteq Bytes
  BY DEF Bytes
<1> QED
  BY <1>1, SeqMonotonic

\* A response with these headers h, a status and a body that go together.
Own(response, code, h, body) ==
    /\ response \in Answers /\ Plain(response.head.headers)
    /\ response.head.status = code /\ response.body = body
    /\ Has(response.head.headers, "ETag") => Has(h, "ETag")
    /\ Entries(h) \subseteq Entries(response.head.headers)

LEMMA OwnAnswer ==
    ASSUME NEW code \in Nat, NEW h \in Headers(Values), NEW body \in Seq(Bytes),
           code \in {204, 304} => body = <<>>,
           ~Has(h, "Content-Length"), Plain(h)
    PROVE  Own(WireResponse(code, h, body), code, h, body)
<1> DEFINE response == WireResponse(code, h, body)
<1>1. response \in Responses(Bytes)
  BY WireResponseType
<1>2. Says(response, code, h, body)
  BY WireResponseSays
<1> HIDE DEF response
<1>3. response \in Answers
  BY <1>1, <1>2 DEF Answers, Says
<1> QED
  BY <1>2, <1>3, Zenon DEF Own, Says, response

\* An answer without an ETag.
Tagless(response, code) ==
    /\ response \in Answers /\ Plain(response.head.headers)
    /\ response.head.status = code
    /\ ~Has(response.head.headers, "ETag")

\* An error as JSON, whether the connection's fate is among its headers or not.
LEMMA ErrorAnswer ==
    ASSUME NEW code \in Nat \ {204, 304},
           NEW h \in {<<<<"Content-Type", "application/json">>>>,
                      <<<<"Content-Type", "application/json">>, <<"Connection", "close">>>>}
    PROVE  /\ Tagless(WireResponse(code, h, <<"error">>), code)
           /\ Own(WireResponse(code, h, <<"error">>), code, h, <<"error">>)
<1> DEFINE body == <<"error">>
<1>1. h \in Headers(Values)
  BY OneHeader, TwoHeaders, Literals, CaseFolds DEF Consist
<1>2. \A e \in Entries(h) : e = <<"Content-Type", "application/json">> \/ e = <<"Connection", "close">>
  BY OneHeader, TwoHeaders, Literals, CaseFolds DEF Consist
<1>3. body \in Seq(Bytes)
  BY Literals
<1> HIDE DEF body
<1>4. \A e \in Entries(h) : ~SameName(e[1], "Content-Length") /\ ~SameName(e[1], "ETag")
  BY <1>2, CaseFolds DEF SameName
<1>5. ~Has(h, "Content-Length") /\ ~Has(h, "ETag")
  BY <1>4, HasEntry, Zenon
<1>6. Plain(h)
  <2> SUFFICES ASSUME NEW e \in Entries(h), Speaks(e) PROVE e \in Fates
    BY DEF Plain
  <2> QED
    BY <1>2, OthersAreMute DEF Fates
<1>7. code \in Nat /\ (code \in {204, 304} => body = <<>>)
  OBVIOUS
<1>8. Own(WireResponse(code, h, body), code, h, body)
  BY <1>1, <1>3, <1>5, <1>6, <1>7, OwnAnswer
<1>9. Tagless(WireResponse(code, h, body), code)
  BY <1>5, <1>8, Zenon DEF Own, Tagless
<1> QED
  BY <1>8, <1>9 DEF body

LEMMA FallbackType ==
    ASSUME NEW parsed \in BOOLEAN
    PROVE  Tagless(Fallback(parsed), IF parsed THEN 404 ELSE 400)
<1> DEFINE code == IF parsed THEN 404 ELSE 400
           h == <<<<"Content-Type", "application/json">>>>
           body == <<"error">>
<1>1. code \in Nat \ {204, 304}
  OBVIOUS
<1>2. Fallback(parsed) = WireResponse(code, h, body)
  BY Zenon DEF Fallback
<1>3. h \in {h, <<<<"Content-Type", "application/json">>, <<"Connection", "close">>>>}
  BY Zenon
<1> HIDE DEF code
<1>4. Tagless(WireResponse(code, h, body), code)
  BY <1>1, <1>3, ErrorAnswer, Zenon
<1> QED
  BY <1>2, <1>4, ZenonT(60) DEF code

\* utility_t::guard_route
LEMMA GuardType == Tagless(GuardRoute, 401)
<1> DEFINE h == <<<<"Content-Type", "application/json">>>>
           body == <<"message">>
<1>1. GuardRoute = WireResponse(401, h, body)
  BY EmptyBlock, Zenon DEF GuardRoute, Prepare
<1>2. h \in Headers(Values) /\ Entries(h) = {<<"Content-Type", "application/json">>}
  BY OneHeader, Literals DEF Consist
<1>3. body \in Seq(Bytes)
  BY Literals DEF Bytes
<1> HIDE DEF h, body
<1>4. ~Has(h, "Content-Length") /\ ~Has(h, "ETag") /\ Plain(h)
  BY <1>2, HasEntry, OthersAreMute, CaseFolds DEF SameName, Plain
<1>5. 401 \in Nat /\ (401 \in {204, 304} => body = <<>>)
  OBVIOUS
<1>6. Own(GuardRoute, 401, h, body)
  BY <1>1, <1>2, <1>3, <1>4, <1>5, OwnAnswer
<1> QED
  BY <1>4, <1>6, Zenon DEF Own, Tagless

\* What a mount serves: a body for every status but 304.
Serves == {s \in [status : Nat, body : Seq(Bytes), etag : Nat \X Nat] :
              s.status \in {204, 304} => s.body = <<>>}

LEMMA ContentType ==
    ASSUME NEW version \in Versions
    PROVE  Content(version) \in Seq(Bytes) /\ MakeEtag(version) \in Nat \X Nat
<1>1. SizeOf[version] \in Nat /\ MTimeOf[version] \in Nat
  BY StaticAssumption
<1>2. version \in Bytes
  BY DEF Bytes
<1> HIDE DEF Bytes
<1>3. Content(version) \in [1 .. SizeOf[version] -> Bytes]
  BY <1>2 DEF Content
<1>4. \A n \in Nat : \A f \in [1 .. n -> Bytes] : f \in Seq(Bytes)
  BY SeqDef
<1> QED
  BY <1>1, <1>3, <1>4 DEF MakeEtag

LEMMA ErrorIsServed ==
    ASSUME NEW code \in Nat \ {204, 304}
    PROVE  Error(code) \in Serves
<1>1. <<"error">> \in Seq(Bytes) /\ NoEtag \in Nat \X Nat
  BY Literals DEF NoEtag
<1> QED
  BY <1>1 DEF Error, Respond, Serves

LEMMA RegularType ==
    ASSUME NEW mount, NEW version \in Versions, NEW tags
    PROVE  Regular(mount, version, tags) \in Serves
<1>1. Content(version) \in Seq(Bytes) /\ MakeEtag(version) \in Nat \X Nat
  BY ContentType
<1>2. <<>> \in Seq(Bytes) /\ NoEtag \in Nat \X Nat
  BY DEF NoEtag
<1> QED
  BY <1>1, <1>2 DEF Regular, Respond, Serves

LEMMA KindType ==
    ASSUME NEW files, \A name \in DOMAIN files : files[name] \in Versions \cup Unreadable,
           NEW name
    PROVE  KindAt(files, name) \in Versions \cup Unreadable
BY DEF KindAt, Unreadable

LEMMA ServePathType ==
    ASSUME NEW files, \A name \in DOMAIN files : files[name] \in Versions \cup Unreadable,
           NEW mount, NEW full, NEW tags
    PROVE  ServePath(mount, files, full, tags) \in Serves
<1> DEFINE name == IF KindAt(files, full) = "missing" /\ mount.spa THEN <<Index>> ELSE full
           kind == KindAt(files, name)
<1>1. kind \in Versions \cup Unreadable
  BY KindType
<1>2. ServePath(mount, files, full, tags) =
        CASE kind = "missing" -> Error(404)
          [] kind \in {"dir", "outside"} -> Error(403)
          [] kind = "large" -> Error(413)
          [] kind = "unreadable" -> Error(500)
          [] OTHER -> Regular(mount, kind, tags)
  BY Zenon DEF ServePath
<1> HIDE DEF kind
<1>3. /\ Error(404) \in Serves /\ Error(403) \in Serves
      /\ Error(413) \in Serves /\ Error(500) \in Serves
  BY ErrorIsServed
<1>4. kind \in Versions => Regular(mount, kind, tags) \in Serves
  BY RegularType
<1> QED
  BY <1>1, <1>2, <1>3, <1>4 DEF Unreadable

LEMMA ServeType ==
    ASSUME NEW files, \A name \in DOMAIN files : files[name] \in Versions \cup Unreadable,
           NEW mount, NEW target, NEW method, NEW tags
    PROVE  Serve(mount, files, target, method, tags) \in Serves \cup {Declined}
<1>1. Error(403) \in Serves
  BY ErrorIsServed
<1>2. \A full : ServePath(mount, files, full, tags) \in Serves
  BY ServePathType
<1> QED
  BY <1>1, <1>2 DEF Serve

\* The response for a file.
Filed(response, served) ==
    /\ response \in Answers /\ Plain(response.head.headers)
    /\ response.head.status = served.status /\ response.body = served.body
    /\ Has(response.head.headers, "ETag") => served.etag # NoEtag
    /\ served.etag # NoEtag => <<"ETag", served.etag>> \in Entries(response.head.headers)

LEMMA OfFileType ==
    ASSUME NEW served \in Serves
    PROVE  Filed(OfFile(served), served)
<1> DEFINE h == <<<<"Content-Type", "mime">>>>
                    \o (IF served.etag = NoEtag THEN <<>> ELSE <<<<"ETag", served.etag>>>>)
           body == served.body
           code == served.status
           etag == served.etag
<1> DEFINE response == OfFile(served)
<1>1. response = WireResponse(code, h, body)
  BY Zenon DEF OfFile
<1>2. /\ code \in Nat /\ body \in Seq(Bytes) /\ etag \in Values
      /\ code \in {204, 304} => body = <<>>
  BY DEF Serves, Values
<1> HIDE DEF body, code
<1> DEFINE tag == IF etag = NoEtag THEN {} ELSE {<<"ETag", etag>>}
<1>3. h \in Headers(Values) /\ Entries(h) = {<<"Content-Type", "mime">>} \cup tag
  <2>1. CASE etag = NoEtag
    <3>1. h = <<<<"Content-Type", "mime">>>>
      <4> DEFINE x == <<"Content-Type", "mime">>
      <4>1. h = <<x>> \o <<>>
        BY <2>1, Zenon
      <4>2. <<x>> \in Seq({x})
        OBVIOUS
      <4> HIDE DEF x
      <4>3. <<x>> \o <<>> = <<x>>
        BY <4>2, ConcatEmptySeq
      <4> QED
        BY <4>1, <4>3 DEF x
    <3>2. tag = {}
      BY <2>1
    <3> HIDE DEF h, tag
    <3>3. h \in Headers(Values) /\ Entries(h) = {<<"Content-Type", "mime">>}
      BY <3>1, OneHeader, Literals DEF Consist
    <3> QED
      BY <3>2, <3>3
  <2>2. CASE etag # NoEtag
    <3>1. h = <<<<"Content-Type", "mime">>, <<"ETag", etag>>>>
      <4> DEFINE x == <<"Content-Type", "mime">>
                 y == <<"ETag", etag>>
      <4>1. h = <<x>> \o <<y>>
        BY <2>2, Zenon
      <4> HIDE DEF x, y
      <4>2. <<x>> \o <<y>> = <<x, y>>
        BY TwoInRow
      <4> QED
        BY <4>1, <4>2, Zenon DEF x, y
    <3>2. tag = {<<"ETag", etag>>}
      BY <2>2
    <3> HIDE DEF h, etag, tag
    <3>3. Consist(<<<<"Content-Type", "mime">>, <<"ETag", etag>>>>,
                  {<<"Content-Type", "mime">>, <<"ETag", etag>>})
      <4>1. CaseFold("Content-Type") # CaseFold("ETag")
        BY CaseFolds
      <4> QED
        BY <1>2, <4>1, TwoHeaders, Literals
    <3>4. h \in Headers(Values) /\ Entries(h) = {<<"Content-Type", "mime">>, <<"ETag", etag>>}
      BY <3>1, <3>3 DEF Consist
    <3> QED
      BY <3>2, <3>4
  <2> QED
    BY <2>1, <2>2
<1> HIDE DEF h, etag
<1>4. \A e \in Entries(h) : ~SameName(e[1], "Content-Length") /\ ~Speaks(e)
  BY <1>3, OthersAreMute, CaseFolds DEF SameName
<1>5. ~Has(h, "Content-Length") /\ Plain(h)
  BY <1>4, HasEntry, Zenon DEF Plain
<1>6. Has(h, "ETag") => etag # NoEtag
  BY <1>3, HasEntry, CaseFolds DEF SameName
<1>7. Own(response, code, h, body)
  BY <1>1, <1>2, <1>3, <1>5, OwnAnswer
<1>8. etag # NoEtag => <<"ETag", etag>> \in Entries(h)
  BY <1>3
<1> HIDE DEF response, tag
<1> QED
  BY <1>6, <1>7, <1>8, Zenon DEF Own, Filed, etag, body, code, response

LEMMA MatchedIs ==
    ASSUME NEW S, NEW n \in Nat, S \subseteq 1 .. n, S # {}
    PROVE  Min(S) \in S
<1>1. S \subseteq Nat
  OBVIOUS
<1> QED
  BY <1>1, MinIsLeast

\* A route that is found has a handler.
LEMMA ResolveType ==
    ASSUME NEW t \in Tables, NEW path, NEW method
    PROVE  LET who == Resolve(t, path, method) IN
           /\ who.kind \in {"route", "mount", "nobody"}
           /\ who.kind = "route" => who.who \in DOMAIN Chains
<1> DEFINE who == Resolve(t, path, method)
           named == RouteKey(path, method)
           matched == {i \in DOMAIN t.patterns :
                          /\ t.patterns[i].method = method
                          /\ MatchPattern(t.patterns[i].segments, SplitPath(path))}
           covered == \E i \in DOMAIN t.mounts : Covers(t.mounts[i], path)
           m == Min(matched)
           best == BestMount(t.mounts, path)
<1>1. who = IF named \in DOMAIN t.exact
        THEN [kind |-> "route", who |-> t.exact[named]]
        ELSE IF t.patterns # <<>>
        THEN IF matched = {} THEN Nobody ELSE [kind |-> "route", who |-> t.patterns[m].handler]
        ELSE IF covered THEN [kind |-> "mount", who |-> best]
        ELSE Nobody
  BY Zenon DEF Resolve
<1>2. named \in DOMAIN t.exact => t.exact[named] \in DOMAIN Chains
  BY DEF Tables, Exacts
<1>3. matched # {} => t.patterns[m].handler \in DOMAIN Chains
  <2>1. t.patterns \in Seq(Patterns)
    BY DEF Tables
  <2>2. matched \subseteq 1 .. Len(t.patterns) /\ Len(t.patterns) \in Nat
    BY <2>1
  <2> HIDE DEF matched
  <2>3. matched # {} => m \in 1 .. Len(t.patterns)
    BY <2>2, MatchedIs
  <2> HIDE DEF m
  <2>4. matched # {} => t.patterns[m] \in Patterns
    BY <2>1, <2>3
  <2> QED
    BY <2>4 DEF Patterns
<1> HIDE DEF who, named, matched, covered, m, best
<1>4. /\ who.kind \in {"route", "mount", "nobody"}
      /\ who.kind = "route" => who.who \in DOMAIN Chains
  BY <1>1, <1>2, <1>3 DEF Nobody
<1> QED
  BY <1>4 DEF who

\* What a handler answers is framed, as HandlersAssumption says.
LEMMA HandlerAnswers ==
    ASSUME NEW handler \in DOMAIN Chains,
           NEW done, done = ExecuteChain(Query, Chains[handler]), ~done.threw
    PROVE  done.last \in Answers
<1> DEFINE last == done.last
<1>1. done \in Queries
  BY ExchangeAssumption, ChainType
<1>2. /\ last.head # <<>>
      /\ last.head.status \in {204, 304} => last.body = <<>>
      /\ \A i \in DOMAIN last.head.headers :
            SameName(last.head.headers[i][1], "Content-Length") =>
                last.head.headers[i][2] = Len(last.body)
  BY HandlersAssumption, Zenon
<1>3. last \in Responses(Lexemes) \cup {Unsent}
  BY <1>1 DEF Queries
<1> HIDE DEF last
<1>4. last \in Responses(Lexemes)
  BY <1>2, <1>3 DEF Unsent
<1>5. last \in Responses(Bytes)
  BY <1>4, LexemesAreBytes DEF Responses
<1>6. Sized(last)
  BY <1>2, Zenon DEF Sized, Entries
<1> QED
  BY <1>2, <1>5, <1>6 DEF Answers, last

\* The cases of an answer.
AnswerCases(q, answer) ==
    LET who    == Resolve(table, PathOf(q.target), q.method)
        served == Serve(table.mounts[who.who], disk, PathOf(q.target), q.method, q.tags)
        done   == ExecuteChain(Query, Chains[who.who])
    IN  \/ \E parsed \in BOOLEAN : answer = Fallback(parsed)
        \/ answer = GuardRoute
        \/ /\ q.parses /\ who.kind = "mount"
           /\ served \in Serves /\ answer = OfFile(served)
        \/ /\ q.parses /\ who.kind = "route" /\ who.who \in DOMAIN Chains
           /\ ~done.threw /\ answer = done.last

LEMMA AnswerIs ==
    ASSUME TypeInv, NEW q, q.parses \in BOOLEAN, NEW guarded \in BOOLEAN
    PROVE  AnswerCases(q, Answer(q, guarded))
<1> DEFINE who    == Resolve(table, PathOf(q.target), q.method)
           done   == ExecuteChain(Query, Chains[who.who])
           served == Serve(table.mounts[who.who], disk, PathOf(q.target), q.method, q.tags)
           answer == Answer(q, guarded)
<1>1. answer = IF ~q.parses \/ who.kind = "nobody" THEN Fallback(q.parses)
               ELSE IF who.kind = "mount"
               THEN IF served = Declined THEN Fallback(TRUE) ELSE OfFile(served)
               ELSE IF guarded THEN GuardRoute
               ELSE IF done.threw THEN Fallback(TRUE) ELSE done.last
  BY Zenon DEF Answer
<1>2. /\ who.kind \in {"route", "mount", "nobody"}
      /\ who.kind = "route" => who.who \in DOMAIN Chains
  BY ResolveType DEF TypeInv
<1>3. served \in Serves \cup {Declined}
  BY ServeType DEF TypeInv, DiskOk
<1> HIDE DEF who, done, served, answer
<1>4. \/ \E parsed \in BOOLEAN : answer = Fallback(parsed)
      \/ answer = GuardRoute
      \/ q.parses /\ who.kind = "mount" /\ served \in Serves /\ answer = OfFile(served)
      \/ /\ q.parses /\ who.kind = "route" /\ who.who \in DOMAIN Chains
         /\ ~done.threw /\ answer = done.last
  BY <1>1, <1>2, <1>3, Zenon
<1> QED
  BY <1>4, Zenon DEF AnswerCases, answer, who, served, done

LEMMA AnswerType ==
    ASSUME TypeInv, NEW q, q.parses \in BOOLEAN, NEW guarded \in BOOLEAN
    PROVE  Answer(q, guarded) \in Answers
<1> DEFINE who    == Resolve(table, PathOf(q.target), q.method)
           done   == ExecuteChain(Query, Chains[who.who])
           served == Serve(table.mounts[who.who], disk, PathOf(q.target), q.method, q.tags)
           answer == Answer(q, guarded)
<1>1. AnswerCases(q, answer)
  BY AnswerIs
<1>2. \/ \E parsed \in BOOLEAN : answer = Fallback(parsed)
      \/ answer = GuardRoute
      \/ q.parses /\ who.kind = "mount" /\ served \in Serves /\ answer = OfFile(served)
      \/ /\ q.parses /\ who.kind = "route" /\ who.who \in DOMAIN Chains
         /\ ~done.threw /\ answer = done.last
  BY <1>1, Zenon DEF AnswerCases
<1> HIDE DEF answer, served
<1>3. ASSUME NEW parsed \in BOOLEAN PROVE Fallback(parsed) \in Answers
  BY FallbackType DEF Tagless
<1>4. GuardRoute \in Answers
  BY GuardType DEF Tagless
<1>5. served \in Serves => OfFile(served) \in Answers
  BY OfFileType DEF Filed
<1>6. who.who \in DOMAIN Chains /\ ~done.threw => done.last \in Answers
  BY HandlerAnswers
<1> QED
  BY <1>2, <1>3, <1>4, <1>5, <1>6, Zenon DEF answer

-----------------------------------------------------------------------------
(* Types *)

LEMMA BodyLexemesType ==
    ASSUME NEW body \in Seq(Bytes)
    PROVE  /\ BodyLexemes(body) \in Seq(Sent) /\ Len(BodyLexemes(body)) = Len(body)
           /\ DOMAIN BodyLexemes(body) = 1 .. Len(body) /\ Len(body) \in Nat
           /\ \A i \in 1 .. Len(body) : BodyLexemes(body)[i] = <<"byte", body[i]>>
<1> DEFINE b == BodyLexemes(body)
           n == Len(body)
<1>1. n \in Nat /\ DOMAIN body = 1 .. n /\ \A i \in 1 .. n : body[i] \in Bytes
  OBVIOUS
<1>2. b = [i \in 1 .. n |-> <<"byte", body[i]>>]
  BY <1>1 DEF BodyLexemes
<1> HIDE DEF b, n
<1>3. \A i \in 1 .. n : <<"byte", body[i]>> \in Sent
  BY <1>1 DEF Sent
<1>4. b \in [1 .. n -> Sent]
  BY <1>2, <1>3
<1>5. \A m \in Nat : \A f \in [1 .. m -> Sent] : f \in Seq(Sent)
  BY SeqDef
<1>6. b \in Seq(Sent)
  BY <1>1, <1>4, <1>5
<1>7. Len(b) = n /\ DOMAIN b = 1 .. n /\ \A i \in 1 .. n : b[i] = <<"byte", body[i]>>
  <2>1. DOMAIN b = 1 .. n
    BY <1>2
  <2>2. DOMAIN b = 1 .. Len(b) /\ Len(b) \in Nat
    BY <1>6, LenProperties
  <2> QED
    BY <1>1, <1>2, <2>1, <2>2
<1> QED
  BY <1>1, <1>6, <1>7 DEF b, n

LEMMA HeadLexemesType ==
    ASSUME NEW head \in SentHeads
    PROVE  /\ HeadLexemes(head) \in Seq(Sent) /\ Len(HeadLexemes(head)) = 2
           /\ DOMAIN HeadLexemes(head) = 1 .. 2
           /\ HeadLexemes(head)[1] = <<"head", head>> /\ HeadLexemes(head)[2] = <<"blank">>
<1> DEFINE x == <<"head", head>>
           y == <<"blank">>
<1>1. x \in Sent /\ y \in Sent
  BY DEF Sent
<1>2. HeadLexemes(head) = <<x, y>>
  BY DEF HeadLexemes
<1> HIDE DEF x, y
<1> QED
  BY <1>1, <1>2 DEF x, y

\* The head of an answer as it is sent.
LEMMA SaidIsSent ==
    ASSUME NEW response \in Answers, NEW keep \in BOOLEAN
    PROVE  /\ Announce(response.head, keep) \in SentHeads
           /\ \A e \in Entries(Announce(response.head, keep).headers) :
                  SameName(e[1], "Content-Length") => e[2] = Len(response.body)
           /\ Announce(response.head, keep).status = response.head.status
<1> DEFINE head == response.head
           said == Announce(head, keep)
<1>1. head \in Heads /\ Sized(response) /\ Len(response.body) \in Nat
  BY DEF Answers, Responses
<1> HIDE DEF head
<1>2. /\ said \in Heads /\ said.status = head.status
      /\ \A e \in Entries(said.headers) : e \in Entries(head.headers) \/ Mentions(e, "close")
  BY <1>1, AnnounceIs
<1> HIDE DEF said
<1>3. ASSUME NEW e, Mentions(e, "close") PROVE ~SameName(e[1], "Content-Length")
  BY <1>3, CaseFolds, ProxyFolds DEF SameName, Mentions, FateNames
<1>4. ASSUME NEW e \in Entries(said.headers), SameName(e[1], "Content-Length")
      PROVE  e[2] = Len(response.body)
  <2>1. ~Mentions(e, "close")
    BY <1>3, <1>4
  <2> QED
    BY <1>1, <1>2, <1>4, <2>1 DEF Sized, head
<1>5. said \in SentHeads
  BY <1>1, <1>2, <1>4 DEF SentHeads
<1> QED
  BY <1>2, <1>4, <1>5 DEF said, head

LEMMA WithoutBodyType ==
    ASSUME NEW response \in Answers, NEW q
    PROVE  /\ WithoutBody(response, q).head = response.head
           /\ WithoutBody(response, q).body \in Seq(Bytes)
           /\ WithoutBody(response, q).body = IF q.parses /\ q.method = <<"HEAD">> THEN <<>>
                                              ELSE response.body
<1>1. response \in [head : Heads, body : Seq(Bytes)]
  BY DEF Answers, Responses
<1>2. <<>> \in Seq(Bytes)
  OBVIOUS
<1>3. CASE q.parses /\ q.method = <<"HEAD">>
  BY <1>1, <1>2, <1>3 DEF WithoutBody
<1>4. CASE ~(q.parses /\ q.method = <<"HEAD">>)
  BY <1>1, <1>4 DEF WithoutBody
<1> QED
  BY <1>3, <1>4

\* What a client makes of the head is the length of what follows it.
LEMMA BodyFits ==
    ASSUME NEW response \in Answers, NEW keep \in BOOLEAN,
           NEW q, q.method = <<"HEAD">> => q.parses
    PROVE  BodyLength(Announce(response.head, keep), q.method) = Len(WithoutBody(response, q).body)
<1> DEFINE head == response.head
           said == Announce(head, keep)
           body == WithoutBody(response, q).body
<1>1. /\ said \in SentHeads /\ said.status = head.status
      /\ \A e \in Entries(said.headers) :
             SameName(e[1], "Content-Length") => e[2] = Len(response.body)
  BY SaidIsSent
<1>2. body = IF q.parses /\ q.method = <<"HEAD">> THEN <<>> ELSE response.body
  BY WithoutBodyType
<1>3. head.status \in {204, 304} => response.body = <<>>
  BY DEF Answers
<1>4. Len(<<>>) = 0
  OBVIOUS
<1> HIDE DEF head, said, body
<1>5. Has(said.headers, "Content-Length")
  BY <1>1 DEF SentHeads, Heads
<1>6. Value(said, "Content-Length") = Len(response.body)
  BY <1>1, <1>5, ValueOfEntry
<1>7. BodyLength(said, q.method) = Len(body)
  BY <1>1, <1>2, <1>3, <1>4, <1>6 DEF BodyLength
<1> QED
  BY <1>7 DEF said, head, body

\* A value of a header on the wire.
LEMMA ValueType ==
    ASSUME NEW head \in SentHeads, NEW name, Has(head.headers, name)
    PROVE  Value(head, name) \in Values
<1>1. PICK e \in Entries(head.headers) : Value(head, name) = e[2]
  BY ValueOfEntry
<1>2. head.headers \in Seq(Lexemes \X Values)
  BY DEF SentHeads, Heads, Headers
<1>3. \A i \in DOMAIN head.headers : head.headers[i] \in Lexemes \X Values
  BY <1>2
<1>4. e \in Lexemes \X Values
  BY <1>3 DEF Entries
<1> QED
  BY <1>1, <1>4

-----------------------------------------------------------------------------
(* The table *)

LEMMA RouteKeyType ==
    ASSUME NEW path \in Texts, NEW method \in Texts
    PROVE  RouteKey(path, method) \in Seq(Words)
<1>1. STRING \subseteq Words /\ "US" \in Words
  BY DEF Words
<1>2. path \in Seq(Words) /\ method \in Seq(Words) /\ <<"US">> \in Seq(Words)
  <2>1. path \in Seq(STRING) /\ method \in Seq(STRING)
    BY DEF Texts
  <2>2. <<"US">> \in Seq(Words)
    BY <1>1
  <2> QED
    BY <1>1, <2>1, <2>2, SeqMonotonic, Zenon
<1> HIDE DEF Words
<1> QED
  BY <1>2 DEF RouteKey

LEMMA OverrideType ==
    ASSUME NEW f \in Exacts, NEW k \in Seq(Words), NEW h \in DOMAIN Chains,
           NEW g, g = Put(f, k, h)
    PROVE  /\ g \in Exacts /\ DOMAIN g = DOMAIN f \cup {k}
           /\ g[k] = h /\ \A x \in DOMAIN f : x # k => g[x] = f[x]
<1>1. PICK keys \in SUBSET Seq(Words) : f \in [keys -> DOMAIN Chains]
  BY DEF Exacts
<1>2. g = [x \in keys \cup {k} |-> IF x = k THEN h ELSE f[x]]
  BY <1>1 DEF Put
<1>3. g \in [keys \cup {k} -> DOMAIN Chains] /\ keys \cup {k} \in SUBSET Seq(Words)
  BY <1>1, <1>2
<1> QED
  BY <1>1, <1>2, <1>3 DEF Exacts

LEMMA NormalizeType ==
    ASSUME NEW prefix \in Seq(STRING)
    PROVE  NormalizeMount(prefix) \in Seq(Words)
<1> DEFINE rooted == IF prefix # <<>> /\ prefix[1] = "/" THEN prefix ELSE <<"/">> \o prefix
           solid  == {p \in DOMAIN rooted : rooted[p] # "/"}
           keep   == Max({1} \cup solid)
           n      == Len(rooted)
<1>1. prefix \in Seq(Words) /\ <<"/">> \in Seq(Words)
  <2>1. STRING \subseteq Words /\ "/" \in Words
    BY DEF Words
  <2>2. <<"/">> \in Seq(Words)
    BY <2>1
  <2> QED
    BY <2>1, <2>2, SeqMonotonic, Zenon
<1>2. rooted \in Seq(Words) /\ 1 <= n /\ n \in Nat
  <2>1. CASE prefix # <<>> /\ prefix[1] = "/"
    BY <1>1, <2>1
  <2>2. CASE ~(prefix # <<>> /\ prefix[1] = "/")
    BY <1>1, <2>2
  <2> QED
    BY <2>1, <2>2
<1>3. NormalizeMount(prefix) = SubSeq(rooted, 1, keep)
  BY Zenon DEF NormalizeMount
<1> HIDE DEF rooted
<1>4. {1} \cup solid \subseteq 0 .. n /\ {1} \cup solid # {}
  BY <1>2
<1> HIDE DEF solid
<1>5. keep \in 0 .. n
  BY <1>2, <1>4, MaxIsGreatest
<1> HIDE DEF keep
<1> QED
  BY <1>2, <1>3, <1>5, SubSeqType

LEMMA TableType ==
    ASSUME NEW t \in Tables, NEW r \in Registrations
    PROVE  (IF r.kind = "route" THEN WithRoute(t, r.path, r.method, r.handler)
            ELSE WithMount(t, r.prefix, r)) \in Tables
<1>1. \/ r \in [kind : {"route"}, path : Texts, method : Texts, handler : DOMAIN Chains]
      \/ r \in [kind : {"mount"}, prefix : Seq(STRING), cache : BOOLEAN, spa : BOOLEAN]
  BY ExchangeAssumption
<1>2. CASE r.kind = "route"
  <2>1. r.path \in Texts /\ r.method \in Texts /\ r.handler \in DOMAIN Chains
    BY <1>1, <1>2
  <2>2. CASE IsPatternRoute(r.path)
    <3> DEFINE p == [segments |-> SplitPath(r.path), method |-> r.method, handler |-> r.handler]
    <3>1. p \in Patterns
      BY <2>1 DEF Patterns
    <3>2. WithRoute(t, r.path, r.method, r.handler) = [t EXCEPT !.patterns = Append(@, p)]
      BY <2>2, Zenon DEF WithRoute
    <3> HIDE DEF p
    <3>3. Append(t.patterns, p) \in Seq(Patterns)
      BY <3>1 DEF Tables
    <3> QED
      BY <1>2, <3>2, <3>3 DEF Tables
  <2>3. CASE ~IsPatternRoute(r.path)
    <3> DEFINE g == Put(t.exact, RouteKey(r.path, r.method), r.handler)
    <3>1. g \in Exacts
      <4>1. RouteKey(r.path, r.method) \in Seq(Words) /\ t.exact \in Exacts
        BY <2>1, RouteKeyType DEF Tables
      <4> QED
        BY <2>1, <4>1, OverrideType, ZenonT(60)
    <3>2. WithRoute(t, r.path, r.method, r.handler) = [t EXCEPT !.exact = g]
      BY <2>3, Zenon DEF WithRoute
    <3> HIDE DEF g
    <3> QED
      BY <1>2, <3>1, <3>2 DEF Tables
  <2> QED
    BY <2>2, <2>3
<1>3. CASE r.kind # "route"
  <2>1. r \in [kind : {"mount"}, prefix : Seq(STRING), cache : BOOLEAN, spa : BOOLEAN]
    BY <1>1, <1>3
  <2> DEFINE m == [r EXCEPT !.prefix = NormalizeMount(r.prefix)]
  <2>2. m \in Mounts
    BY <2>1, NormalizeType DEF Mounts
  <2>3. WithMount(t, r.prefix, r) = [t EXCEPT !.mounts = Append(@, m)]
    BY Zenon DEF WithMount
  <2> HIDE DEF m
  <2>4. Append(t.mounts, m) \in Seq(Mounts)
    BY <2>2 DEF Tables
  <2> QED
    BY <1>3, <2>3, <2>4 DEF Tables
<1> QED
  BY <1>2, <1>3

-----------------------------------------------------------------------------
(* sendResponse: what was taken and what is left is what there was *)

\* Taken and left together.
Whole(taken, left, rest) == taken \o (left.head \o left.body) = rest.head \o rest.body

\* What a sequence joined of two holds.
Joined(all, a, b) ==
    /\ Len(all) = Len(a) + Len(b)
    /\ \A i \in 1 .. Len(a) + Len(b) : all[i] = IF i <= Len(a) THEN a[i] ELSE b[i - Len(a)]

LEMMA JoinedIs ==
    ASSUME NEW S, NEW a \in Seq(S), NEW b \in Seq(S)
    PROVE  /\ a \o b \in Seq(S)
           /\ Joined(a \o b, a, b)
  BY ConcatProperties DEF Joined

LEMMA RestIs ==
    ASSUME NEW S, NEW rest \in [head : Seq(S), body : Seq(S)],
           NEW n \in Nat, n <= Len(rest.head) + Len(rest.body)
    PROVE  /\ SubSeq(rest.head \o rest.body, 1, n) \in Seq(S)
           /\ Rest(rest, n) \in [head : Seq(S), body : Seq(S)]
           /\ Whole(SubSeq(rest.head \o rest.body, 1, n), Rest(rest, n), rest)
           /\ Len(SubSeq(rest.head \o rest.body, 1, n)) = n
<1> DEFINE h == rest.head
           b == rest.body
           t == h \o b
           take == Smaller(n, Len(h))
           more == Smaller(n - take, Len(b))
           hh == Drop(h, take)
           bb == Drop(b, more)
           taken == SubSeq(t, 1, n)
           left == SubSeq(t, n + 1, Len(h) + Len(b))
<1>1. h \in Seq(S) /\ b \in Seq(S) /\ Len(h) \in Nat /\ Len(b) \in Nat /\ n <= Len(h) + Len(b)
  OBVIOUS
<1>2. Rest(rest, n) = [head |-> hh, body |-> bb]
  BY Zenon DEF Rest
<1> HIDE DEF h, b
<1>3. /\ t \in Seq(S) /\ Len(t) = Len(h) + Len(b)
      /\ \A i \in 1 .. Len(h) + Len(b) : t[i] = IF i <= Len(h) THEN h[i] ELSE b[i - Len(h)]
  BY <1>1, ConcatProperties
<1>4. /\ take \in Nat /\ take <= Len(h) /\ more \in Nat /\ more <= Len(b) /\ take + more = n
      /\ more > 0 => take = Len(h)
  <2> DEFINE x == Len(h)
             y == Len(b)
  <2>1. x \in Nat /\ y \in Nat /\ n <= x + y
    BY <1>1
  <2> HIDE DEF x, y
  <2>2. CASE n < x
    <3>1. Smaller(n, x) = n /\ n - n = 0 /\ Smaller(0, y) = 0
      BY <2>1, <2>2 DEF Smaller
    <3>2. take = n /\ more = 0
      BY <3>1 DEF x, y
    <3> HIDE DEF take, more
    <3> QED
      BY <1>1, <2>2, <3>2 DEF x
  <2>3. CASE ~(n < x)
    <3>1. Smaller(n, x) = x /\ n - x \in Nat /\ Smaller(n - x, y) = n - x /\ n - x <= y
      BY <2>1, <2>3 DEF Smaller
    <3>2. take = x /\ more = n - x
      BY <3>1 DEF x, y
    <3> HIDE DEF take, more
    <3> QED
      BY <2>1, <3>1, <3>2 DEF x, y
  <2> QED
    BY <2>2, <2>3
<1> HIDE DEF t, take, more
<1>5. /\ hh \in Seq(S) /\ Len(hh) = Len(h) - take
      /\ \A i \in 1 .. Len(h) - take : hh[i] = h[take + i]
  BY <1>1, <1>4, Stretch, SMTT(40) DEF Drop
<1>6. /\ bb \in Seq(S) /\ Len(bb) = Len(b) - more
      /\ \A i \in 1 .. Len(b) - more : bb[i] = b[more + i]
  BY <1>1, <1>4, Stretch DEF Drop
<1> HIDE DEF hh, bb
<1>7. /\ left \in Seq(S) /\ Len(left) = Len(h) + Len(b) - n
      /\ \A i \in 1 .. Len(h) + Len(b) - n : left[i] = t[n + i]
  BY <1>1, <1>3, <1>4, Stretch
<1>8. taken \in Seq(S) /\ Len(taken) = n
  <2>1. 0 \in Nat /\ 0 + 1 = 1 /\ n - 0 = n
    OBVIOUS
  <2>2. SubSeq(t, 0 + 1, n) \in Seq(S) /\ Len(SubSeq(t, 0 + 1, n)) = n - 0
    BY <1>1, <1>3, <1>4, <2>1, Stretch
  <2> QED
    BY <2>1, <2>2
<1>9. taken \o left = t
  <2> DEFINE l == Len(h) + Len(b)
  <2>1. 1 \in 1 .. l + 1 /\ n \in 1 - 1 .. l /\ l \in n .. l
    BY <1>1, <1>4
  <2>2. taken \o left = SubSeq(t, 1, l)
    BY <1>3, <2>1, ConcatAdjacentSubSeq
  <2>3. SubSeq(t, 1, Len(t)) = t
    BY <1>3, SubSeqFull
  <2> QED
    BY <1>3, <2>2, <2>3
<1> HIDE DEF left
<1>10. hh \o bb = left
  <2> DEFINE c == hh \o bb
             l == Len(h) - take
  <2>1. /\ c \in Seq(S) /\ Len(c) = Len(hh) + Len(bb)
        /\ \A i \in 1 .. Len(hh) + Len(bb) : c[i] = IF i <= Len(hh) THEN hh[i] ELSE bb[i - Len(hh)]
    BY <1>5, <1>6, ConcatProperties
  <2> HIDE DEF c
  <2>2. Len(c) = Len(left) /\ Len(hh) + Len(bb) = Len(h) + Len(b) - n
    <3>1. \A x, y \in Nat : (x - take) + (y - more) = x + y - n
      BY <1>4
    <3>2. Len(hh) + Len(bb) = Len(h) + Len(b) - n
      BY <1>1, <1>5, <1>6, <3>1
    <3> QED
      BY <1>7, <2>1, <3>2
  <2>3. ASSUME NEW i \in 1 .. Len(c) PROVE c[i] = left[i]
    <3>1. left[i] = t[n + i]
      BY <1>7, <2>2
    <3>2. n + i \in 1 .. Len(h) + Len(b)
      BY <1>1, <1>7, <2>2
    <3>3. CASE i <= l
      <4>1. i \in 1 .. Len(h) - take /\ more = 0 /\ n = take /\ n + i <= Len(h)
        BY <1>1, <1>4, <3>3
      <4>2. c[i] = h[n + i]
        BY <1>5, <2>1, <2>2, <4>1
      <4> QED
        BY <1>3, <3>1, <3>2, <4>1, <4>2
    <3>4. CASE ~(i <= l)
      <4> DEFINE j == i - l
      <4>1. j \in 1 .. Len(b) - more /\ (n + i) - Len(h) = more + j /\ ~(n + i <= Len(h))
        BY <1>1, <1>4, <1>7, <2>2, <3>4
      <4>2. c[i] = bb[j]
        BY <1>5, <2>1, <2>2, <3>4
      <4>3. t[n + i] = b[(n + i) - Len(h)]
        BY <1>3, <3>2, <4>1
      <4> HIDE DEF j
      <4> QED
        BY <1>6, <3>1, <4>1, <4>2, <4>3
    <3> QED
      BY <3>3, <3>4
  <2> HIDE DEF l
  <2>4. c = left
    BY <1>7, <2>1, <2>2, <2>3, SeqEqual
  <2> QED
    BY <2>4 DEF c
<1>11. Rest(rest, n) \in [head : Seq(S), body : Seq(S)]
  BY <1>2, <1>5, <1>6
<1>12. taken \o (Rest(rest, n).head \o Rest(rest, n).body) = t
  <2>1. Rest(rest, n).head = hh /\ Rest(rest, n).body = bb
    BY <1>2
  <2> HIDE DEF taken
  <2> QED
    BY <1>9, <1>10, <2>1, Zenon
<1> HIDE DEF taken
<1> QED
  BY <1>8, <1>11, <1>12, Zenon DEF Whole, taken, t, h, b

-----------------------------------------------------------------------------
(* TypeInv is an invariant *)

\* What ExecuteRoute has written.
Response(q, guarded) == WithoutBody(Answer(q, guarded), q)
Kept(q, guarded) == KeepAlive(q, Response(q, guarded))
Said(q, guarded) == Announce(Response(q, guarded).head, Kept(q, guarded))

\* The steps of ExecuteRoute by name.
Executed(q, guarded) ==
    /\ stage = "idle" /\ stage' = "writing"
    /\ asked' = Append(asked, q)
    /\ out' = [head |-> HeadLexemes(Said(q, guarded)), body |-> BodyLexemes(Response(q, guarded).body)]
    /\ keep_alive' = Kept(q, guarded)
    /\ confirmed' = IF Response(q, guarded).head.status # 304 THEN confirmed
                    ELSE [copy |-> CopyOf(q.target).body, current |-> CurrentBody(q)]
    /\ UNCHANGED <<log, table, allow_keep_alive, disk, deploys, wire, cut, copies>>

LEMMA ExecutedIs ==
    ASSUME NEW q, NEW guarded, ExecuteRoute(q, guarded)
    PROVE  Executed(q, guarded)
BY Zenon DEF ExecuteRoute, Executed, Response, Kept, Said

\* The request as it is sent.
Asking(q, conditional) == [q EXCEPT !.tags = IF conditional THEN {CopyOf(q.target).etag} ELSE {}]

LEMMA AskingType ==
    ASSUME TypeInv, NEW q \in Asked, NEW conditional \in BOOLEAN
    PROVE  /\ Asking(q, conditional) \in Questions
           /\ Asking(q, conditional).target = q.target /\ Asking(q, conditional).method = q.method
           /\ Asking(q, conditional).parses = q.parses
           /\ Asking(q, conditional).tags = IF conditional THEN {CopyOf(q.target).etag} ELSE {}
<1>1. q \in [target : Texts, method : Texts, version : STRING, connection : STRING,
             parses : BOOLEAN, tags : {{}}]
  BY ExchangeAssumption
<1>2. CopyOf(q.target).etag \in Values
  <2>1. CASE q.target \in DOMAIN copies
    BY <2>1 DEF CopyOf, TypeInv
  <2>2. CASE q.target \notin DOMAIN copies
    BY <2>2 DEF CopyOf, NoEtag, Values
  <2> QED
    BY <2>1, <2>2
<1> DEFINE tags == IF conditional THEN {CopyOf(q.target).etag} ELSE {}
<1>3. tags \in SUBSET Values
  BY <1>2
<1>4. Asking(q, conditional) = [q EXCEPT !.tags = tags]
  BY Zenon DEF Asking
<1> HIDE DEF tags
<1> QED
  BY <1>1, <1>3, <1>4 DEF Questions, tags

LEMMA ResponseType ==
    ASSUME TypeInv, NEW q, q.parses \in BOOLEAN, NEW guarded \in BOOLEAN
    PROVE  /\ Response(q, guarded).body \in Seq(Bytes)
           /\ Response(q, guarded).head = Answer(q, guarded).head
           /\ Kept(q, guarded) \in BOOLEAN
           /\ Said(q, guarded) \in SentHeads
<1>1. Answer(q, guarded) \in Answers
  BY AnswerType
<1>2. Response(q, guarded).body \in Seq(Bytes) /\ Response(q, guarded).head = Answer(q, guarded).head
  BY <1>1, WithoutBodyType DEF Response
<1>3. Kept(q, guarded) \in BOOLEAN
  BY DEF Kept, KeepAlive, TypeInv
<1>4. Said(q, guarded) \in SentHeads
  BY <1>1, <1>2, <1>3, SaidIsSent DEF Said
<1> QED
  BY <1>2, <1>3, <1>4

\* What Reject writes.
Rejection(code) == WireResponse(code, <<<<"Content-Type", "application/json">>,
                                           <<"Connection", "close">>>>, <<"error">>)
Rejected(code) == HeadLexemes(Rejection(code).head) \o BodyLexemes(Rejection(code).body)

LEMMA RejectionIs ==
    ASSUME NEW code \in {400, 408}
    PROVE  /\ Rejection(code) \in Answers /\ Rejection(code).head \in SentHeads
           /\ Rejection(code).head.status = code /\ Rejection(code).body = <<"error">>
           /\ <<"Connection", "close">> \in Entries(Rejection(code).head.headers)
           /\ Rejected(code) \in Seq(Sent) /\ Len(Rejected(code)) = 3
           /\ Rejected(code)[1] = <<"head", Rejection(code).head>>
           /\ Rejected(code)[2] = <<"blank">> /\ Rejected(code)[3] = <<"byte", "error">>
<1> DEFINE h == <<<<"Content-Type", "application/json">>, <<"Connection", "close">>>>
           r == Rejection(code)
           head == HeadLexemes(r.head)
           body == BodyLexemes(r.body)
<1>1. code \in Nat \ {204, 304}
  OBVIOUS
<1>2. Own(r, code, h, <<"error">>)
  BY <1>1, ErrorAnswer DEF Rejection
<1>3. <<"Connection", "close">> \in Entries(h)
  BY TwoHeaders, Literals, CaseFolds DEF Consist
<1> HIDE DEF h, r
<1>4. /\ r \in Answers /\ r.head.status = code /\ r.body = <<"error">>
      /\ <<"Connection", "close">> \in Entries(r.head.headers)
  BY <1>2, <1>3, Zenon DEF Own
<1>5. r.head \in SentHeads
  <2>1. r.head \in Heads /\ Sized(r) /\ Len(r.body) \in Nat
    BY <1>4 DEF Answers, Responses
  <2> QED
    BY <2>1 DEF SentHeads, Sized
<1>6. head \in Seq(Sent) /\ Len(head) = 2 /\ head[1] = <<"head", r.head>> /\ head[2] = <<"blank">>
  BY <1>5, HeadLexemesType
<1>7. body \in Seq(Sent) /\ Len(body) = 1 /\ body[1] = <<"byte", "error">>
  <2>1. r.body \in Seq(Bytes) /\ Len(r.body) = 1 /\ r.body[1] = "error"
    BY <1>4, Literals
  <2> QED
    BY <2>1, BodyLexemesType
<1> DEFINE all == head \o body
<1> HIDE DEF head, body
<1>8. /\ all \in Seq(Sent) /\ Len(all) = 2 + 1
      /\ \A i \in 1 .. 2 + 1 : all[i] = IF i <= 2 THEN head[i] ELSE body[i - 2]
  <2>1. head \in Seq(Sent) /\ body \in Seq(Sent) /\ Len(head) = 2 /\ Len(body) = 1
    BY <1>6, <1>7
  <2>2. all \in Seq(Sent) /\ Joined(all, head, body)
    BY <2>1, JoinedIs
  <2> HIDE DEF all
  <2> QED
    BY <2>1, <2>2 DEF Joined
<1>9. Rejected(code) = all
  BY DEF Rejected, all, head, body, r
<1> HIDE DEF all
<1>10. /\ Len(all) = 3 /\ all[1] = <<"head", r.head>> /\ all[2] = <<"blank">>
       /\ all[3] = <<"byte", "error">>
  BY <1>6, <1>7, <1>8
<1> QED
  BY <1>4, <1>5, <1>8, <1>9, <1>10 DEF r

LEMMA InitType == ExchangeInit => TypeInv
<1> SUFFICES ASSUME ExchangeInit PROVE TypeInv
  OBVIOUS
<1>1. NoRoutes \in Tables
  <2>1. <<>> \in Exacts
    <3>1. <<>> \in [{} -> DOMAIN Chains]
      OBVIOUS
    <3> QED
      BY <3>1 DEF Exacts
  <2> QED
    BY <2>1 DEF NoRoutes, Tables
<1>2. DiskOk
  BY ExchangeAssumption DEF ExchangeInit, DiskOk
<1>3. Nothing \in [head : Seq(Sent), body : Seq(Sent)]
  BY DEF Nothing
<1>4. DOMAIN copies = {}
  BY DEF ExchangeInit
<1>5. /\ log \in Seq(Registrations) /\ wire \in Seq(Sent)
      /\ asked \in Seq(Questions \cup {[method |-> Get]})
  BY DEF ExchangeInit
<1>6. \A target \in DOMAIN copies : copies[target].etag \in Values
  BY <1>4, Zenon
<1>7. table \in Tables /\ out \in [head : Seq(Sent), body : Seq(Sent)]
  BY <1>1, <1>3 DEF ExchangeInit
<1>8. /\ stage \in {"setup", "idle", "writing", "closed"}
      /\ allow_keep_alive \in BOOLEAN /\ keep_alive \in BOOLEAN /\ cut \in BOOLEAN
  BY DEF ExchangeInit
<1> QED
  BY <1>2, <1>5, <1>6, <1>7, <1>8 DEF TypeInv

LEMMA RegisterType ==
    ASSUME TypeInv, NEW r \in Registrations, Register(r)
    PROVE  TypeInv'
<1>1. table' \in Tables
  BY TableType DEF Register, TypeInv
<1>2. log' \in Seq(Registrations)
  BY DEF Register, TypeInv
<1> QED
  BY <1>1, <1>2 DEF Register, TypeInv, DiskOk

LEMMA DeployType ==
    ASSUME TypeInv, NEW name \in Replaced, NEW version \in Versions, Deploy(name, version)
    PROVE  TypeInv'
<1>1. disk' = Put(disk, name, version)
  BY DEF Deploy
<1>2. DiskOk'
  BY <1>1 DEF TypeInv, DiskOk, Put
<1> QED
  BY <1>2 DEF Deploy, TypeInv

LEMMA ExecuteType ==
    ASSUME TypeInv, NEW q \in Questions, NEW guarded \in BOOLEAN, Executed(q, guarded)
    PROVE  TypeInv'
<1>1. q.parses \in BOOLEAN
  BY DEF Questions
<1>2. /\ Response(q, guarded).body \in Seq(Bytes)
      /\ Kept(q, guarded) \in BOOLEAN
      /\ Said(q, guarded) \in SentHeads
  BY <1>1, ResponseType
<1>3. out' \in [head : Seq(Sent), body : Seq(Sent)]
  <2>1. HeadLexemes(Said(q, guarded)) \in Seq(Sent)
    BY <1>2, HeadLexemesType
  <2>2. BodyLexemes(Response(q, guarded).body) \in Seq(Sent)
    BY <1>2, BodyLexemesType
  <2> QED
    BY <2>1, <2>2 DEF Executed
<1>4. asked' \in Seq(Questions \cup {[method |-> Get]})
  BY DEF Executed, TypeInv
<1>5. keep_alive' \in BOOLEAN /\ stage' \in {"setup", "idle", "writing", "closed"}
  BY <1>2 DEF Executed
<1> QED
  BY <1>3, <1>4, <1>5 DEF Executed, TypeInv, DiskOk

LEMMA WriteType ==
    ASSUME TypeInv, NEW n \in 1 .. 4, WriteSome(n)
    PROVE  TypeInv'
<1>1. /\ out \in [head : Seq(Sent), body : Seq(Sent)] /\ wire \in Seq(Sent)
      /\ n \in Nat /\ n <= Len(out.head) + Len(out.body)
  BY DEF WriteSome, TypeInv
<1>2. /\ SubSeq(out.head \o out.body, 1, n) \in Seq(Sent)
      /\ Rest(out, n) \in [head : Seq(Sent), body : Seq(Sent)]
  BY <1>1, RestIs
<1>3. wire' \in Seq(Sent)
  BY <1>1, <1>2, ConcatProperties DEF WriteSome
<1> QED
  BY <1>2, <1>3 DEF WriteSome, TypeInv, DiskOk

LEMMA FinishType ==
    ASSUME TypeInv, Finish
    PROVE  TypeInv'
<1> DEFINE q     == Last(asked)
           n     == Len(asked)
           begin == Starts(wire, asked)
           head  == wire[begin[n]][2]
           body  == SubSeq(wire, begin[n] + 2, begin[n + 1] - 1)
           keeps == /\ ~cut /\ q.method = Get
                    /\ begin[n] \in DOMAIN wire /\ wire[begin[n]][1] = "head"
                    /\ head.status = 200 /\ Has(head.headers, "ETag")
           tag   == Value(head, "ETag")
           copy  == [body |-> [i \in DOMAIN body |-> body[i][2]], etag |-> tag]
<1>1. /\ stage = "writing" /\ out = Nothing
      /\ stage' = IF keep_alive THEN "idle" ELSE "closed"
      /\ copies' = IF ~keeps THEN copies ELSE Put(copies, q.target, copy)
      /\ UNCHANGED <<log, table, allow_keep_alive, disk, deploys, out, keep_alive, asked, wire, cut,
                     confirmed>>
  BY Zenon DEF Finish
<1>2. keeps => tag \in Values
  <2> SUFFICES ASSUME keeps PROVE tag \in Values
    OBVIOUS
  <2>1. wire[begin[n]] \in Sent
    BY ElementOfSeq DEF TypeInv
  <2>2. head \in SentHeads
    BY <2>1 DEF Sent
  <2> QED
    BY <2>2, ValueType
<1>3. copy.etag = tag
  OBVIOUS
<1> HIDE DEF keeps, tag, copy, q
<1>4. \A target \in DOMAIN copies' : copies'[target].etag \in Values
  BY <1>1, <1>2, <1>3 DEF TypeInv, Put
<1> QED
  BY <1>1, <1>4 DEF TypeInv, DiskOk

LEMMA RejectType ==
    ASSUME TypeInv, NEW code \in {400, 408}, NEW n \in 0 .. 3, Reject(code, n)
    PROVE  TypeInv'
<1>1. /\ n <= Len(Rejected(code))
      /\ asked' = Append(asked, [method |-> Get])
      /\ wire' = wire \o SubSeq(Rejected(code), 1, n)
      /\ cut' = (cut \/ n < Len(Rejected(code)))
      /\ stage' = "closed"
      /\ UNCHANGED <<log, table, allow_keep_alive, disk, deploys, out, keep_alive, copies, confirmed>>
  BY Zenon DEF Reject, Rejected, Rejection
<1>2. Rejected(code) \in Seq(Sent)
  BY RejectionIs
<1>3. SubSeq(Rejected(code), 1, n) \in Seq(Sent)
  BY <1>1, <1>2, SubSeqType
<1>4. wire' \in Seq(Sent)
  BY <1>1, <1>3 DEF TypeInv
<1>5. asked' \in Seq(Questions \cup {[method |-> Get]})
  BY <1>1 DEF TypeInv
<1>6. cut' \in BOOLEAN
  BY <1>1 DEF TypeInv
<1> QED
  BY <1>1, <1>4, <1>5, <1>6 DEF TypeInv, DiskOk

LEMMA NextType == TypeInv /\ [ExchangeNext]_exchangeVars => TypeInv'
<1> SUFFICES ASSUME TypeInv, [ExchangeNext]_exchangeVars PROVE TypeInv'
  OBVIOUS
<1>1. ASSUME NEW r \in Registrations, Register(r) PROVE TypeInv'
  BY <1>1, RegisterType
<1>2. ASSUME NEW single \in BOOLEAN, Listen(single) PROVE TypeInv'
  BY <1>2 DEF Listen, TypeInv, DiskOk
<1>3. ASSUME NEW name \in Replaced, NEW version \in Versions, Deploy(name, version) PROVE TypeInv'
  BY <1>3, DeployType
<1>4. ASSUME NEW q \in Asked, NEW conditional \in BOOLEAN, NEW guarded \in BOOLEAN,
             Request(q, conditional, guarded)
      PROVE  TypeInv'
  <2>1. Executed(Asking(q, conditional), guarded)
    BY <1>4, ExecutedIs DEF Request, Asking
  <2>2. Asking(q, conditional) \in Questions
    BY AskingType
  <2> QED
    BY <2>1, <2>2, ExecuteType
<1>5. ASSUME NEW n \in 1 .. 4, WriteSome(n) PROVE TypeInv'
  BY <1>5, WriteType
<1>6. ASSUME GiveUp PROVE TypeInv'
  <2>1. Nothing \in [head : Seq(Sent), body : Seq(Sent)]
    BY DEF Nothing
  <2> QED
    BY <1>6, <2>1 DEF GiveUp, TypeInv, DiskOk
<1>7. ASSUME Finish PROVE TypeInv'
  BY <1>7, FinishType
<1>8. ASSUME NEW code \in {400, 408}, NEW n \in 0 .. 3, Reject(code, n) PROVE TypeInv'
  BY <1>8, RejectType
<1>9. CASE UNCHANGED exchangeVars
  BY <1>9 DEF exchangeVars, TypeInv, DiskOk
<1> QED
  BY <1>1, <1>2, <1>3, <1>4, <1>5, <1>6, <1>7, <1>8, <1>9 DEF ExchangeNext

\* Every route of the table has a handler, every head on the wire names its
\* headers once and says a length, and every copy has a tag.
THEOREM ExchangeTypes == ExchangeSpec => []TypeInv
<1>1. ExchangeInit => TypeInv
  BY InitType
<1>2. TypeInv /\ [ExchangeNext]_exchangeVars => TypeInv'
  BY NextType
<1> QED
  BY <1>1, <1>2, PTL DEF ExchangeSpec

\* No response names a header twice, whatever a handler does (Response::set,
\* utility_t::apply_headers, Response::head).
THEOREM HeadersOnce == ExchangeSpec => []OneHeaderEach
<1>1. TypeInv => OneHeaderEach
  <2> SUFFICES ASSUME TypeInv, NEW p \in DOMAIN wire, wire[p][1] = "head"
               PROVE  OneEach(wire[p][2].headers)
    BY Zenon DEF OneHeaderEach, OneEach
  <2>1. wire[p] \in Sent
    BY ElementOfSeq DEF TypeInv
  <2>2. wire[p][2] \in SentHeads
    BY <2>1 DEF Sent
  <2> QED
    BY <2>2 DEF SentHeads, Heads, Headers
<1> QED
  BY <1>1, ExchangeTypes, PTL

-----------------------------------------------------------------------------
(* Where a client looks for its responses *)

LEMMA BodyLengthType ==
    ASSUME NEW head \in SentHeads, NEW method
    PROVE  BodyLength(head, method) \in Nat
<1>1. Has(head.headers, "Content-Length")
  BY DEF SentHeads, Heads
<1>2. Value(head, "Content-Length") \in Nat
  BY <1>1, ValueOfEntry DEF SentHeads
<1> QED
  BY <1>2 DEF BodyLength

\* Behind the response at p, if one starts there.
Behind(stream, request, p) ==
    IF p \in DOMAIN stream /\ stream[p][1] = "head"
    THEN p + 2 + BodyLength(stream[p][2], request.method) ELSE p

Follows(begin, stream, requests) ==
    /\ \A k \in 1 .. Len(requests) + 1 : begin[k] \in Nat \ {0}
    /\ begin[1] = 1
    /\ \A k \in 1 .. Len(requests) : begin[k + 1] = Behind(stream, requests[k], begin[k])

LEMMA BehindType ==
    ASSUME NEW stream \in Seq(Sent), NEW request, NEW p \in Nat \ {0}
    PROVE  /\ Behind(stream, request, p) \in Nat \ {0} /\ p <= Behind(stream, request, p)
           /\ p \in DOMAIN stream /\ stream[p][1] = "head" => p < Behind(stream, request, p)
<1>1. CASE p \in DOMAIN stream /\ stream[p][1] = "head"
  <2>1. stream[p] \in Sent
    BY <1>1, ElementOfSeq
  <2>2. stream[p][2] \in SentHeads
    BY <1>1, <2>1 DEF Sent
  <2> DEFINE l == BodyLength(stream[p][2], request.method)
  <2>3. l \in Nat
    BY <2>2, BodyLengthType
  <2>4. Behind(stream, request, p) = p + 2 + l
    BY <1>1 DEF Behind
  <2> HIDE DEF l
  <2> QED
    BY <2>3, <2>4
<1>2. CASE ~(p \in DOMAIN stream /\ stream[p][1] = "head")
  BY <1>2 DEF Behind
<1> QED
  BY <1>1, <1>2

LEMMA StartsFollow ==
    ASSUME NEW stream \in Seq(Sent), NEW S, NEW requests \in Seq(S)
    PROVE  Follows(Starts(stream, requests), stream, requests)
<1> DEFINE n == Len(requests)
           After(k, p) == Behind(stream, requests[k], p)
           Is(f) == f = [k \in 1 .. n + 1 |->
                            IF k = 1 THEN 1
                            ELSE LET p == f[k - 1]
                                 IN  IF p \in DOMAIN stream /\ stream[p][1] = "head"
                                     THEN p + 2 + BodyLength(stream[p][2], requests[k - 1].method)
                                     ELSE p]
           f == CHOOSE f : Is(f)
           P == Nat \ {0}
           step == [a \in (1 .. n) \X P |-> After(a[1], a[2])]
<1>1. n \in Nat
  OBVIOUS
<1>2. Starts(stream, requests) = f
  BY Zenon DEF Starts
<1>3. \A k : \A p \in P : After(k, p) \in P
  BY BehindType
<1>4. \A g : Is(g) <=> g = [k \in 1 .. n + 1 |-> IF k = 1 THEN 1 ELSE After(k - 1, g[k - 1])]
  BY Zenon DEF Behind
<1> HIDE DEF n, After, Is
<1>5. step \in [(1 .. n) \X P -> P]
  BY <1>3
<1>6. \A k \in 1 .. n, p \in P : step[<<k, p>>] = After(k, p)
  OBVIOUS
<1> HIDE DEF step
<1>7. PICK g \in [0 .. n -> P] : g[0] = 1 /\ \A k \in 1 .. n : g[k] = step[<<k, g[k - 1]>>]
  <2>1. 1 \in P
    OBVIOUS
  <2> HIDE DEF P
  <2>2. Iterates(P, n, 1, step)
    BY <1>1, <1>5, <2>1, Iteration
  <2> QED
    BY <2>2 DEF Iterates
<1> DEFINE h == [k \in 1 .. n + 1 |-> g[k - 1]]
<1>8. Is(h)
  <2>1. \A k \in 1 .. n + 1 : h[k] = g[k - 1]
    OBVIOUS
  <2>2. \A k \in 1 .. n + 1 : k # 1 => k - 1 \in 1 .. n /\ k - 1 \in 1 .. n + 1 /\ k - 1 - 1 \in 0 .. n
    BY <1>1
  <2> HIDE DEF h
  <2>3. ASSUME NEW k \in 1 .. n + 1
        PROVE  h[k] = IF k = 1 THEN 1 ELSE After(k - 1, h[k - 1])
    <3>1. CASE k = 1
      BY <1>7, <2>1, <3>1
    <3>2. CASE k # 1
      <4> DEFINE j == k - 1
      <4>1. j \in 1 .. n /\ j \in 1 .. n + 1 /\ g[j - 1] \in P
        BY <1>7, <2>2, <3>2
      <4> HIDE DEF j
      <4>2. h[j] = g[j - 1] /\ g[j] = After(j, g[j - 1])
        BY <1>6, <1>7, <2>1, <4>1
      <4>3. h[k] = g[j]
        BY <2>1 DEF j
      <4> QED
        BY <3>2, <4>2, <4>3 DEF j
    <3> QED
      BY <3>1, <3>2
  <2>4. h = [k \in 1 .. n + 1 |-> IF k = 1 THEN 1 ELSE After(k - 1, h[k - 1])]
    <3>1. h = [k \in 1 .. n + 1 |-> h[k]]
      BY DEF h
    <3> QED
      BY <2>3, <3>1
  <2> QED
    BY <1>4, <2>4
<1> HIDE DEF h
<1>9. f = [k \in 1 .. n + 1 |-> IF k = 1 THEN 1 ELSE After(k - 1, f[k - 1])]
  <2>1. Is(f)
    BY <1>8, Zenon
  <2> HIDE DEF f
  <2> QED
    BY <1>4, <2>1
<1> HIDE DEF f
<1>10. f[1] = 1 /\ \A k \in 1 .. n : f[k + 1] = After(k, f[k])
  <2>1. 1 \in 1 .. n + 1
    BY <1>1
  <2>2. \A k \in 1 .. n : k + 1 \in 1 .. n + 1 /\ k + 1 # 1 /\ (k + 1) - 1 = k
    BY <1>1
  <2> QED
    BY <1>9, <2>1, <2>2
<1>11. \A k \in 1 .. n + 1 : f[k] \in P
  <2> DEFINE d == [k \in 0 .. n |-> f[k + 1]]
  <2>1. \A k \in 0 .. n : d[k] = f[k + 1]
    OBVIOUS
  <2>2. \A k \in 1 .. n : (k - 1) + 1 = k /\ k - 1 \in 0 .. n /\ k \in 0 .. n
    BY <1>1
  <2> HIDE DEF d
  <2>3. d[0] \in P
    BY <1>1, <1>10, <2>1
  <2>4. \A k \in 1 .. n : d[k - 1] \in P => d[k] \in P
    BY <1>3, <1>10, <2>1, <2>2
  <2> HIDE DEF P
  <2>5. \A k \in 0 .. n : d[k] \in P
    BY <1>1, <2>3, <2>4, IterationKeeps
  <2>6. \A k \in 1 .. n + 1 : k - 1 \in 0 .. n /\ (k - 1) + 1 = k
    BY <1>1
  <2> QED
    BY <2>1, <2>5, <2>6
<1> QED
  BY <1>2, <1>10, <1>11 DEF Follows, n, After, P

\* Two streams hold the same at the first m places of a, for the same requests.
Agree(a, m, stream, requests, stream2, requests2) ==
    /\ Len(requests) \in Nat /\ m <= Len(requests) /\ Len(requests2) \in Nat /\ m <= Len(requests2)
    /\ \A k \in 1 .. m : /\ requests[k] = requests2[k]
                        /\ a[k] \in DOMAIN stream /\ a[k] \in DOMAIN stream2
                        /\ stream[a[k]] = stream2[a[k]]

\* Then the client looks at the same places.
LEMMA StartsAgree ==
    ASSUME NEW a, NEW stream, NEW requests, Follows(a, stream, requests),
           NEW b, NEW stream2, NEW requests2, Follows(b, stream2, requests2),
           NEW m \in Nat, Agree(a, m, stream, requests, stream2, requests2)
    PROVE  \A k \in 1 .. m + 1 : a[k] = b[k]
<1> DEFINE T == {k \in Nat : k <= m => a[k + 1] = b[k + 1]}
<1>1. 0 \in T
  BY DEF Follows
<1>2. ASSUME NEW k \in Nat, k \in T PROVE k + 1 \in T
  <2>1. SUFFICES ASSUME k + 1 <= m PROVE a[(k + 1) + 1] = b[(k + 1) + 1]
    OBVIOUS
  <2> DEFINE j == k + 1
  <2>2. a[j] = b[j] /\ j \in 1 .. m /\ j \in 1 .. Len(requests) /\ j \in 1 .. Len(requests2)
    BY <1>2, <2>1 DEF Agree
  <2> HIDE DEF j
  <2>3. a[j + 1] = Behind(stream, requests[j], a[j]) /\ b[j + 1] = Behind(stream2, requests2[j], b[j])
    BY <2>2 DEF Follows
  <2>4. Behind(stream, requests[j], a[j]) = Behind(stream2, requests2[j], b[j])
    BY <2>2, Zenon DEF Behind, Agree
  <2> QED
    BY <2>3, <2>4 DEF j
<1>3. Nat \subseteq T
  <2> HIDE DEF T
  <2> QED
    BY <1>1, <1>2, SetInduction
<1>4. ASSUME NEW k \in 1 .. m + 1 PROVE a[k] = b[k]
  <2> DEFINE j == k - 1
  <2>1. j \in Nat /\ j <= m /\ k = j + 1
    OBVIOUS
  <2> HIDE DEF j
  <2>2. j \in T
    BY <1>3, <2>1, Zenon
  <2>3. a[j + 1] = b[j + 1]
    BY <2>1, <2>2
  <2> QED
    BY <2>1, <2>3
<1> QED
  BY <1>4

-----------------------------------------------------------------------------
(* The client is in step *)

\* Every response is whole, and begins where the client looks for it; there is
\* nothing behind the last one.
InStep(at, stream, requests) ==
    /\ at[Len(requests) + 1] = Len(stream) + 1
    /\ \A k \in 1 .. Len(requests) : /\ at[k] \in DOMAIN stream /\ stream[at[k]][1] = "head"
                                     /\ k < Len(requests) => at[k] < at[Len(requests)]
    /\ \A p \in DOMAIN stream : stream[p][1] = "head" => \E k \in 1 .. Len(requests) : p = at[k]

WholeResponse(new, request) ==
    /\ new \in Seq(Sent) /\ new # <<>> /\ new[1][1] = "head"
    /\ Len(new) = 2 + BodyLength(new[1][2], request.method)
    /\ \A i \in 2 .. Len(new) : new[i][1] # "head"

\* b has the n values of a, and p behind them.
Extends(b, a, n, p) == (\A k \in 1 .. n : b[k] = a[k]) /\ b[n + 1] = p

LEMMA InStepGrows ==
    ASSUME NEW stream \in Seq(Sent), NEW S, NEW requests \in Seq(S), NEW q \in S, NEW new,
           InStep(Starts(stream, requests), stream, requests), WholeResponse(new, q)
    PROVE  /\ InStep(Starts(stream \o new, Append(requests, q)), stream \o new, Append(requests, q))
           /\ Extends(Starts(stream \o new, Append(requests, q)), Starts(stream, requests),
                      Len(requests), Len(stream) + 1)
<1> DEFINE all == stream \o new
           requests2 == Append(requests, q)
           a == Starts(stream, requests)
           b == Starts(all, requests2)
           n == Len(requests)
           x == Len(stream)
           y == Len(new)
<1>1. n \in Nat /\ x \in Nat /\ y \in Nat /\ DOMAIN stream = 1 .. x /\ y >= 1 /\ new \in Seq(Sent)
  BY EmptySeq DEF WholeResponse
<1>2. all \in Seq(Sent) /\ Joined(all, stream, new)
  BY <1>1, JoinedIs
<1>3. /\ requests2 \in Seq(S) /\ Len(requests2) = n + 1 /\ requests2[n + 1] = q
      /\ \A k \in 1 .. n : requests2[k] = requests[k]
  BY AppendProperties
<1>4. Follows(a, stream, requests)
  BY StartsFollow
<1> HIDE DEF all, requests2
<1>5. Follows(b, all, requests2)
  BY <1>2, <1>3, StartsFollow
<1>6. InStep(a, stream, requests)
  OBVIOUS
<1> HIDE DEF a, b
<1>7. /\ Len(all) = x + y /\ DOMAIN all = 1 .. x + y
      /\ \A i \in 1 .. x : all[i] = stream[i]
      /\ \A i \in 1 .. y : all[x + i] = new[i]
  <2>1. Len(all) = x + y /\ \A i \in 1 .. x + y : all[i] = IF i <= x THEN stream[i] ELSE new[i - x]
    BY <1>2 DEF Joined
  <2>2. DOMAIN all = 1 .. Len(all)
    BY <1>2
  <2> HIDE DEF x, y
  <2>3. ASSUME NEW i \in 1 .. y PROVE all[x + i] = new[i]
    <3>1. x + i \in 1 .. x + y /\ ~(x + i <= x) /\ (x + i) - x = i
      BY <1>1
    <3> QED
      BY <2>1, <3>1
  <2> QED
    BY <1>1, <2>1, <2>2, <2>3
<1>8. /\ a[n + 1] = x + 1
      /\ \A k \in 1 .. n : /\ a[k] \in 1 .. x /\ stream[a[k]][1] = "head"
                           /\ k < n => a[k] < a[n]
      /\ \A p \in 1 .. x : stream[p][1] = "head" => \E k \in 1 .. n : p = a[k]
  BY <1>1, <1>6 DEF InStep
<1>9. y = 2 + BodyLength(new[1][2], q.method) /\ new[1][1] = "head" /\ \A i \in 2 .. y : new[i][1] # "head"
  BY DEF WholeResponse
<1> HIDE DEF n, x, y
<1>10. \A k \in 1 .. n + 1 : a[k] = b[k]
  <2>1. n <= n + 1 /\ 1 .. x \subseteq 1 .. x + y
    BY <1>1
  <2>2. n <= Len(requests2) /\ Len(requests2) \in Nat
    BY <1>1, <1>3, <2>1
  <2>3. \A k \in 1 .. n : /\ requests[k] = requests2[k]
                          /\ a[k] \in DOMAIN stream /\ a[k] \in DOMAIN all
                          /\ stream[a[k]] = all[a[k]]
    BY <1>1, <1>3, <1>7, <1>8, <2>1
  <2>4. n <= Len(requests) /\ Len(requests) \in Nat
    BY <1>1 DEF n
  <2>5. Agree(a, n, stream, requests, all, requests2)
    BY <2>2, <2>3, <2>4, Zenon DEF Agree
  <2> QED
    BY <1>1, <1>4, <1>5, <2>5, StartsAgree
<1>11. b[n + 1] = x + 1 /\ n + 1 \in 1 .. n + 1
  BY <1>1, <1>8, <1>10
<1>12. x + 1 \in DOMAIN all /\ all[x + 1] = new[1]
  BY <1>1, <1>7
<1>13. b[(n + 1) + 1] = (x + y) + 1
  <2>1. b[(n + 1) + 1] = Behind(all, q, x + 1)
    BY <1>3, <1>5, <1>11 DEF Follows
  <2> DEFINE l == BodyLength(new[1][2], q.method)
  <2>2. Behind(all, q, x + 1) = (x + 1) + 2 + l
    BY <1>9, <1>12 DEF Behind
  <2>3. y = 2 + l
    BY <1>9
  <2>4. l \in Nat
    <3>1. new[1] \in Sent
      BY <1>1 DEF y
    <3>2. new[1][2] \in SentHeads
      BY <1>9, <3>1 DEF Sent
    <3> QED
      BY <3>2, BodyLengthType
  <2> HIDE DEF l
  <2> QED
    BY <1>1, <2>1, <2>2, <2>3, <2>4
<1>14. ASSUME NEW k \in 1 .. n + 1
       PROVE  /\ b[k] \in DOMAIN all /\ all[b[k]][1] = "head"
              /\ k < n + 1 => b[k] < b[n + 1]
  <2>1. CASE k = n + 1
    BY <1>1, <1>9, <1>11, <1>12, <2>1
  <2>2. CASE k # n + 1
    <3>1. k \in 1 .. n
      BY <1>1, <2>2
    <3>2. b[k] = a[k] /\ a[k] \in 1 .. x /\ stream[a[k]][1] = "head"
      BY <1>8, <1>10, <3>1
    <3> QED
      BY <1>1, <1>7, <1>11, <3>2
  <2> QED
    BY <2>1, <2>2
<1>15. ASSUME NEW p \in DOMAIN all, all[p][1] = "head"
       PROVE  \E k \in 1 .. n + 1 : p = b[k]
  <2>1. CASE p \in 1 .. x
    <3>1. PICK k \in 1 .. n : p = a[k]
      BY <1>7, <1>8, <1>15, <2>1
    <3> QED
      BY <1>1, <1>10, <3>1
  <2>2. CASE p \notin 1 .. x
    <3> DEFINE i == p - x
    <3>1. i \in 1 .. y /\ p = x + i
      BY <1>1, <1>7, <2>2
    <3> HIDE DEF i
    <3>2. all[p] = new[i]
      BY <1>7, <3>1
    <3>3. i = 1
      BY <1>1, <1>9, <1>15, <3>1, <3>2
    <3> QED
      BY <1>11, <3>1, <3>3
  <2> QED
    BY <2>1, <2>2
<1>16. InStep(b, all, requests2)
  BY <1>3, <1>7, <1>13, <1>14, <1>15 DEF InStep
<1>17. Extends(b, a, n, x + 1)
  BY <1>1, <1>10, <1>11 DEF Extends
<1> QED
  BY <1>16, <1>17 DEF all, requests2, a, b, n, x

-----------------------------------------------------------------------------
(* ClientInSync.  A request that did not parse gets an error with a body,   *)
(* also if it was HEAD, which a client cannot frame; then the connection is *)
(* closed.                                                                 *)

HeadsParse == \A q \in Asked : q.method = <<"HEAD">> => q.parses

\* What is written and what is still to be written.
Total == wire \o (out.head \o out.body)
At == Starts(Total, asked)

Requested == Questions \cup {[method |-> Get]}

SyncInv ==
    /\ stage \in {"writing", "closed"} => Len(asked) > 0
    /\ stage # "writing" => out = Nothing
    /\ ~cut => /\ InStep(At, Total, asked)
               /\ stage = "writing" => At[Len(asked)] <= Len(wire) + 1

LEMMA TotalIsWire ==
    ASSUME TypeInv, out = Nothing
    PROVE  Total = wire
<1>1. <<>> \in Seq(Sent) /\ wire \in Seq(Sent)
  BY DEF TypeInv
<1>2. <<>> \o <<>> = <<>> /\ wire \o <<>> = wire
  BY <1>1, ConcatEmptySeq
<1>3. out.head = <<>> /\ out.body = <<>>
  BY DEF Nothing
<1> QED
  BY <1>2, <1>3, Zenon DEF Total

\* What ExecuteRoute leaves to be written is one response.
LEMMA ExecutedWhole ==
    ASSUME HeadsParse, TypeInv, NEW q \in Questions, q.method = <<"HEAD">> => q.parses,
           NEW guarded \in BOOLEAN, Executed(q, guarded)
    PROVE  /\ WholeResponse(out'.head \o out'.body, q)
           /\ (out'.head \o out'.body)[1] = <<"head", Said(q, guarded)>>
<1> DEFINE said == Said(q, guarded)
           body == Response(q, guarded).body
           h == HeadLexemes(said)
           b == BodyLexemes(body)
           new == h \o b
           l == Len(body)
<1>1. q.parses \in BOOLEAN
  BY DEF Questions
<1>2. said \in SentHeads /\ body \in Seq(Bytes)
  BY <1>1, ResponseType
<1>3. BodyLength(said, q.method) = l
  <2>1. Answer(q, guarded) \in Answers /\ Kept(q, guarded) \in BOOLEAN
    BY <1>1, AnswerType, ResponseType
  <2>2. Response(q, guarded).head = Answer(q, guarded).head
    BY <1>1, ResponseType
  <2>3. /\ said = Announce(Answer(q, guarded).head, Kept(q, guarded))
        /\ body = WithoutBody(Answer(q, guarded), q).body
    BY <2>2, Zenon DEF Said, Response
  <2> QED
    BY <2>1, <2>3, BodyFits
<1>4. out'.head = h /\ out'.body = b
  BY DEF Executed
<1> HIDE DEF said, body
<1>5. h \in Seq(Sent) /\ Len(h) = 2 /\ h[1] = <<"head", said>> /\ h[2] = <<"blank">>
  BY <1>2, HeadLexemesType
<1>6. b \in Seq(Sent) /\ Len(b) = l /\ l \in Nat /\ \A i \in 1 .. l : b[i] = <<"byte", body[i]>>
  BY <1>2, BodyLexemesType
<1> HIDE DEF h, b, l
<1>7. new \in Seq(Sent) /\ Joined(new, h, b)
  BY <1>5, <1>6, JoinedIs
<1> HIDE DEF new
<1>8. Len(new) = 2 + l /\ \A i \in 1 .. 2 + l : new[i] = IF i <= 2 THEN h[i] ELSE b[i - 2]
  BY <1>5, <1>6, <1>7 DEF Joined
<1>9. new[1] = <<"head", said>> /\ new # <<>>
  BY <1>5, <1>6, <1>7, <1>8
<1>10. ASSUME NEW i \in 2 .. Len(new) PROVE new[i][1] # "head"
  <2>1. CASE i = 2
    BY <1>5, <1>6, <1>8, <2>1
  <2>2. CASE i # 2
    <3> DEFINE j == i - 2
    <3>1. i \in 1 .. 2 + l /\ ~(i <= 2) /\ j \in 1 .. l
      BY <1>6, <1>8, <2>2
    <3>2. new[i] = b[j]
      BY <1>8, <3>1
    <3> HIDE DEF j
    <3> QED
      BY <1>6, <3>1, <3>2
  <2> QED
    BY <2>1, <2>2
<1>11. new[1][1] = "head" /\ new[1][2] = said
  BY <1>9
<1>12. WholeResponse(new, q)
  BY <1>3, <1>7, <1>8, <1>9, <1>10, <1>11 DEF WholeResponse
<1> QED
  BY <1>4, <1>9, <1>12, Zenon DEF new, said

LEMMA RejectedWhole ==
    ASSUME NEW code \in {400, 408}
    PROVE  /\ WholeResponse(Rejected(code), [method |-> Get])
           /\ Rejected(code) \in Seq(Sent) /\ Len(Rejected(code)) = 3
           /\ Rejected(code)[1] = <<"head", Rejection(code).head>>
<1> DEFINE r == Rejected(code)
           head == Rejection(code).head
<1>1. /\ Rejection(code) \in Answers /\ head.status = code /\ Rejection(code).body = <<"error">>
      /\ head \in SentHeads
      /\ r \in Seq(Sent) /\ Len(r) = 3
      /\ r[1] = <<"head", head>> /\ r[2] = <<"blank">> /\ r[3] = <<"byte", "error">>
  BY RejectionIs
<1>2. BodyLength(head, Get) = 1
  <2>1. Sized(Rejection(code)) /\ Has(head.headers, "Content-Length")
    BY <1>1 DEF Answers, SentHeads, Heads
  <2>2. Value(head, "Content-Length") = Len(<<"error">>)
    BY <1>1, <2>1, ValueOfEntry DEF Sized
  <2>3. Get # <<"HEAD">>
    BY DEF Get
  <2>4. Len(<<"error">>) = 1
    OBVIOUS
  <2> HIDE DEF head
  <2> QED
    BY <1>1, <2>2, <2>3, <2>4 DEF BodyLength
<1> HIDE DEF r, head
<1>3. r # <<>> /\ r[1][1] = "head" /\ r[1][2] = head
  BY <1>1
<1>4. ASSUME NEW i \in 2 .. Len(r) PROVE r[i][1] # "head"
  <2>1. i = 2 \/ i = 3
    BY <1>1
  <2> QED
    BY <1>1, <2>1
<1>5. WholeResponse(r, [method |-> Get])
  BY <1>1, <1>2, <1>3, <1>4 DEF WholeResponse
<1> QED
  BY <1>1, <1>5 DEF r, head

\* Portions of a response make no difference to it.
LEMMA TotalStays ==
    ASSUME TypeInv, NEW n \in 1 .. 4, WriteSome(n)
    PROVE  Total' = Total /\ Len(wire') = Len(wire) + n /\ Len(wire) \in Nat
<1> DEFINE all == out.head \o out.body
           taken == SubSeq(all, 1, n)
           left == Rest(out, n)
           more == left.head \o left.body
<1>1. /\ out \in [head : Seq(Sent), body : Seq(Sent)] /\ wire \in Seq(Sent)
      /\ n \in Nat /\ n <= Len(out.head) + Len(out.body)
  BY DEF WriteSome, TypeInv
<1>2. /\ taken \in Seq(Sent) /\ left \in [head : Seq(Sent), body : Seq(Sent)]
      /\ Whole(taken, left, out) /\ Len(taken) = n
  BY <1>1, RestIs
<1>3. taken \o more = all
  BY <1>2, Zenon DEF Whole
<1>4. wire' = wire \o taken /\ out' = left
  BY DEF WriteSome
<1> HIDE DEF all, taken, left
<1>5. more \in Seq(Sent)
  BY <1>2
<1> HIDE DEF more
<1>6. (wire \o taken) \o more = wire \o (taken \o more)
  <2>1. wire \in Seq(Sent) /\ taken \in Seq(Sent) /\ more \in Seq(Sent)
    BY <1>1, <1>2, <1>5
  <2> QED
    BY <2>1, ConcatAssociative, SMTT(40)
<1>7. Total' = wire' \o more
  BY <1>4, Zenon DEF Total, more
<1>8. Len(wire \o taken) = Len(wire) + n /\ Len(wire) \in Nat
  BY <1>1, <1>2
<1> QED
  BY <1>3, <1>4, <1>6, <1>7, <1>8, Zenon DEF Total, all

LEMMA SyncInit == ExchangeInit => SyncInv
<1> SUFFICES ASSUME ExchangeInit PROVE SyncInv
  OBVIOUS
<1>1. Total = <<>>
  BY InitType, TotalIsWire DEF ExchangeInit
<1>2. asked = <<>> /\ asked \in Seq(Requested) /\ Len(asked) = 0 /\ <<>> \in Seq(Sent)
  BY DEF ExchangeInit
<1>3. At[1] = 1
  <2>1. Follows(At, <<>>, asked)
    BY <1>1, <1>2, StartsFollow DEF At
  <2> QED
    BY <2>1 DEF Follows
<1>4. Len(<<>>) = 0 /\ DOMAIN <<>> = {}
  OBVIOUS
<1>5. InStep(At, Total, asked)
  BY <1>1, <1>2, <1>3, <1>4 DEF InStep
<1> QED
  BY <1>5 DEF ExchangeInit, SyncInv

LEMMA SyncExecute ==
    ASSUME HeadsParse, TypeInv, TypeInv', SyncInv, NEW q \in Questions, q.method = <<"HEAD">> => q.parses,
           NEW guarded \in BOOLEAN, Executed(q, guarded)
    PROVE  /\ SyncInv'
           /\ ~cut => /\ Extends(At', At, Len(asked), Len(wire) + 1)
                      /\ Total' = wire \o (out'.head \o out'.body)
<1> DEFINE new == out'.head \o out'.body
<1>1. /\ WholeResponse(new, q) /\ new[1] = <<"head", Said(q, guarded)>>
  BY ExecutedWhole
<1>2. /\ stage = "idle" /\ stage' = "writing" /\ asked' = Append(asked, q)
      /\ wire' = wire /\ cut' = cut
  BY DEF Executed
<1>3. Total = wire
  BY <1>2, TotalIsWire DEF SyncInv
<1>4. wire \in Seq(Sent) /\ asked \in Seq(Requested) /\ q \in Requested
  BY DEF TypeInv, Requested
<1>5. Len(asked') = Len(asked) + 1 /\ Len(asked) \in Nat
  BY <1>2, <1>4
<1>6. Total' = wire \o new
  BY <1>2 DEF Total
<1> HIDE DEF new
<1>7. ASSUME ~cut
      PROVE  /\ InStep(At', Total', asked')
             /\ Extends(At', At, Len(asked), Len(wire) + 1)
  <2>1. At = Starts(wire, asked) /\ At' = Starts(wire \o new, Append(asked, q))
    BY <1>2, <1>3, <1>6, Zenon DEF At
  <2>2. InStep(Starts(wire, asked), wire, asked)
    BY <1>3, <1>7, <2>1 DEF SyncInv
  <2>3. /\ InStep(Starts(wire \o new, Append(asked, q)), wire \o new, Append(asked, q))
        /\ Extends(Starts(wire \o new, Append(asked, q)), Starts(wire, asked), Len(asked), Len(wire) + 1)
    BY <1>1, <1>4, <2>2, InStepGrows
  <2> QED
    BY <1>2, <1>6, <2>1, <2>3, Zenon
<1>8. ~cut => At'[Len(asked')] <= Len(wire') + 1
  <2>1. Len(wire) + 1 <= Len(wire) + 1
    BY <1>4
  <2> QED
    BY <1>2, <1>5, <1>7, <2>1 DEF Extends
<1>9. SyncInv'
  BY <1>2, <1>5, <1>7, <1>8 DEF SyncInv
<1> QED
  BY <1>6, <1>7, <1>9, Zenon DEF new

\* A rejection that is written to its end.
RejectedWholly(code) ==
    ~cut' => /\ ~cut
             /\ Extends(At', At, Len(asked), Len(wire) + 1)
             /\ Total' = wire \o Rejected(code)

LEMMA SyncReject ==
    ASSUME TypeInv, SyncInv, NEW code \in {400, 408}, NEW n \in 0 .. 3, Reject(code, n)
    PROVE  SyncInv' /\ RejectedWholly(code)
<1> DEFINE new == Rejected(code)
           q == [method |-> Get]
<1>1. /\ WholeResponse(new, q) /\ new \in Seq(Sent) /\ Len(new) = 3
  BY RejectedWhole
<1>2. /\ n <= Len(new) /\ stage = "idle" /\ stage' = "closed" /\ asked' = Append(asked, q)
      /\ wire' = wire \o SubSeq(new, 1, n)
      /\ cut' = (cut \/ n < Len(new)) /\ out' = out
  BY Zenon DEF Reject, Rejected, Rejection
<1>3. Total = wire /\ out = Nothing
  BY <1>2, TotalIsWire DEF SyncInv
<1>4. wire \in Seq(Sent) /\ asked \in Seq(Requested) /\ q \in Requested
  BY DEF TypeInv, Requested
<1> HIDE DEF new, q
<1>5. Len(asked') > 0
  BY <1>2, <1>4
<1>6. ASSUME ~cut'
      PROVE  /\ ~cut
             /\ InStep(At', Total', asked')
             /\ Extends(At', At, Len(asked), Len(wire) + 1)
             /\ Total' = wire \o new
  <2>1. n = Len(new) /\ ~cut
    <3>1. ~cut /\ ~(n < Len(new))
      BY <1>2, <1>6, Zenon
    <3>2. n <= Len(new) /\ Len(new) = 3
      BY <1>1, <1>2, Zenon
    <3> QED
      BY <3>1, <3>2
  <2>2. wire' = wire \o new
    BY <1>1, <1>2, <2>1, SubSeqFull
  <2>3. Total' = wire \o new
    <3>1. TypeInv'
      BY RejectType
    <3>2. wire' \in Seq(Sent) /\ out'.head = <<>> /\ out'.body = <<>>
      BY <1>2, <1>3, <3>1 DEF TypeInv, Nothing
    <3>3. <<>> \o <<>> = <<>> /\ wire' \o <<>> = wire'
      BY <3>2, ConcatEmptySeq
    <3> QED
      BY <2>2, <3>2, <3>3, Zenon DEF Total
  <2>4. At = Starts(wire, asked) /\ At' = Starts(wire \o new, Append(asked, q))
    BY <1>2, <1>3, <2>3, Zenon DEF At
  <2>5. InStep(Starts(wire, asked), wire, asked)
    BY <1>3, <2>1, <2>4 DEF SyncInv
  <2>6. /\ InStep(Starts(wire \o new, Append(asked, q)), wire \o new, Append(asked, q))
        /\ Extends(Starts(wire \o new, Append(asked, q)), Starts(wire, asked), Len(asked), Len(wire) + 1)
    BY <1>1, <1>4, <2>5, InStepGrows
  <2> QED
    BY <1>2, <2>1, <2>3, <2>4, <2>6, Zenon
<1>7. SyncInv'
  BY <1>2, <1>3, <1>5, <1>6 DEF SyncInv
<1> QED
  BY <1>6, <1>7, Zenon DEF RejectedWholly, new

\* A response that is not written to its end is the last of ~cut.
LEMMA SyncStep ==
    ASSUME HeadsParse, TypeInv, TypeInv', SyncInv, [ExchangeNext]_exchangeVars
    PROVE  SyncInv'
<1>1. ASSUME UNCHANGED <<out, asked, wire, cut>>, stage' # "writing" \/ stage' = stage,
             stage' # "writing" => out = Nothing, stage' \in {"writing", "closed"} => Len(asked) > 0
      PROVE  SyncInv'
  <2>1. Total' = Total
    BY <1>1 DEF Total
  <2>2. At' = At
    BY <1>1, <2>1 DEF At
  <2> QED
    BY <1>1, <2>1, <2>2 DEF SyncInv
<1>2. ASSUME NEW r \in Registrations, Register(r) PROVE SyncInv'
  BY <1>1, <1>2 DEF Register, SyncInv
<1>3. ASSUME NEW single \in BOOLEAN, Listen(single) PROVE SyncInv'
  BY <1>1, <1>3 DEF Listen, SyncInv
<1>4. ASSUME NEW name \in Replaced, NEW version \in Versions, Deploy(name, version) PROVE SyncInv'
  BY <1>1, <1>4 DEF Deploy, SyncInv
<1>5. ASSUME NEW q \in Asked, NEW conditional \in BOOLEAN, NEW guarded \in BOOLEAN,
             Request(q, conditional, guarded)
      PROVE  SyncInv'
  <2>1. Executed(Asking(q, conditional), guarded)
    BY <1>5, ExecutedIs DEF Request, Asking
  <2>2. /\ Asking(q, conditional) \in Questions
        /\ Asking(q, conditional).method = q.method /\ Asking(q, conditional).parses = q.parses
    BY AskingType
  <2>3. q.method = <<"HEAD">> => q.parses
    BY DEF HeadsParse
  <2> QED
    BY <2>1, <2>2, <2>3, SyncExecute
<1>6. ASSUME NEW n \in 1 .. 4, WriteSome(n) PROVE SyncInv'
  <2>1. Total' = Total /\ Len(wire') = Len(wire) + n /\ Len(wire) \in Nat
    BY <1>6, TotalStays
  <2>2. UNCHANGED <<stage, asked, cut>> /\ stage = "writing"
    BY <1>6 DEF WriteSome
  <2>3. At' = At
    BY <2>1, <2>2 DEF At
  <2>4. ~cut => At[Len(asked)] <= Len(wire) + n + 1
    <3> SUFFICES ASSUME ~cut PROVE At[Len(asked)] <= Len(wire) + n + 1
      OBVIOUS
    <3>1. Total \in Seq(Sent)
      <4>1. /\ wire \in Seq(Sent) /\ out.head \in Seq(Sent) /\ out.body \in Seq(Sent)
        BY DEF TypeInv
      <4> QED
        BY <4>1, JoinedIs DEF Total
    <3>2. Follows(At, Total, asked)
      BY <3>1, StartsFollow DEF At, TypeInv
    <3>3. Len(asked) \in 1 .. Len(asked) + 1
      BY <2>2 DEF SyncInv, TypeInv
    <3>4. At[Len(asked)] \in Nat
      BY <3>2, <3>3 DEF Follows
    <3>5. At[Len(asked)] <= Len(wire) + 1
      BY <2>2 DEF SyncInv
    <3> HIDE DEF At
    <3> QED
      BY <2>1, <3>4, <3>5
  <2> QED
    BY <2>1, <2>2, <2>3, <2>4 DEF SyncInv
<1>7. ASSUME GiveUp PROVE SyncInv'
  BY <1>7 DEF GiveUp, SyncInv
<1>8. ASSUME Finish PROVE SyncInv'
  <2>1. /\ stage = "writing" /\ out = Nothing /\ stage' = IF keep_alive THEN "idle" ELSE "closed"
        /\ UNCHANGED <<out, asked, wire, cut>>
    BY <1>8, Zenon DEF Finish
  <2> QED
    BY <1>1, <2>1 DEF SyncInv
<1>9. ASSUME NEW code \in {400, 408}, NEW n \in 0 .. 3, Reject(code, n) PROVE SyncInv'
  BY <1>9, SyncReject
<1>10. CASE UNCHANGED exchangeVars
  BY <1>1, <1>10 DEF exchangeVars, SyncInv
<1> QED
  BY <1>2, <1>3, <1>4, <1>5, <1>6, <1>7, <1>8, <1>9, <1>10 DEF ExchangeNext

LEMMA SyncInductive ==
    ASSUME HeadsParse
    PROVE  ExchangeSpec => [](TypeInv /\ SyncInv)
<1>1. TypeInv /\ TypeInv' /\ SyncInv /\ [ExchangeNext]_exchangeVars => SyncInv'
  BY SyncStep
<1> QED
  BY <1>1, SyncInit, ExchangeTypes, PTL DEF ExchangeSpec

\* The client of a stream in step, of which it has a part that reaches the last
\* response.
LEMMA InStepReads ==
    ASSUME TypeInv, SyncInv, ~cut
    PROVE  ClientInSync
<1> DEFINE n == Len(asked)
           s == Starts(wire, asked)
           a == At
           x == Len(wire)
           t == Total
           rest == out.head \o out.body
<1>1. /\ wire \in Seq(Sent) /\ rest \in Seq(Sent) /\ asked \in Seq(Requested) /\ n \in Nat
      /\ x \in Nat /\ DOMAIN wire = 1 .. x
  BY DEF TypeInv, Requested
<1>2. t \in Seq(Sent) /\ Joined(t, wire, rest)
  BY <1>1, JoinedIs DEF Total
<1>3. Follows(s, wire, asked) /\ Follows(a, t, asked)
  BY <1>1, <1>2, StartsFollow DEF At
<1>4. InStep(a, t, asked) /\ (stage = "writing" => n > 0 /\ a[n] <= x + 1)
  BY DEF SyncInv
<1>5. stage # "writing" => t = wire /\ s = a
  <2> SUFFICES ASSUME stage # "writing" PROVE t = wire /\ s = a
    OBVIOUS
  <2>1. t = wire
    BY TotalIsWire DEF SyncInv
  <2> QED
    BY <2>1, Zenon DEF At
<1> HIDE DEF s, a, t, rest
<1>6. /\ Len(t) >= x /\ DOMAIN t = 1 .. Len(t) /\ Len(t) \in Nat
      /\ \A i \in 1 .. x : t[i] = wire[i]
  <2> DEFINE y == Len(rest)
             z == Len(t)
  <2>1. y \in Nat /\ z = x + y /\ \A i \in 1 .. x + y : t[i] = IF i <= x THEN wire[i] ELSE rest[i - x]
    BY <1>1, <1>2 DEF Joined
  <2>2. DOMAIN t = 1 .. z
    BY <1>2
  <2> HIDE DEF x, y, z
  <2>3. z >= x /\ z \in Nat /\ \A i \in 1 .. x : i \in 1 .. x + y /\ i <= x
    BY <1>1, <2>1
  <2> QED
    BY <2>1, <2>2, <2>3 DEF z
<1>7. /\ a[n + 1] = Len(t) + 1
      /\ \A k \in 1 .. n : /\ a[k] \in 1 .. Len(t) /\ t[a[k]][1] = "head"
                           /\ k < n => a[k] < a[n]
  BY <1>4, <1>6 DEF InStep
<1> DEFINE whole(k) == s[k] \in DOMAIN wire /\ s[k + 1] <= x + 1
<1>8. CASE stage # "writing"
  <2>1. \A k \in 1 .. n : s[k] \in DOMAIN wire /\ wire[s[k]][1] = "head" /\ s[k + 1] <= x + 1
    <3> TAKE k \in 1 .. n
    <3>1. s[k] \in DOMAIN wire /\ wire[s[k]][1] = "head"
      BY <1>5, <1>6, <1>7, <1>8
    <3>2. CASE k = n
      BY <1>1, <1>5, <1>7, <1>8, <3>1, <3>2
    <3>3. CASE k # n
      <4>1. k + 1 \in 1 .. n
        BY <1>1, <3>3
      <4>2. s[k + 1] \in 1 .. x
        BY <1>1, <1>5, <1>6, <1>7, <1>8, <4>1
      <4> QED
        BY <1>1, <3>1, <4>2
    <3> QED
      BY <3>2, <3>3
  <2>2. x < s[n + 1]
    BY <1>1, <1>5, <1>7, <1>8
  <2> QED
    BY <2>1, <2>2, Zenon DEF ClientInSync, n, s, x
<1>9. CASE stage = "writing"
  <2> DEFINE m == n - 1
  <2>1. m \in Nat /\ m + 1 = n /\ n \in 1 .. n /\ a[n] <= x + 1 /\ a[n] \in 1 .. Len(t)
    BY <1>1, <1>4, <1>7, <1>9
  <2>2. \A k \in 1 .. m : a[k] \in 1 .. x
    <3> DEFINE y == Len(t)
    <3>1. \A k \in 1 .. n : a[k] \in 1 .. y /\ (k < n => a[k] < a[n])
      BY <1>7
    <3>2. a[n] \in 1 .. y /\ y \in Nat
      BY <1>6, <2>1
    <3> HIDE DEF n, x, y
    <3> SUFFICES ASSUME NEW k \in 1 .. m PROVE a[k] \in 1 .. x
      OBVIOUS
    <3>3. k \in 1 .. n /\ k < n
      BY <1>1
    <3>4. a[k] \in 1 .. y /\ a[k] < a[n]
      BY <3>1, <3>3
    <3> QED
      BY <1>1, <2>1, <3>2, <3>4
  <2> HIDE DEF m
  <2>3. Agree(a, m, t, asked, wire, asked)
    <3>1. \A k \in 1 .. m : a[k] \in DOMAIN t /\ a[k] \in DOMAIN wire /\ t[a[k]] = wire[a[k]]
      BY <1>1, <1>6, <2>2
    <3>2. Len(asked) \in Nat /\ m <= Len(asked)
      BY <1>1, <2>1 DEF n
    <3> QED
      BY <3>1, <3>2 DEF Agree
  <2>4. \A k \in 1 .. m + 1 : a[k] = s[k]
    BY <1>3, <2>1, <2>3, StartsAgree
  <2>5. \A k \in 1 .. n : a[k] = s[k]
    BY <2>1, <2>4
  <2>6. \A k \in 1 .. n : s[k] \in DOMAIN wire => wire[s[k]][1] = "head"
    BY <1>1, <1>6, <1>7, <2>5
  <2>7. s[n + 1] = Behind(wire, asked[n], s[n]) /\ a[n + 1] = Behind(t, asked[n], a[n])
    BY <1>3, <2>1 DEF Follows, n
  <2>8. x < s[n + 1]
    <3>1. CASE a[n] \in 1 .. x
      <4>1. a[n] \in DOMAIN wire /\ a[n] \in DOMAIN t /\ wire[a[n]] = t[a[n]]
        BY <1>1, <1>6, <2>1, <3>1
      <4>2. Behind(wire, asked[n], a[n]) = Behind(t, asked[n], a[n])
        BY <4>1, Zenon DEF Behind
      <4>3. s[n + 1] = Len(t) + 1
        BY <1>7, <2>1, <2>5, <2>7, <4>2
      <4> QED
        BY <1>1, <1>6, <4>3
    <3>2. CASE a[n] \notin 1 .. x
      <4>1. a[n] = x + 1 /\ a[n] \notin DOMAIN wire
        BY <1>1, <1>6, <2>1, <3>2
      <4>2. s[n + 1] = x + 1
        BY <2>1, <2>5, <2>7, <4>1 DEF Behind
      <4> QED
        BY <1>1, <4>2
    <3> QED
      BY <3>1, <3>2
  <2>9. ASSUME NEW k \in 1 .. n, k < n PROVE s[k] \in DOMAIN wire /\ s[k + 1] <= x + 1
    <3>1. k \in 1 .. m /\ k + 1 \in 1 .. n
      BY <1>1, <2>1, <2>9
    <3>2. s[k] \in DOMAIN wire
      BY <1>1, <2>2, <2>5, <3>1
    <3>3. s[k + 1] <= a[n] /\ s[k + 1] \in Nat /\ a[n] \in Nat
      <4> DEFINE j == k + 1
                 y == Len(t)
      <4>1. j \in 1 .. n /\ (j < n => a[j] < a[n]) /\ a[j] \in 1 .. y /\ a[n] \in 1 .. y /\ y \in Nat
        BY <1>6, <1>7, <2>1, <3>1
      <4>2. s[j] = a[j]
        BY <2>5, <4>1
      <4> HIDE DEF j, y, n
      <4>3. s[j] <= a[n] /\ s[j] \in Nat /\ a[n] \in Nat
        <5>1. CASE j = n
          BY <4>1, <4>2, <5>1
        <5>2. CASE j # n
          BY <1>1, <4>1, <4>2, <5>2
        <5> QED
          BY <5>1, <5>2
      <4> QED
        BY <4>3 DEF j
    <3> QED
      BY <1>1, <2>1, <3>2, <3>3
  <2> QED
    BY <1>9, <2>6, <2>8, <2>9, Zenon DEF ClientInSync, n, s, x
<1> QED
  BY <1>8, <1>9

\* While no response was cut a client that reads by Content-Length finds each
\* response where it looks for it, in whatever portions they come.
THEOREM InSync ==
    ASSUME HeadsParse
    PROVE  ExchangeSpec => []ClientInSync
<1>1. TypeInv /\ SyncInv => ClientInSync
  <2> SUFFICES ASSUME TypeInv, SyncInv, cut PROVE ClientInSync
    BY InStepReads
  <2> QED
    BY Zenon DEF ClientInSync
<1> QED
  BY <1>1, SyncInductive, PTL

-----------------------------------------------------------------------------
(* FateAsAnnounced, if handlers that set Connection themselves write it as  *)
(* the code does, and no other header of theirs says keep-alive where the   *)
(* code looks for it: it would be changed in place of Connection            *)

PlainHandlers ==
    \A handler \in DOMAIN Chains :
        LET done == ExecuteChain(Query, Chains[handler])
        IN  done.threw \/ Plain(done.last.head.headers)

LEMMA AnswerIsPlain ==
    ASSUME PlainHandlers, TypeInv, NEW q, q.parses \in BOOLEAN, NEW guarded \in BOOLEAN
    PROVE  Plain(Answer(q, guarded).head.headers)
<1> DEFINE who    == Resolve(table, PathOf(q.target), q.method)
           done   == ExecuteChain(Query, Chains[who.who])
           served == Serve(table.mounts[who.who], disk, PathOf(q.target), q.method, q.tags)
           answer == Answer(q, guarded)
<1>1. AnswerCases(q, answer)
  BY AnswerIs
<1>2. \/ \E parsed \in BOOLEAN : answer = Fallback(parsed)
      \/ answer = GuardRoute
      \/ served \in Serves /\ answer = OfFile(served)
      \/ who.who \in DOMAIN Chains /\ ~done.threw /\ answer = done.last
  BY <1>1, Zenon DEF AnswerCases
<1>3. who.who \in DOMAIN Chains /\ ~done.threw => Plain(done.last.head.headers)
  BY Zenon DEF PlainHandlers
<1> HIDE DEF answer, served, done, who
<1>4. ASSUME NEW parsed \in BOOLEAN PROVE Plain(Fallback(parsed).head.headers)
  BY FallbackType DEF Tagless
<1>5. Plain(GuardRoute.head.headers)
  BY GuardType DEF Tagless
<1>6. served \in Serves => Plain(OfFile(served).head.headers)
  BY OfFileType DEF Filed
<1> QED
  BY <1>2, <1>3, <1>4, <1>5, <1>6, Zenon DEF answer

\* The head announces what keep says.
LEMMA SaidFate ==
    ASSUME NEW head \in Heads, Plain(head.headers), NEW keep \in BOOLEAN, keep => ~SaysClose(head)
    PROVE  Value(Announce(head, keep), "Connection") = "close" <=> ~keep
<1> DEFINE said == Announce(head, keep)
<1>1. /\ said \in Heads
      /\ \A e \in Entries(said.headers) : e \in Entries(head.headers) \/ Mentions(e, "close")
      /\ keep => said = head
      /\ ~keep => <<"Connection", "keep-alive">> \notin Entries(said.headers)
  BY AnnounceIs
<1> HIDE DEF said
<1>2. Has(said.headers, "Connection")
  BY <1>1 DEF Heads
<1>3. PICK e \in Entries(said.headers) : SameName(e[1], "Connection") /\ Value(said, "Connection") = e[2]
  BY <1>2, ValueOfEntry
<1>4. e[2] = "close" \/ e = <<"Connection", "keep-alive">>
  BY <1>1, <1>3 DEF Plain, Fates, Speaks, Mentions
<1>5. keep => e[2] # "close"
  <2> SUFFICES ASSUME keep, e[2] = "close" PROVE FALSE
    OBVIOUS
  <2>1. e \in Entries(head.headers)
    BY <1>1, <1>3
  <2>2. e \in Fates
    BY <1>3, <2>1 DEF Plain, Speaks
  <2>3. Mentions(e, "close")
    BY <2>2 DEF Fates, Mentions, FateNames
  <2> QED
    BY <2>1, <2>3, Zenon DEF Entries, SaysClose
<1>6. ~keep => e[2] = "close"
  BY <1>1, <1>3, <1>4
<1> QED
  BY <1>3, <1>4, <1>5, <1>6 DEF said

Closes(head) == Value(head, "Connection") = "close"

LEMMA ExecutedFate ==
    ASSUME PlainHandlers, TypeInv, NEW q \in Questions, NEW guarded \in BOOLEAN
    PROVE  Closes(Said(q, guarded)) <=> ~Kept(q, guarded)
<1> DEFINE head == Answer(q, guarded).head
           keep == Kept(q, guarded)
<1>1. q.parses \in BOOLEAN
  BY DEF Questions
<1>2. Answer(q, guarded) \in Answers /\ Plain(head.headers)
  BY <1>1, AnswerType, AnswerIsPlain
<1>3. head \in Heads
  BY <1>2 DEF Answers, Responses
<1>4. Response(q, guarded).head = head /\ keep \in BOOLEAN
  BY <1>1, ResponseType
<1>5. Said(q, guarded) = Announce(head, keep)
  BY <1>4, Zenon DEF Said
<1>6. keep => ~SaysClose(head)
  BY <1>4, Zenon DEF Kept, KeepAlive
<1> HIDE DEF head, keep
<1> QED
  BY <1>2, <1>3, <1>4, <1>5, <1>6, SaidFate DEF Closes, keep

LEMMA RejectedFate ==
    ASSUME NEW code \in {400, 408}
    PROVE  Closes(Rejection(code).head)
<1> DEFINE head == Rejection(code).head
<1>1. head \in SentHeads /\ <<"Connection", "close">> \in Entries(head.headers)
  BY RejectionIs
<1> HIDE DEF head
<1>2. OneEach(head.headers)
  BY <1>1 DEF SentHeads, Heads, Headers
<1> DEFINE e == <<"Connection", "close">>
<1>3. SameName(e[1], "Connection") /\ e[2] = "close"
  BY DEF SameName
<1>4. e \in Entries(head.headers)
  BY <1>1
<1> HIDE DEF e
<1>5. Value(head, "Connection") = "close"
  BY <1>2, <1>3, <1>4, ValueIs
<1> QED
  BY <1>5 DEF Closes, head

\* The responses that say close: none but the last, which does if the
\* connection is or will be closed after it.
Over == stage = "closed" \/ (stage = "writing" /\ ~keep_alive)

\* Of the m responses only the last may say close, and does if it is over.
OnlyLast(at, m, stream, over) ==
    \A k \in 1 .. m : Closes(stream[at[k]][2]) <=> k = m /\ over

FateInv == ~cut => OnlyLast(At, Len(asked), Total, Over)

NoneCloses(at, n, stream) == \A k \in 1 .. n : at[k] \in DOMAIN stream /\ ~Closes(stream[at[k]][2])

\* One more response is on its way.
LEMMA FateGrows ==
    ASSUME NEW n \in Nat, NEW at, NEW stream \in Seq(Sent), NEW at2, NEW new \in Seq(Sent),
           Extends(at2, at, n, Len(stream) + 1), NoneCloses(at, n, stream), new # <<>>
    PROVE  OnlyLast(at2, n + 1, stream \o new, Closes(new[1][2]))
<1> DEFINE all == stream \o new
           over == Closes(new[1][2])
<1> DEFINE x == Len(stream)
<1>1. all \in Seq(Sent) /\ Joined(all, stream, new) /\ x \in Nat /\ DOMAIN stream = 1 .. x
  BY JoinedIs
<1>2. Len(new) \in Nat /\ Len(new) >= 1
  BY EmptySeq
<1> HIDE DEF all
<1>3. (\A i \in 1 .. x : all[i] = stream[i]) /\ all[x + 1] = new[1]
  <2> DEFINE y == Len(new)
  <2>1. y \in Nat /\ y >= 1 /\ \A i \in 1 .. x + y : all[i] = IF i <= x THEN stream[i] ELSE new[i - x]
    BY <1>1, <1>2 DEF Joined
  <2> HIDE DEF x, y
  <2>2. (\A i \in 1 .. x : i \in 1 .. x + y /\ i <= x) /\ x + 1 \in 1 .. x + y /\ ~(x + 1 <= x)
        /\ (x + 1) - x = 1
    BY <1>1, <2>1
  <2> QED
    BY <2>1, <2>2
<1> HIDE DEF x
<1>4. ASSUME NEW k \in 1 .. n + 1 PROVE Closes(all[at2[k]][2]) <=> k = n + 1 /\ over
  <2>1. CASE k = n + 1
    <3>1. at2[k] = x + 1
      BY <2>1 DEF Extends, x
    <3>2. all[at2[k]] = new[1]
      BY <1>3, <3>1, Zenon
    <3> QED
      BY <2>1, <3>2, Zenon
  <2>2. CASE k # n + 1
    <3>1. k \in 1 .. n
      BY <2>2
    <3>2. at2[k] = at[k] /\ at[k] \in 1 .. x /\ ~Closes(stream[at[k]][2])
      BY <1>1, <3>1 DEF Extends, NoneCloses
    <3>3. all[at2[k]] = stream[at[k]]
      BY <1>3, <3>2
    <3> QED
      BY <2>2, <3>2, <3>3, Zenon
  <2> QED
    BY <2>1, <2>2
<1> QED
  BY <1>4, Zenon DEF OnlyLast, all, over

\* Nothing was said of closing as long as the connection is open.
LEMMA NoneClosesYet ==
    ASSUME TypeInv, SyncInv, FateInv, ~cut, stage = "idle"
    PROVE  NoneCloses(At, Len(asked), wire)
<1>1. Total = wire
  BY TotalIsWire DEF SyncInv
<1>2. InStep(At, wire, asked) /\ OnlyLast(At, Len(asked), wire, Over)
  BY <1>1 DEF SyncInv, FateInv
<1>3. ~Over
  BY DEF Over
<1> QED
  BY <1>2, <1>3, Zenon DEF InStep, OnlyLast, NoneCloses

LEMMA FateExecute ==
    ASSUME HeadsParse, PlainHandlers, TypeInv, TypeInv', SyncInv, FateInv,
           NEW q \in Questions, q.method = <<"HEAD">> => q.parses,
           NEW guarded \in BOOLEAN, Executed(q, guarded)
    PROVE  FateInv'
<1> SUFFICES ASSUME ~cut' PROVE OnlyLast(At', Len(asked'), Total', Over')
  BY Zenon DEF FateInv
<1> DEFINE n == Len(asked)
           new == out'.head \o out'.body
           head == Said(q, guarded)
<1>1. /\ stage = "idle" /\ stage' = "writing" /\ asked' = Append(asked, q)
      /\ keep_alive' = Kept(q, guarded) /\ cut' = cut
  BY DEF Executed
<1>2. ~cut /\ Over' = ~Kept(q, guarded)
  BY <1>1 DEF Over
<1>3. wire \in Seq(Sent) /\ n \in Nat /\ Len(asked') = n + 1
  BY <1>1 DEF TypeInv
<1>4. Extends(At', At, n, Len(wire) + 1) /\ Total' = wire \o new
  BY <1>2, SyncExecute
<1>5. WholeResponse(new, q) /\ new[1] = <<"head", head>>
  BY ExecutedWhole
<1>6. Closes(head) <=> ~Kept(q, guarded)
  BY ExecutedFate
<1>7. NoneCloses(At, n, wire)
  BY <1>1, <1>2, NoneClosesYet
<1> HIDE DEF n, new, head
<1>8. new \in Seq(Sent) /\ new # <<>> /\ new[1][2] = head
  BY <1>5 DEF WholeResponse
<1>9. OnlyLast(At', n + 1, wire \o new, Closes(new[1][2]))
  BY <1>3, <1>4, <1>7, <1>8, FateGrows
<1>10. Closes(new[1][2]) <=> Over'
  BY <1>2, <1>6, <1>8, Zenon
<1> QED
  BY <1>3, <1>4, <1>9, <1>10, Zenon DEF OnlyLast

LEMMA FateReject ==
    ASSUME TypeInv, SyncInv, FateInv, NEW code \in {400, 408}, NEW n \in 0 .. 3, Reject(code, n)
    PROVE  FateInv'
<1> SUFFICES ASSUME ~cut' PROVE OnlyLast(At', Len(asked'), Total', Over')
  BY Zenon DEF FateInv
<1> DEFINE m == Len(asked)
           new == Rejected(code)
           head == Rejection(code).head
<1>1. /\ stage = "idle" /\ stage' = "closed" /\ asked' = Append(asked, [method |-> Get])
  BY Zenon DEF Reject
<1>2. Over'
  BY <1>1 DEF Over
<1>3. wire \in Seq(Sent) /\ m \in Nat /\ Len(asked') = m + 1
  BY <1>1 DEF TypeInv
<1>4. ~cut /\ Extends(At', At, m, Len(wire) + 1) /\ Total' = wire \o new
  <2>1. RejectedWholly(code)
    BY SyncReject
  <2> QED
    BY <2>1, Zenon DEF RejectedWholly
<1>5. /\ WholeResponse(new, [method |-> Get]) /\ new[1] = <<"head", head>>
  BY RejectedWhole
<1>6. Closes(head)
  BY RejectedFate
<1>7. NoneCloses(At, m, wire)
  BY <1>1, <1>4, NoneClosesYet
<1> HIDE DEF m, new, head
<1>8. new \in Seq(Sent) /\ new # <<>> /\ new[1][2] = head
  BY <1>5 DEF WholeResponse
<1>9. OnlyLast(At', m + 1, wire \o new, Closes(new[1][2]))
  BY <1>3, <1>4, <1>7, <1>8, FateGrows
<1>10. Closes(new[1][2]) /\ Over'
  BY <1>2, <1>6, <1>8, Zenon
<1>11. OnlyLast(At', Len(asked'), Total', Closes(new[1][2]))
  BY <1>3, <1>4, <1>9, Zenon
<1> QED
  BY <1>10, <1>11, ZenonT(60) DEF OnlyLast

LEMMA FateStep ==
    ASSUME HeadsParse, PlainHandlers, TypeInv, TypeInv', SyncInv, FateInv, [ExchangeNext]_exchangeVars
    PROVE  FateInv'
<1>1. ASSUME UNCHANGED <<asked, cut>>, Total' = Total, Over' = Over
      PROVE  FateInv'
  <2>1. At' = At
    BY <1>1 DEF At
  <2> QED
    BY <1>1, <2>1 DEF FateInv
<1>2. ASSUME UNCHANGED <<out, wire>> PROVE Total' = Total
  BY <1>2 DEF Total
<1>3. ASSUME NEW r \in Registrations, Register(r) PROVE FateInv'
  BY <1>1, <1>2, <1>3 DEF Register, Over
<1>4. ASSUME NEW single \in BOOLEAN, Listen(single) PROVE FateInv'
  BY <1>1, <1>2, <1>4 DEF Listen, Over
<1>5. ASSUME NEW name \in Replaced, NEW version \in Versions, Deploy(name, version) PROVE FateInv'
  BY <1>1, <1>2, <1>5 DEF Deploy, Over
<1>6. ASSUME NEW q \in Asked, NEW conditional \in BOOLEAN, NEW guarded \in BOOLEAN,
             Request(q, conditional, guarded)
      PROVE  FateInv'
  <2>1. Executed(Asking(q, conditional), guarded)
    BY <1>6, ExecutedIs DEF Request, Asking
  <2>2. /\ Asking(q, conditional) \in Questions
        /\ Asking(q, conditional).method = q.method /\ Asking(q, conditional).parses = q.parses
    BY AskingType
  <2>3. q.method = <<"HEAD">> => q.parses
    BY DEF HeadsParse
  <2> QED
    BY <2>1, <2>2, <2>3, FateExecute
<1>7. ASSUME NEW n \in 1 .. 4, WriteSome(n) PROVE FateInv'
  <2>1. Total' = Total
    BY <1>7, TotalStays
  <2>2. UNCHANGED <<stage, asked, cut, keep_alive>>
    BY <1>7 DEF WriteSome
  <2> QED
    BY <1>1, <2>1, <2>2 DEF Over
<1>8. ASSUME GiveUp PROVE FateInv'
  BY <1>8 DEF GiveUp, FateInv
<1>9. ASSUME Finish PROVE FateInv'
  <2>1. /\ stage = "writing" /\ stage' = IF keep_alive THEN "idle" ELSE "closed"
        /\ UNCHANGED <<out, asked, wire, cut, keep_alive>>
    BY <1>9, Zenon DEF Finish
  <2>2. Over' = Over
    BY <2>1 DEF Over, TypeInv
  <2> QED
    BY <1>1, <1>2, <2>1, <2>2
<1>10. ASSUME NEW code \in {400, 408}, NEW n \in 0 .. 3, Reject(code, n) PROVE FateInv'
  BY <1>10, FateReject
<1>11. CASE UNCHANGED exchangeVars
  BY <1>1, <1>2, <1>11 DEF exchangeVars, Over
<1> QED
  BY <1>3, <1>4, <1>5, <1>6, <1>7, <1>8, <1>9, <1>10, <1>11 DEF ExchangeNext

LEMMA FateReads ==
    ASSUME TypeInv, SyncInv, FateInv
    PROVE  FateAsAnnounced
<1> DEFINE heads   == {p \in DOMAIN wire : wire[p][1] = "head"}
           closing == {p \in heads : Value(wire[p][2], "Connection") = "close"}
           last    == {p \in heads : \A r \in heads : r <= p}
<1> SUFFICES ASSUME ~cut, stage # "writing"
             PROVE  /\ closing = IF stage = "closed" THEN last ELSE {}
                    /\ stage = "closed" => last # {}
  BY Zenon DEF FateAsAnnounced
<1> DEFINE n == Len(asked)
           a == At
<1>1. Total = wire /\ n \in Nat /\ wire \in Seq(Sent) /\ (stage = "closed" => n > 0)
  BY TotalIsWire DEF SyncInv, TypeInv
<1>2. InStep(a, wire, asked)
  BY <1>1 DEF SyncInv
<1>3. /\ \A k \in 1 .. n : a[k] \in heads /\ (k < n => a[k] < a[n])
      /\ \A p \in heads : \E k \in 1 .. n : p = a[k]
  BY <1>2, Zenon DEF InStep
<1>4. \A k \in 1 .. n : Closes(wire[a[k]][2]) <=> k = n /\ stage = "closed"
  <2>1. OnlyLast(a, n, wire, Over)
    BY <1>1 DEF FateInv
  <2>2. Over <=> stage = "closed"
    BY DEF Over
  <2> QED
    BY <2>1, <2>2, Zenon DEF OnlyLast
<1>5. heads \subseteq Nat
  BY <1>1
<1>6. \A p \in heads : p \in closing <=> Closes(wire[p][2])
  BY DEF Closes
<1> HIDE DEF n, a, heads
<1>7. CASE stage = "closed"
  <2>1. n \in 1 .. n /\ a[n] \in heads /\ a[n] \in Nat
    <3>1. n \in 1 .. n
      BY <1>1, <1>7
    <3> QED
      BY <1>3, <1>5, <3>1
  <2>2. \A r \in heads : r <= a[n]
    <3> TAKE r \in heads
    <3>1. PICK k \in 1 .. n : r = a[k]
      BY <1>3
    <3>2. k = n \/ k < n
      BY <1>1
    <3> QED
      BY <1>3, <1>5, <2>1, <3>1, <3>2
  <2>3. a[n] \in last
    BY <2>1, <2>2
  <2>4. ASSUME NEW p \in heads PROVE p \in last <=> p = a[n]
    <3>1. p \in last => p <= a[n] /\ a[n] <= p
      BY <2>1, <2>2
    <3>2. p \in Nat
      BY <1>5
    <3> HIDE DEF last
    <3> QED
      BY <2>1, <2>3, <3>1, <3>2
  <2>5. ASSUME NEW p \in heads PROVE p \in closing <=> p = a[n]
    <3>1. PICK k \in 1 .. n : p = a[k]
      BY <1>3
    <3>2. k = n <=> p = a[n]
      <4>1. CASE k = n
        BY <3>1, <4>1
      <4>2. CASE k # n
        <5>1. a[k] < a[n]
          BY <1>1, <1>3, <4>2
        <5> QED
          BY <2>1, <3>1, <4>2, <5>1
      <4> QED
        BY <4>1, <4>2
    <3>3. p \in closing <=> k = n
      BY <1>4, <1>6, <1>7, <3>1, Zenon
    <3> QED
      BY <3>2, <3>3, Zenon
  <2>6. closing \subseteq heads /\ last \subseteq heads
    OBVIOUS
  <2> HIDE DEF closing, last
  <2>7. closing = last
    BY <2>4, <2>5, <2>6
  <2> QED
    BY <1>7, <2>3, <2>7
<1>8. CASE stage # "closed"
  <2>1. ASSUME NEW p \in closing PROVE FALSE
    <3>1. p \in heads
      OBVIOUS
    <3>2. PICK k \in 1 .. n : p = a[k]
      BY <1>3, <3>1
    <3> HIDE DEF closing
    <3> QED
      BY <1>4, <1>6, <1>8, <3>1, <3>2, Zenon
  <2> HIDE DEF closing
  <2> QED
    BY <1>8, <2>1
<1> QED
  BY <1>7, <1>8

LEMMA FateInductive ==
    ASSUME HeadsParse, PlainHandlers
    PROVE  ExchangeSpec => [](TypeInv /\ SyncInv /\ FateInv)
<1>1. TypeInv /\ TypeInv' /\ SyncInv /\ FateInv /\ [ExchangeNext]_exchangeVars => FateInv'
  BY FateStep
<1>2. ExchangeInit => FateInv
  <2> SUFFICES ASSUME ExchangeInit PROVE FateInv
    OBVIOUS
  <2>1. Len(asked) = 0
    BY DEF ExchangeInit
  <2> QED
    BY <2>1 DEF FateInv, OnlyLast
<1> QED
  BY <1>1, <1>2, SyncInductive, PTL DEF ExchangeSpec

\* What the head announces is what happens: a response that says close is the
\* last on its connection, and the server closes after no other.
THEOREM FateIsAnnounced ==
    ASSUME HeadsParse, PlainHandlers
    PROVE  ExchangeSpec => []FateAsAnnounced
<1>1. TypeInv /\ SyncInv /\ FateInv => FateAsAnnounced
  BY FateReads
<1> QED
  BY <1>1, FateInductive, PTL

-----------------------------------------------------------------------------
(* ConfirmedBySizeAndTime, if the handlers leave conditional requests to    *)
(* the mounts: an ETag or a 304 of a handler's own says nothing of a file   *)

TaglessHandlers ==
    \A handler \in DOMAIN Chains :
        LET done == ExecuteChain(Query, Chains[handler])
        IN  ~done.threw => done.last.head.status # 304 /\ ~Has(done.last.head.headers, "ETag")

\* What is served with 200 is a version of a file, with its tag if any; a 304
\* stands for the version that the same request would get without a condition.
OfVersion(served, mount, files, target, tags) ==
    /\ served.status = 200 =>
          \E v \in Versions : served.body = Content(v) /\ served.etag \in {NoEtag, MakeEtag(v)}
    /\ served.status = 304 =>
          \E v \in Versions : /\ EtagMatches(tags, MakeEtag(v))
                              /\ Serve(mount, files, target, Get, {}).status = 200
                              /\ Serve(mount, files, target, Get, {}).body = Content(v)

LEMMA PathOfVersion ==
    ASSUME NEW files, \A name \in DOMAIN files : files[name] \in Versions \cup Unreadable,
           NEW mount, NEW full, NEW tags
    PROVE  LET served == ServePath(mount, files, full, tags)
               plain  == ServePath(mount, files, full, {})
           IN  /\ served.status = 200 =>
                     \E v \in Versions : served.body = Content(v) /\ served.etag \in {NoEtag, MakeEtag(v)}
               /\ served.status = 304 =>
                     \E v \in Versions : /\ EtagMatches(tags, MakeEtag(v))
                                         /\ plain.status = 200 /\ plain.body = Content(v)
<1> DEFINE name == IF KindAt(files, full) = "missing" /\ mount.spa THEN <<Index>> ELSE full
           kind == KindAt(files, name)
           Of(t) == CASE kind = "missing" -> Error(404)
                      [] kind \in {"dir", "outside"} -> Error(403)
                      [] kind = "large" -> Error(413)
                      [] kind = "unreadable" -> Error(500)
                      [] OTHER -> Regular(mount, kind, t)
           served == ServePath(mount, files, full, tags)
           plain == ServePath(mount, files, full, {})
<1>1. kind \in Versions \cup Unreadable
  BY KindType
<1>2. served = Of(tags) /\ plain = Of({})
  BY Zenon DEF ServePath
<1> HIDE DEF kind, served, plain
<1>3. CASE kind \in Versions
  <2>1. kind \notin {"missing", "dir", "outside", "large", "unreadable"}
    BY <1>3, StaticAssumption DEF Unreadable
  <2>2. \A t : Of(t) = Regular(mount, kind, t)
    BY <2>1
  <2> HIDE DEF Of
  <2>3. served = Regular(mount, kind, tags) /\ plain = Regular(mount, kind, {})
    BY <1>2, <2>2
  <2>4. ~EtagMatches({}, MakeEtag(kind))
    BY DEF EtagMatches
  <2> DEFINE etag == MakeEtag(kind)
             body == Content(kind)
  <2>5. plain.status = 200 /\ plain.body = body
    BY <2>3, <2>4 DEF Regular, Respond
  <2>6. /\ served.status = 200 => served.body = body /\ served.etag \in {NoEtag, etag}
        /\ served.status = 304 => EtagMatches(tags, etag)
    <3> HIDE DEF body, etag
    <3> QED
      BY <2>3 DEF Regular, Respond, body, etag
  <2> QED
    BY <1>3, <2>5, <2>6 DEF served, plain
<1>4. CASE kind \notin Versions
  <2>1. served \in {Error(404), Error(403), Error(413), Error(500)}
    BY <1>1, <1>2, <1>4 DEF Unreadable
  <2>2. served.status # 200 /\ served.status # 304
    BY <2>1 DEF Error, Respond
  <2> QED
    BY <2>2 DEF served
<1> QED
  BY <1>3, <1>4

LEMMA ServedVersion ==
    ASSUME NEW files, \A name \in DOMAIN files : files[name] \in Versions \cup Unreadable,
           NEW mount, NEW target, NEW method, NEW tags
    PROVE  OfVersion(Serve(mount, files, target, method, tags), mount, files, target, tags)
<1> DEFINE path == Decode(target)
           full == Below(mount, files, path)
           up == \E i \in DOMAIN full : full[i] = ".."
           served == Serve(mount, files, target, method, tags)
           plain == Serve(mount, files, target, Get, {})
           under == UnderMount(mount, path)
<1>1. served = IF method \notin {Get, <<"HEAD">>} \/ ~under THEN Declined
               ELSE IF up THEN Error(403) ELSE ServePath(mount, files, full, tags)
  BY Zenon DEF Serve
<1>2. under /\ ~up => plain = ServePath(mount, files, full, {})
  BY DEF Serve
<1> HIDE DEF served, plain, full, up, under
<1>3. CASE served.status \in {200, 304}
  <2>1. Declined.status = 0 /\ Error(403).status = 403
    BY DEF Declined, Error, Respond
  <2>2. under /\ ~up /\ served = ServePath(mount, files, full, tags)
    BY <1>1, <1>3, <2>1
  <2>3. plain = ServePath(mount, files, full, {})
    BY <1>2, <2>2
  <2> QED
    BY <2>2, <2>3, PathOfVersion DEF OfVersion, served, plain
<1>4. CASE served.status \notin {200, 304}
  BY <1>4 DEF OfVersion, served
<1> QED
  BY <1>3, <1>4

\* A mount that answers is the best one, for every method.
LEMMA MountIs ==
    ASSUME NEW t, NEW path, NEW method, Resolve(t, path, method).kind = "mount"
    PROVE  Resolve(t, path, method).who = BestMount(t.mounts, path)
<1> DEFINE who == Resolve(t, path, method)
           named == RouteKey(path, method)
           matched == {i \in DOMAIN t.patterns :
                          /\ t.patterns[i].method = method
                          /\ MatchPattern(t.patterns[i].segments, SplitPath(path))}
           covered == \E i \in DOMAIN t.mounts : Covers(t.mounts[i], path)
           m == Min(matched)
           best == BestMount(t.mounts, path)
<1>1. who = IF named \in DOMAIN t.exact
        THEN [kind |-> "route", who |-> t.exact[named]]
        ELSE IF t.patterns # <<>>
        THEN IF matched = {} THEN Nobody ELSE [kind |-> "route", who |-> t.patterns[m].handler]
        ELSE IF covered THEN [kind |-> "mount", who |-> best]
        ELSE Nobody
  BY Zenon DEF Resolve
<1>2. who.kind = "mount"
  OBVIOUS
<1> HIDE DEF who, named, matched, covered, m, best
<1>3. who.who = best
  BY <1>1, <1>2 DEF Nobody
<1> QED
  BY <1>3 DEF who, best

\* What a head that is sent has of the answer's.
LEMMA SaidTag ==
    ASSUME NEW head \in Heads, NEW keep \in BOOLEAN
    PROVE  /\ Announce(head, keep) \in Heads
           /\ Has(Announce(head, keep).headers, "ETag") => Has(head.headers, "ETag")
           /\ \A tag : <<"ETag", tag>> \in Entries(head.headers) => Value(Announce(head, keep), "ETag") = tag
<1> DEFINE said == Announce(head, keep)
<1>1. /\ said \in Heads
      /\ \A e \in Entries(said.headers) : e \in Entries(head.headers) \/ Mentions(e, "close")
      /\ \A e \in Entries(head.headers) : e \in Entries(said.headers) \/ Mentions(e, "keep-alive")
  BY AnnounceIs
<1> HIDE DEF said
<1>2. /\ SameName("ETag", "ETag")
      /\ \A e, fate : Mentions(e, fate) => ~SameName(e[1], "ETag")
  BY CaseFolds, ProxyFolds DEF SameName, Mentions, FateNames
<1>3. Has(said.headers, "ETag") => Has(head.headers, "ETag")
  <2> SUFFICES ASSUME Has(said.headers, "ETag") PROVE Has(head.headers, "ETag")
    OBVIOUS
  <2>1. PICK e \in Entries(said.headers) : SameName(e[1], "ETag")
    BY HasEntry
  <2>2. e \in Entries(head.headers)
    BY <1>1, <1>2, <2>1
  <2> QED
    BY <2>1, <2>2, HasEntry
<1>4. ASSUME NEW tag, <<"ETag", tag>> \in Entries(head.headers)
      PROVE  Value(said, "ETag") = tag
  <2> DEFINE e == <<"ETag", tag>>
  <2>1. ~Mentions(e, "keep-alive") /\ SameName(e[1], "ETag") /\ e[2] = tag
    BY <1>2
  <2>2. e \in Entries(said.headers)
    BY <1>1, <1>4, <2>1
  <2>3. OneEach(said.headers)
    BY <1>1 DEF Heads, Headers
  <2> HIDE DEF e
  <2> QED
    BY <2>1, <2>2, <2>3, ValueIs
<1> QED
  BY <1>1, <1>3, <1>4 DEF said

\* A response to a GET that a client keeps: its tag is that of the version it
\* has, and a mount answers GETs of this path.
FetchedBy(routes, q, head, body) ==
    q.method = Get /\ head.status = 200 /\ Has(head.headers, "ETag") =>
        /\ Resolve(routes, PathOf(q.target), Get).kind = "mount"
        /\ \E v \in Versions : body = Content(v) /\ Value(head, "ETag") = MakeEtag(v)

BytesOf(stream) == [i \in DOMAIN stream |-> stream[i][2]]

CopyInv ==
    /\ stage = "setup" => DOMAIN copies = {}
    /\ \A target \in DOMAIN copies :
           /\ Resolve(table, PathOf(target), Get).kind = "mount"
           /\ \E v \in Versions : copies[target] = [body |-> Content(v), etag |-> MakeEtag(v)]
    /\ ~cut /\ stage = "writing" =>
           FetchedBy(table, Last(asked), Total[At[Len(asked)]][2],
                     BytesOf(SubSeq(Total, At[Len(asked)] + 2, Len(Total))))

LEMMA HandlerTagless ==
    ASSUME TaglessHandlers, NEW handler \in DOMAIN Chains,
           NEW done, done = ExecuteChain(Query, Chains[handler]), ~done.threw
    PROVE  done.last.head.status # 304 /\ ~Has(done.last.head.headers, "ETag")
BY Zenon DEF TaglessHandlers

\* What a mount serves now.
LEMMA ServedNow ==
    ASSUME TypeInv, NEW mount, NEW target, NEW method, NEW tags
    PROVE  /\ OfVersion(Serve(mount, disk, target, method, tags), mount, disk, target, tags)
           /\ Serve(mount, disk, target, method, tags) \in Serves \cup {Declined}
<1>1. \A name \in DOMAIN disk : disk[name] \in Versions \cup Unreadable
  BY DEF TypeInv, DiskOk
<1> QED
  BY <1>1, ServedVersion, ServeType

LEMMA ExecutedFetches ==
    ASSUME TaglessHandlers, TypeInv, NEW q \in Questions, NEW guarded \in BOOLEAN
    PROVE  FetchedBy(table, q, Said(q, guarded), Response(q, guarded).body)
<1> DEFINE who    == Resolve(table, PathOf(q.target), q.method)
           mount  == table.mounts[who.who]
           done   == ExecuteChain(Query, Chains[who.who])
           served == Serve(mount, disk, PathOf(q.target), q.method, q.tags)
           answer == Answer(q, guarded)
           said   == Said(q, guarded)
           body   == Response(q, guarded).body
<1> SUFFICES ASSUME q.method = Get, said.status = 200, Has(said.headers, "ETag")
             PROVE  /\ who.kind = "mount"
                    /\ \E v \in Versions : body = Content(v) /\ Value(said, "ETag") = MakeEtag(v)
  BY Zenon DEF FetchedBy
<1>1. q.parses \in BOOLEAN
  BY DEF Questions
<1>2. answer \in Answers /\ answer.head \in Heads
  <2>1. answer \in Answers
    BY <1>1, AnswerType
  <2> HIDE DEF answer
  <2> QED
    BY <2>1 DEF Answers, Responses
<1>3. Response(q, guarded).head = answer.head /\ Kept(q, guarded) \in BOOLEAN
  BY <1>1, ResponseType
<1>4. said = Announce(answer.head, Kept(q, guarded))
  BY <1>3, Zenon DEF Said
<1>5. /\ said.status = answer.head.status
      /\ Has(said.headers, "ETag") => Has(answer.head.headers, "ETag")
      /\ \A tag : <<"ETag", tag>> \in Entries(answer.head.headers) => Value(said, "ETag") = tag
  <2>1. /\ Has(Announce(answer.head, Kept(q, guarded)).headers, "ETag") => Has(answer.head.headers, "ETag")
        /\ \A tag : <<"ETag", tag>> \in Entries(answer.head.headers) =>
                        Value(Announce(answer.head, Kept(q, guarded)), "ETag") = tag
    BY <1>2, <1>3, SaidTag
  <2>2. Announce(answer.head, Kept(q, guarded)).status = answer.head.status
    BY <1>2, <1>3, SaidIsSent
  <2> QED
    BY <1>4, <2>1, <2>2, Zenon
<1>6. body = answer.body
  <2>1. Get # <<"HEAD">>
    BY DEF Get
  <2> QED
    BY <2>1, Zenon DEF Response, WithoutBody
<1>7. \/ \E parsed \in BOOLEAN : answer = Fallback(parsed)
      \/ answer = GuardRoute
      \/ who.kind = "mount" /\ served \in Serves /\ answer = OfFile(served)
      \/ who.who \in DOMAIN Chains /\ ~done.threw /\ answer = done.last
  <2>1. AnswerCases(q, answer)
    BY <1>1, AnswerIs
  <2> QED
    BY <2>1, Zenon DEF AnswerCases
<1> HIDE DEF who, mount, answer, said, body
<1>8. who.who \in DOMAIN Chains /\ ~done.threw => ~Has(done.last.head.headers, "ETag")
  BY HandlerTagless
<1>9. OfVersion(served, mount, disk, PathOf(q.target), q.tags)
  BY ServedNow
<1> HIDE DEF done, served
<1>10. \A parsed \in BOOLEAN : ~Has(Fallback(parsed).head.headers, "ETag")
  BY FallbackType DEF Tagless
<1>11. ~Has(GuardRoute.head.headers, "ETag")
  BY GuardType DEF Tagless
<1>12. who.kind = "mount" /\ served \in Serves /\ answer = OfFile(served)
  BY <1>5, <1>7, <1>8, <1>10, <1>11, Zenon
<1>13. Filed(answer, served)
  BY <1>12, OfFileType
<1>14. served.status = 200 /\ body = served.body /\ served.etag # NoEtag /\ Value(said, "ETag") = served.etag
  BY <1>5, <1>6, <1>13 DEF Filed
<1>15. PICK v \in Versions : served.body = Content(v) /\ served.etag \in {NoEtag, MakeEtag(v)}
  BY <1>9, <1>14 DEF OfVersion
<1> QED
  BY <1>12, <1>14, <1>15

\* These are versions of one size and one second.
OneSecond(copy, current) ==
    \E v, w \in Versions : /\ copy = Content(v) /\ current = Content(w)
                           /\ SizeOf[v] = SizeOf[w] /\ MTimeOf[v] = MTimeOf[w]

\* A 304 confirms the copy whose tag was sent.
LEMMA Confirmed ==
    ASSUME TaglessHandlers, TypeInv, CopyInv, NEW q \in Asked, NEW conditional \in BOOLEAN,
           NEW guarded \in BOOLEAN, conditional => q.target \in DOMAIN copies,
           Response(Asking(q, conditional), guarded).head.status = 304
    PROVE  OneSecond(CopyOf(q.target).body, CurrentBody(Asking(q, conditional)))
<1> DEFINE r      == Asking(q, conditional)
           u      == [r EXCEPT !.method = Get, !.tags = {}]
           path   == PathOf(q.target)
           who    == Resolve(table, path, r.method)
           mount  == table.mounts[who.who]
           done   == ExecuteChain(Query, Chains[who.who])
           served == Serve(mount, disk, path, r.method, r.tags)
           plain  == Serve(mount, disk, path, Get, {})
           answer == Answer(r, guarded)
           copy   == CopyOf(q.target)
<1>1. /\ r \in Questions /\ r.target = q.target
      /\ r.tags = IF conditional THEN {copy.etag} ELSE {}
  BY AskingType
<1> HIDE DEF r
<1>2. r.parses \in BOOLEAN
  BY <1>1 DEF Questions
<1>3. answer.head.status = 304
  <2>1. Response(r, guarded).head.status = 304
    BY DEF r
  <2>2. Response(r, guarded).head = answer.head
    BY <1>2, ResponseType
  <2> QED
    BY <2>1, <2>2
<1>4. \/ \E parsed \in BOOLEAN : answer = Fallback(parsed)
      \/ answer = GuardRoute
      \/ r.parses /\ who.kind = "mount" /\ served \in Serves /\ answer = OfFile(served)
      \/ who.who \in DOMAIN Chains /\ ~done.threw /\ answer = done.last
  <2>1. AnswerCases(r, answer)
    BY <1>2, AnswerIs
  <2> QED
    BY <1>1, <2>1, Zenon DEF AnswerCases
<1>5. who.kind = "mount" => who.who = BestMount(table.mounts, path)
  BY MountIs
<1> HIDE DEF who, mount, path, answer
<1>6. who.who \in DOMAIN Chains /\ ~done.threw => done.last.head.status # 304
  BY HandlerTagless
<1>7. OfVersion(served, mount, disk, path, r.tags)
  BY ServedNow
<1>8. plain \in Serves \cup {Declined}
  BY ServedNow
<1> HIDE DEF done, served
<1>9. \A parsed \in BOOLEAN : Fallback(parsed).head.status # 304
  <2> TAKE parsed \in BOOLEAN
  <2>1. Tagless(Fallback(parsed), IF parsed THEN 404 ELSE 400)
    BY FallbackType
  <2> QED
    BY <2>1 DEF Tagless
<1>10. GuardRoute.head.status # 304
  BY GuardType DEF Tagless
<1>11. r.parses /\ who.kind = "mount" /\ served \in Serves /\ answer = OfFile(served)
  <2>1. ASSUME NEW parsed \in BOOLEAN PROVE answer # Fallback(parsed)
    BY <1>3, <1>9
  <2>2. answer # GuardRoute
    BY <1>3, <1>10, Zenon
  <2>3. ~(who.who \in DOMAIN Chains /\ ~done.threw /\ answer = done.last)
    BY <1>3, <1>6, Zenon
  <2> QED
    BY <1>4, <2>1, <2>2, <2>3, Zenon
<1>12. served.status = 304
  <2>1. Filed(answer, served)
    BY <1>11, OfFileType
  <2> QED
    BY <1>3, <2>1 DEF Filed
<1>13. PICK v \in Versions : /\ EtagMatches(r.tags, MakeEtag(v))
                             /\ plain.status = 200 /\ plain.body = Content(v)
  BY <1>7, <1>12 DEF OfVersion
<1>14. conditional /\ q.target \in DOMAIN copies
  BY <1>1, <1>13 DEF EtagMatches
<1>15. PICK w \in Versions : copies[q.target] = [body |-> Content(w), etag |-> MakeEtag(w)]
  BY <1>14 DEF CopyInv
<1>16. copy.body = Content(w) /\ copy.etag = MakeEtag(w)
  BY <1>14, <1>15 DEF CopyOf
<1>17. SizeOf[w] = SizeOf[v] /\ MTimeOf[w] = MTimeOf[v]
  <2>1. MakeEtag(w) # AnyTag
    BY DEF MakeEtag, AnyTag
  <2>2. MakeEtag(w) = MakeEtag(v)
    BY <1>1, <1>13, <1>14, <1>16, <2>1 DEF EtagMatches
  <2> QED
    BY <2>2 DEF MakeEtag
<1>18. Resolve(table, path, Get).kind = "mount"
  BY <1>14 DEF CopyInv, path
<1>19. Resolve(table, path, Get).who = who.who
  <2>1. Resolve(table, path, Get).who = BestMount(table.mounts, path)
    BY <1>18, MountIs
  <2> QED
    BY <1>5, <1>11, <2>1
<1>20. /\ u.parses /\ u.method = Get /\ u.tags = {} /\ PathOf(u.target) = path
  BY <1>1, <1>11 DEF Questions, path
<1>21. Answer(u, FALSE) = OfFile(plain)
  <2> DEFINE at  == Resolve(table, PathOf(u.target), u.method)
             got == Serve(table.mounts[at.who], disk, PathOf(u.target), u.method, u.tags)
  <2>1. at.kind = "mount" /\ at.who = who.who
    BY <1>18, <1>19, <1>20
  <2>2. got = plain
    BY <1>20, <2>1 DEF mount
  <2>3. plain # Declined
    BY <1>13 DEF Declined
  <2>4. at.kind # "nobody"
    BY <2>1
  <2> HIDE DEF plain, u
  <2>5. Answer(u, FALSE) = OfFile(got)
    BY <1>20, <2>1, <2>2, <2>3, <2>4, Zenon DEF Answer
  <2> QED
    BY <2>2, <2>5
<1>22. OfFile(plain).body = Content(v)
  <2>1. plain # Declined
    BY <1>13 DEF Declined
  <2>2. Filed(OfFile(plain), plain)
    BY <1>8, <2>1, OfFileType
  <2> QED
    BY <1>13, <2>2 DEF Filed
<1>23. CurrentBody(r) = Answer(u, FALSE).body
  BY Zenon DEF CurrentBody
<1>24. copy.body = Content(w) /\ CurrentBody(r) = Content(v)
  BY <1>16, <1>21, <1>22, <1>23
<1> HIDE DEF copy
<1>25. OneSecond(copy.body, CurrentBody(r))
  BY <1>17, <1>24 DEF OneSecond
<1> QED
  BY <1>25 DEF copy, r

\* The bytes of a body, and where it is in what was written before it.
LEMMA BytesOfBody ==
    ASSUME NEW body \in Seq(Bytes)
    PROVE  BytesOf(BodyLexemes(body)) = body
<1> DEFINE b == BodyLexemes(body)
           n == Len(body)
<1>1. DOMAIN b = 1 .. n /\ \A i \in 1 .. n : b[i] = <<"byte", body[i]>>
  BY BodyLexemesType
<1>2. body = [i \in 1 .. n |-> body[i]]
  OBVIOUS
<1> HIDE DEF b, n
<1>3. [i \in DOMAIN b |-> b[i][2]] = [i \in 1 .. n |-> body[i]]
  BY <1>1
<1> QED
  BY <1>2, <1>3, Zenon DEF BytesOf, b

LEMMA BodyBehind ==
    ASSUME NEW stream \in Seq(Sent), NEW h \in Seq(Sent), Len(h) = 2, NEW b \in Seq(Sent)
    PROVE  LET all == stream \o (h \o b)
           IN  /\ SubSeq(all, Len(stream) + 1 + 2, Len(all)) = b
               /\ all[Len(stream) + 1] = h[1]
<1> DEFINE new == h \o b
           all == stream \o new
           x == Len(stream)
           y == Len(b)
           rest == SubSeq(all, x + 2 + 1, Len(all))
<1>1. new \in Seq(Sent) /\ Joined(new, h, b)
  BY JoinedIs
<1> HIDE DEF new
<1>2. all \in Seq(Sent) /\ Joined(all, stream, new) /\ x \in Nat /\ y \in Nat
  BY <1>1, JoinedIs
<1> HIDE DEF all
<1>3. /\ Len(new) = 2 + y
      /\ \A i \in 1 .. 2 + y : new[i] = IF i <= 2 THEN h[i] ELSE b[i - 2]
  BY <1>1 DEF Joined
<1>4. /\ Len(all) = x + (2 + y)
      /\ \A i \in 1 .. x + (2 + y) : all[i] = IF i <= x THEN stream[i] ELSE new[i - x]
  BY <1>2, <1>3 DEF Joined
<1> HIDE DEF x, y
<1>5. all[x + 1] = h[1]
  <2>1. x + 1 \in 1 .. x + (2 + y) /\ ~(x + 1 <= x) /\ (x + 1) - x = 1 /\ 1 \in 1 .. 2 + y
    BY <1>2
  <2> QED
    BY <1>3, <1>4, <2>1
<1>6. /\ rest \in Seq(Sent) /\ Len(rest) = y
      /\ \A i \in 1 .. y : rest[i] = all[x + 2 + i]
  <2> DEFINE k == x + 2
             z == Len(all)
  <2>1. k \in Nat /\ z \in Nat /\ k <= z /\ z - k = y /\ z <= Len(all)
    BY <1>2, <1>4
  <2>2. rest = SubSeq(all, k + 1, z)
    OBVIOUS
  <2> HIDE DEF rest, k, z
  <2>3. /\ rest \in Seq(Sent) /\ Len(rest) = z - k
        /\ \A i \in 1 .. z - k : rest[i] = all[k + i]
    BY <1>2, <2>1, <2>2, Stretch
  <2> QED
    BY <2>1, <2>3 DEF k
<1> HIDE DEF rest
<1>7. ASSUME NEW i \in 1 .. y PROVE rest[i] = b[i]
  <2>1. /\ x + 2 + i \in 1 .. x + (2 + y) /\ ~(x + 2 + i <= x) /\ (x + 2 + i) - x = 2 + i
        /\ 2 + i \in 1 .. 2 + y /\ ~(2 + i <= 2) /\ (2 + i) - 2 = i
    BY <1>2
  <2>2. all[x + 2 + i] = new[2 + i] /\ new[2 + i] = b[i]
    BY <1>3, <1>4, <2>1
  <2> QED
    BY <1>6, <2>2
<1>8. rest = b
  BY <1>6, <1>7, SeqEqual DEF y
<1>9. x + 2 + 1 = x + 1 + 2
  BY <1>2
<1> QED
  BY <1>5, <1>8, <1>9 DEF all, new, rest, x

LEMMA CopyExecute ==
    ASSUME HeadsParse, TaglessHandlers, TypeInv, TypeInv', SyncInv, CopyInv,
           NEW q \in Questions, q.method = <<"HEAD">> => q.parses,
           NEW guarded \in BOOLEAN, Executed(q, guarded)
    PROVE  CopyInv'
<1> DEFINE said == Said(q, guarded)
           body == Response(q, guarded).body
           h == HeadLexemes(said)
           b == BodyLexemes(body)
           n == Len(asked)
           x == Len(wire)
<1>1. /\ stage' = "writing" /\ asked' = Append(asked, q) /\ out' = [head |-> h, body |-> b]
      /\ UNCHANGED <<table, copies, cut>>
  BY DEF Executed
<1>2. q.parses \in BOOLEAN
  BY DEF Questions
<1>3. said \in SentHeads /\ body \in Seq(Bytes)
  BY <1>2, ResponseType
<1>4. FetchedBy(table, q, said, body)
  BY ExecutedFetches
<1>5. ~cut => At'[n + 1] = x + 1 /\ Total' = wire \o (h \o b)
  <2>1. ~cut => /\ Extends(At', At, Len(asked), Len(wire) + 1)
                /\ Total' = wire \o (out'.head \o out'.body)
    BY SyncExecute
  <2>2. out'.head = h /\ out'.body = b
    BY <1>1
  <2> HIDE DEF h, b
  <2> QED
    BY <2>1, <2>2, Zenon DEF Extends
<1> HIDE DEF said, body
<1>6. h \in Seq(Sent) /\ Len(h) = 2 /\ h[1] = <<"head", said>>
  BY <1>3, HeadLexemesType
<1>7. b \in Seq(Sent) /\ BytesOf(b) = body
  BY <1>3, BodyLexemesType, BytesOfBody
<1> HIDE DEF h, b
<1>8. asked \in Seq(Requested) /\ q \in Requested /\ wire \in Seq(Sent)
  BY DEF TypeInv, Requested
<1>9. Len(asked') = n + 1 /\ Last(asked') = q
  BY <1>1, <1>8 DEF Last
<1>10. ASSUME ~cut
       PROVE  /\ Total'[At'[Len(asked')]][2] = said
              /\ BytesOf(SubSeq(Total', At'[Len(asked')] + 2, Len(Total'))) = body
  <2> DEFINE all == wire \o (h \o b)
  <2>1. SubSeq(all, x + 1 + 2, Len(all)) = b /\ all[x + 1] = h[1]
    BY <1>6, <1>7, <1>8, BodyBehind
  <2>2. Total' = all /\ At'[Len(asked')] = x + 1
    BY <1>5, <1>9, <1>10
  <2> HIDE DEF all, x
  <2>3. Total'[x + 1][2] = said
    BY <1>6, <2>1, <2>2
  <2> QED
    BY <1>7, <2>1, <2>2, <2>3, Zenon
<1>11. /\ stage' # "setup"
       /\ \A target \in DOMAIN copies' :
             /\ Resolve(table', PathOf(target), Get).kind = "mount"
             /\ \E v \in Versions : copies'[target] = [body |-> Content(v), etag |-> MakeEtag(v)]
  BY <1>1 DEF CopyInv
<1>12. ASSUME ~cut'
       PROVE  FetchedBy(table', Last(asked'), Total'[At'[Len(asked')]][2],
                        BytesOf(SubSeq(Total', At'[Len(asked')] + 2, Len(Total'))))
  <2>1. ~cut /\ table' = table
    BY <1>1, <1>12
  <2> QED
    BY <1>4, <1>9, <1>10, <2>1, Zenon
<1> QED
  BY <1>11, <1>12, Zenon DEF CopyInv, BytesOf

\* What the client keeps when it has a response.
Written == SubSeq(Total, At[Len(asked)] + 2, Len(Total))

Keeps(head) ==
    /\ ~cut /\ Last(asked).method = Get /\ head.status = 200 /\ Has(head.headers, "ETag")
    /\ copies' = Put(copies, Last(asked).target,
                     [body |-> BytesOf(Written), etag |-> Value(head, "ETag")])

LEMMA FinishIs ==
    ASSUME TypeInv, SyncInv, Finish
    PROVE  copies' = copies \/ Keeps(Total[At[Len(asked)]][2])
<1> DEFINE n     == Len(asked)
           begin == Starts(wire, asked)
           head  == wire[begin[n]][2]
           body  == SubSeq(wire, begin[n] + 2, begin[n + 1] - 1)
<1>1. /\ out = Nothing /\ stage = "writing"
      /\ \/ copies' = copies
         \/ /\ ~cut /\ Last(asked).method = Get /\ head.status = 200 /\ Has(head.headers, "ETag")
            /\ copies' = Put(copies, Last(asked).target,
                             [body |-> BytesOf(body), etag |-> Value(head, "ETag")])
  BY Zenon DEF Finish, BytesOf
<1>2. Total = wire /\ At = begin
  <2>1. Total = wire
    BY <1>1, TotalIsWire
  <2> QED
    BY <2>1, Zenon DEF At
<1>3. ~cut => begin[n + 1] - 1 = Len(wire)
  <2> SUFFICES ASSUME ~cut PROVE begin[n + 1] - 1 = Len(wire)
    OBVIOUS
  <2>1. begin[n + 1] = Len(wire) + 1
    BY <1>2, Zenon DEF SyncInv, InStep
  <2>2. Len(wire) \in Nat
    BY DEF TypeInv
  <2> HIDE DEF begin
  <2> QED
    BY <2>1, <2>2
<1>4. ~cut => body = Written
  BY <1>2, <1>3, Zenon DEF Written
<1> HIDE DEF begin, body
<1> QED
  BY <1>1, <1>2, <1>4, Zenon DEF Keeps

LEMMA CopyFinish ==
    ASSUME TypeInv, SyncInv, CopyInv, Finish
    PROVE  CopyInv'
<1> DEFINE q    == Last(asked)
           head == Total[At[Len(asked)]][2]
           copy == [body |-> BytesOf(Written), etag |-> Value(head, "ETag")]
           Current(t) == \E v \in Versions : t = [body |-> Content(v), etag |-> MakeEtag(v)]
<1>1. /\ stage = "writing" /\ stage' \in {"idle", "closed"} /\ table' = table
  BY Zenon DEF Finish
<1>2. CASE copies' = copies
  BY <1>1, <1>2 DEF CopyInv
<1>3. CASE Keeps(head)
  <2>1. FetchedBy(table, q, head, BytesOf(Written))
    BY <1>1, <1>3, Zenon DEF CopyInv, Keeps, Written
  <2>2. /\ Resolve(table, PathOf(q.target), Get).kind = "mount"
        /\ \E v \in Versions : BytesOf(Written) = Content(v) /\ Value(head, "ETag") = MakeEtag(v)
    BY <1>3, <2>1, Zenon DEF FetchedBy, Keeps
  <2>3. Current(copy)
    BY <2>2
  <2> HIDE DEF copy
  <2>4. copies' = Put(copies, q.target, copy)
    BY <1>3, Zenon DEF Keeps, copy
  <2>5. DOMAIN copies' = DOMAIN copies \cup {q.target}
    BY <2>4 DEF Put
  <2>6. \A t \in DOMAIN copies' : copies'[t] = IF t = q.target THEN copy ELSE copies[t]
    BY <2>4 DEF Put
  <2>7. \A t \in DOMAIN copies :
           Resolve(table, PathOf(t), Get).kind = "mount" /\ Current(copies[t])
    BY DEF CopyInv
  <2> HIDE DEF q
  <2>8. ASSUME NEW t \in DOMAIN copies'
        PROVE  Resolve(table', PathOf(t), Get).kind = "mount" /\ Current(copies'[t])
    <3>1. CASE t = q.target
      <4>1. copies'[t] = copy
        BY <2>6, <3>1
      <4> QED
        BY <1>1, <2>2, <2>3, <3>1, <4>1
    <3>2. CASE t # q.target
      <4>1. t \in DOMAIN copies /\ copies'[t] = copies[t]
        BY <2>5, <2>6, <3>2
      <4> QED
        BY <1>1, <2>7, <4>1
    <3> QED
      BY <3>1, <3>2
  <2>9. stage' # "setup" /\ stage' # "writing"
    BY <1>1
  <2> QED
    BY <2>8, <2>9, Zenon DEF CopyInv
<1> QED
  BY <1>2, <1>3, FinishIs

LEMMA CopyStep ==
    ASSUME HeadsParse, TaglessHandlers, TypeInv, TypeInv', SyncInv, CopyInv,
           [ExchangeNext]_exchangeVars
    PROVE  CopyInv'
<1>1. ASSUME UNCHANGED <<table, copies>>, stage' = "setup" => stage = "setup",
             cut' \/ stage' # "writing" \/ (UNCHANGED <<stage, asked, cut>> /\ Total' = Total)
      PROVE  CopyInv'
  <2>1. /\ stage' = "setup" => DOMAIN copies' = {}
        /\ \A target \in DOMAIN copies' :
              /\ Resolve(table', PathOf(target), Get).kind = "mount"
              /\ \E v \in Versions : copies'[target] = [body |-> Content(v), etag |-> MakeEtag(v)]
    BY <1>1 DEF CopyInv
  <2>2. ASSUME ~cut', stage' = "writing"
        PROVE  FetchedBy(table', Last(asked'), Total'[At'[Len(asked')]][2],
                         BytesOf(SubSeq(Total', At'[Len(asked')] + 2, Len(Total'))))
    <3>1. UNCHANGED <<stage, asked, cut>> /\ Total' = Total
      BY <1>1, <2>2
    <3>2. At' = At
      BY <3>1 DEF At
    <3>3. FetchedBy(table, Last(asked), Total[At[Len(asked)]][2],
                    BytesOf(SubSeq(Total, At[Len(asked)] + 2, Len(Total))))
      BY <2>2, <3>1 DEF CopyInv
    <3> QED
      BY <1>1, <3>1, <3>2, <3>3, Zenon
  <2> QED
    BY <2>1, <2>2, Zenon DEF CopyInv, BytesOf
<1>2. ASSUME UNCHANGED <<out, wire>> PROVE Total' = Total
  BY <1>2 DEF Total
<1>3. ASSUME NEW r \in Registrations, Register(r) PROVE CopyInv'
  BY <1>3 DEF Register, CopyInv
<1>4. ASSUME NEW single \in BOOLEAN, Listen(single) PROVE CopyInv'
  BY <1>1, <1>4 DEF Listen
<1>5. ASSUME NEW name \in Replaced, NEW version \in Versions, Deploy(name, version) PROVE CopyInv'
  BY <1>1, <1>2, <1>5 DEF Deploy
<1>6. ASSUME NEW q \in Asked, NEW conditional \in BOOLEAN, NEW guarded \in BOOLEAN,
             Request(q, conditional, guarded)
      PROVE  CopyInv'
  <2>1. Executed(Asking(q, conditional), guarded)
    BY <1>6, ExecutedIs DEF Request, Asking
  <2>2. /\ Asking(q, conditional) \in Questions
        /\ Asking(q, conditional).method = q.method /\ Asking(q, conditional).parses = q.parses
    BY AskingType
  <2>3. q.method = <<"HEAD">> => q.parses
    BY DEF HeadsParse
  <2> QED
    BY <2>1, <2>2, <2>3, CopyExecute
<1>7. ASSUME NEW n \in 1 .. 4, WriteSome(n) PROVE CopyInv'
  <2>1. Total' = Total
    BY <1>7, TotalStays
  <2> QED
    BY <1>1, <1>7, <2>1 DEF WriteSome
<1>8. ASSUME GiveUp PROVE CopyInv'
  BY <1>1, <1>8 DEF GiveUp
<1>9. ASSUME Finish PROVE CopyInv'
  BY <1>9, CopyFinish
<1>10. ASSUME NEW code \in {400, 408}, NEW n \in 0 .. 3, Reject(code, n) PROVE CopyInv'
  <2>1. stage' = "closed" /\ UNCHANGED <<table, copies>>
    BY <1>10, Zenon DEF Reject
  <2> QED
    BY <1>1, <2>1
<1>11. CASE UNCHANGED exchangeVars
  BY <1>1, <1>2, <1>11 DEF exchangeVars
<1> QED
  BY <1>3, <1>4, <1>5, <1>6, <1>7, <1>8, <1>9, <1>10, <1>11 DEF ExchangeNext

LEMMA ConfirmedStep ==
    ASSUME TaglessHandlers, TypeInv, CopyInv, ConfirmedBySizeAndTime, [ExchangeNext]_exchangeVars
    PROVE  ConfirmedBySizeAndTime'
<1>1. ASSUME confirmed' = confirmed PROVE ConfirmedBySizeAndTime'
  BY <1>1 DEF ConfirmedBySizeAndTime
<1>2. ASSUME NEW q \in Asked, NEW conditional \in BOOLEAN, NEW guarded \in BOOLEAN,
             Request(q, conditional, guarded)
      PROVE  ConfirmedBySizeAndTime'
  <2> DEFINE r == Asking(q, conditional)
  <2>1. Executed(r, guarded) /\ (conditional => q.target \in DOMAIN copies)
    BY <1>2, ExecutedIs DEF Request, Asking
  <2>2. r.target = q.target
    BY AskingType
  <2>3. CASE Response(r, guarded).head.status # 304
    BY <1>1, <2>1, <2>3 DEF Executed
  <2>4. CASE Response(r, guarded).head.status = 304
    <3>1. OneSecond(CopyOf(q.target).body, CurrentBody(r))
      BY <2>1, <2>4, Confirmed
    <3>2. confirmed' = [copy |-> CopyOf(r.target).body, current |-> CurrentBody(r)]
      BY <2>1, <2>4 DEF Executed
    <3> HIDE DEF r
    <3>3. confirmed'.copy = CopyOf(q.target).body /\ confirmed'.current = CurrentBody(r)
      BY <2>2, <3>2
    <3> QED
      BY <3>1, <3>3, Zenon DEF ConfirmedBySizeAndTime, OneSecond
  <2> QED
    BY <2>3, <2>4
<1>3. ASSUME Finish PROVE confirmed' = confirmed
  BY <1>3, Zenon DEF Finish
<1>4. ASSUME NEW code \in {400, 408}, NEW n \in 0 .. 3, Reject(code, n)
      PROVE  confirmed' = confirmed
  BY <1>4, Zenon DEF Reject
<1>5. CASE UNCHANGED exchangeVars
  BY <1>1, <1>5 DEF exchangeVars
<1> QED
  BY <1>1, <1>2, <1>3, <1>4, <1>5, ZenonT(60)
     DEF ExchangeNext, Register, Listen, Deploy, WriteSome, GiveUp

\* A 304 confirms a copy that is what a GET would get now, or one whose file only
\* another of the same size and modification second has taken the place of,
\* though the URL may have stood for another file when the copy was made.
THEOREM CopiesAreConfirmed ==
    ASSUME HeadsParse, TaglessHandlers
    PROVE  ExchangeSpec => []ConfirmedBySizeAndTime
<1>1. ExchangeInit => CopyInv /\ ConfirmedBySizeAndTime
  BY DEF ExchangeInit, CopyInv, ConfirmedBySizeAndTime
<1>2. TypeInv /\ TypeInv' /\ SyncInv /\ CopyInv /\ [ExchangeNext]_exchangeVars => CopyInv'
  BY CopyStep
<1>3. TypeInv /\ CopyInv /\ ConfirmedBySizeAndTime /\ [ExchangeNext]_exchangeVars
         => ConfirmedBySizeAndTime'
  BY ConfirmedStep
<1> QED
  BY <1>1, <1>2, <1>3, SyncInductive, PTL DEF ExchangeSpec

-----------------------------------------------------------------------------
(* TheRightOneAnswers.  The table has for every key the literal route that  *)
(* was registered last, a key is of one path and method only, and every     *)
(* pattern is one that was registered.                                     *)

IsLiteral(r) == r.kind = "route" /\ ~IsPatternRoute(r.path)
KeyOf(r) == RouteKey(r.path, r.method)

LastOf(named, rows, i) ==
    /\ i \in DOMAIN rows /\ IsLiteral(rows[i]) /\ KeyOf(rows[i]) = named
    /\ \A j \in DOMAIN rows : IsLiteral(rows[j]) /\ KeyOf(rows[j]) = named => j <= i

Registered(exact, rows) ==
    /\ \A i \in DOMAIN rows : IsLiteral(rows[i]) => KeyOf(rows[i]) \in DOMAIN exact
    /\ \A named \in DOMAIN exact : \E i \in DOMAIN rows :
           LastOf(named, rows, i) /\ rows[i].handler = exact[named]

IsPattern(p, r) ==
    /\ r.kind = "route" /\ p.method = r.method /\ p.handler = r.handler
    /\ p.segments = SplitPath(r.path)

FromRoutes(patterns, rows) ==
    \A i \in DOMAIN patterns : \E j \in DOMAIN rows : IsPattern(patterns[i], rows[j])

TableInv == Registered(table.exact, log) /\ FromRoutes(table.patterns, log)

\* The registrations with one more.
OneMore(more, rows, r) ==
    /\ DOMAIN rows = 1 .. Len(rows) /\ DOMAIN more = 1 .. Len(rows) + 1
    /\ more[Len(rows) + 1] = r /\ \A i \in 1 .. Len(rows) : more[i] = rows[i]

LEMMA AppendIsMore ==
    ASSUME NEW S, NEW rows \in Seq(S), NEW r
    PROVE  OneMore(Append(rows, r), rows, r) /\ Len(rows) \in Nat
BY DEF OneMore

LEMMA OthersRegistered ==
    ASSUME NEW exact, NEW rows, NEW more, NEW r, Len(rows) \in Nat, OneMore(more, rows, r),
           Registered(exact, rows), ~IsLiteral(r)
    PROVE  Registered(exact, more)
<1> DEFINE n == Len(rows)
<1>1. /\ DOMAIN rows = 1 .. n /\ DOMAIN more = 1 .. n + 1 /\ n \in Nat
      /\ more[n + 1] = r /\ \A i \in 1 .. n : more[i] = rows[i]
  BY DEF OneMore
<1> HIDE DEF n
<1>2. \A i \in DOMAIN more : IsLiteral(more[i]) => i \in DOMAIN rows /\ more[i] = rows[i]
  BY <1>1
<1>3. \A i \in DOMAIN rows : i \in DOMAIN more /\ more[i] = rows[i]
  BY <1>1
<1>4. \A i \in DOMAIN more : IsLiteral(more[i]) => KeyOf(more[i]) \in DOMAIN exact
  BY <1>2, Zenon DEF Registered
<1>5. ASSUME NEW named \in DOMAIN exact
      PROVE  \E i \in DOMAIN more : LastOf(named, more, i) /\ more[i].handler = exact[named]
  <2>1. PICK i \in DOMAIN rows : LastOf(named, rows, i) /\ rows[i].handler = exact[named]
    BY DEF Registered
  <2>2. \A j \in DOMAIN more : IsLiteral(more[j]) /\ KeyOf(more[j]) = named => j <= i
    BY <1>2, <2>1, Zenon DEF LastOf
  <2>3. LastOf(named, more, i) /\ more[i].handler = exact[named]
    BY <1>3, <2>1, <2>2, Zenon DEF LastOf
  <2> QED
    BY <1>3, <2>3
<1> QED
  BY <1>4, <1>5, Zenon DEF Registered

LEMMA LiteralRegistered ==
    ASSUME NEW exact, NEW rows, NEW more, NEW r, Len(rows) \in Nat, OneMore(more, rows, r),
           Registered(exact, rows), IsLiteral(r)
    PROVE  Registered(Put(exact, KeyOf(r), r.handler), more)
<1> DEFINE n == Len(rows)
           k == KeyOf(r)
           g == Put(exact, k, r.handler)
<1>1. /\ DOMAIN rows = 1 .. n /\ DOMAIN more = 1 .. n + 1 /\ n \in Nat
      /\ more[n + 1] = r /\ \A i \in 1 .. n : more[i] = rows[i]
  BY DEF OneMore
<1>2. /\ DOMAIN g = DOMAIN exact \cup {k} /\ g[k] = r.handler
      /\ \A named \in DOMAIN exact : named # k => g[named] = exact[named]
  BY DEF Put
<1> HIDE DEF n, k, g
<1>3. \A i \in DOMAIN more : (i = n + 1 /\ more[i] = r) \/ (i \in DOMAIN rows /\ more[i] = rows[i])
  BY <1>1
<1>4. \A i \in DOMAIN rows : i \in DOMAIN more /\ more[i] = rows[i]
  BY <1>1
<1>5. n + 1 \in DOMAIN more /\ \A i \in DOMAIN more : i <= n + 1
  BY <1>1
<1>6. ASSUME NEW i \in DOMAIN more, IsLiteral(more[i]) PROVE KeyOf(more[i]) \in DOMAIN g
  <2>1. more[i] = r \/ (i \in DOMAIN rows /\ more[i] = rows[i])
    BY <1>3
  <2> QED
    BY <1>2, <1>6, <2>1, Zenon DEF Registered, k
<1>7. ASSUME NEW named \in DOMAIN g
      PROVE  \E i \in DOMAIN more : LastOf(named, more, i) /\ more[i].handler = g[named]
  <2>1. CASE named = k
    <3>1. LastOf(named, more, n + 1)
      BY <1>1, <1>5, <2>1, Zenon DEF LastOf, k
    <3> QED
      BY <1>1, <1>2, <1>5, <2>1, <3>1
  <2>2. CASE named # k
    <3>1. named \in DOMAIN exact /\ g[named] = exact[named]
      BY <1>2, <2>2
    <3>2. PICK i \in DOMAIN rows : LastOf(named, rows, i) /\ rows[i].handler = exact[named]
      BY <3>1 DEF Registered
    <3>3. ASSUME NEW j \in DOMAIN more, IsLiteral(more[j]), KeyOf(more[j]) = named PROVE j <= i
      <4>1. j \in DOMAIN rows /\ more[j] = rows[j]
        BY <1>3, <2>2, <3>3 DEF k
      <4> QED
        BY <3>2, <3>3, <4>1, Zenon DEF LastOf
    <3>4. LastOf(named, more, i) /\ more[i].handler = g[named]
      BY <1>4, <3>1, <3>2, <3>3, Zenon DEF LastOf
    <3> QED
      BY <1>4, <3>4
  <2> QED
    BY <2>1, <2>2
<1> QED
  BY <1>6, <1>7, Zenon DEF Registered, g, k

LEMMA PatternsGrow ==
    ASSUME NEW patterns, NEW rows, NEW more, NEW r, Len(rows) \in Nat, OneMore(more, rows, r),
           FromRoutes(patterns, rows)
    PROVE  FromRoutes(patterns, more)
<1>1. \A j \in DOMAIN rows : j \in DOMAIN more /\ more[j] = rows[j]
  BY DEF OneMore
<1> QED
  BY <1>1, Zenon DEF FromRoutes

LEMMA PatternRegistered ==
    ASSUME NEW S, NEW patterns \in Seq(S), NEW p, NEW rows, NEW more, NEW r, Len(rows) \in Nat,
           OneMore(more, rows, r), FromRoutes(patterns, rows), IsPattern(p, r)
    PROVE  FromRoutes(Append(patterns, p), more)
<1>1. FromRoutes(patterns, more)
  BY PatternsGrow
<1>2. Len(rows) + 1 \in DOMAIN more /\ more[Len(rows) + 1] = r
  BY DEF OneMore
<1> DEFINE all == Append(patterns, p)
<1>3. \A i \in DOMAIN all : all[i] = p \/ (i \in DOMAIN patterns /\ all[i] = patterns[i])
  <2>1. /\ DOMAIN patterns = 1 .. Len(patterns) /\ DOMAIN all = 1 .. Len(patterns) + 1
        /\ Len(patterns) \in Nat
        /\ \A i \in 1 .. Len(patterns) + 1 : all[i] = IF i = Len(patterns) + 1 THEN p ELSE patterns[i]
    OBVIOUS
  <2> HIDE DEF all
  <2> QED
    BY <2>1
<1> HIDE DEF all
<1>4. ASSUME NEW i \in DOMAIN all PROVE \E j \in DOMAIN more : IsPattern(all[i], more[j])
  <2>1. CASE all[i] = p
    BY <1>2, <2>1
  <2>2. CASE i \in DOMAIN patterns /\ all[i] = patterns[i]
    BY <1>1, <2>2, Zenon DEF FromRoutes
  <2> QED
    BY <1>3, <2>1, <2>2
<1> QED
  BY <1>4, Zenon DEF FromRoutes, all

LEMMA TableStep ==
    ASSUME TypeInv, TableInv, NEW r \in Registrations, Register(r)
    PROVE  TableInv'
<1>1. \/ r \in [kind : {"route"}, path : Texts, method : Texts, handler : DOMAIN Chains]
      \/ r \in [kind : {"mount"}, prefix : Seq(STRING), cache : BOOLEAN, spa : BOOLEAN]
  BY ExchangeAssumption
<1>2. /\ log' = Append(log, r)
      /\ table' = IF r.kind = "route" THEN WithRoute(table, r.path, r.method, r.handler)
                  ELSE WithMount(table, r.prefix, r)
  BY Zenon DEF Register
<1>3. OneMore(log', log, r) /\ Len(log) \in Nat
  BY <1>2, AppendIsMore DEF TypeInv
<1>4. Registered(table.exact, log) /\ FromRoutes(table.patterns, log)
  BY DEF TableInv
<1>5. table \in Tables /\ table.patterns \in Seq(Patterns)
  BY DEF TypeInv, Tables
<1>6. CASE IsLiteral(r)
  <2> DEFINE g == Put(table.exact, KeyOf(r), r.handler)
  <2>1. table' = [table EXCEPT !.exact = g]
    BY <1>2, <1>6, Zenon DEF IsLiteral, WithRoute, KeyOf
  <2> HIDE DEF g
  <2>2. table'.exact = g /\ table'.patterns = table.patterns
    BY <1>5, <2>1 DEF Tables
  <2>3. Registered(g, log')
    BY <1>3, <1>4, <1>6, LiteralRegistered DEF g
  <2>4. FromRoutes(table.patterns, log')
    BY <1>3, <1>4, PatternsGrow
  <2> QED
    BY <2>2, <2>3, <2>4, Zenon DEF TableInv
<1>7. CASE r.kind = "route" /\ IsPatternRoute(r.path)
  <2> DEFINE p == [segments |-> SplitPath(r.path), method |-> r.method, handler |-> r.handler]
             all == Append(table.patterns, p)
  <2>1. table' = [table EXCEPT !.patterns = all]
    BY <1>2, <1>7, Zenon DEF WithRoute
  <2>2. IsPattern(p, r)
    BY <1>7 DEF IsPattern
  <2>3. FromRoutes(all, log')
    <3> HIDE DEF p
    <3> QED
      BY <1>3, <1>4, <1>5, <2>2, PatternRegistered
  <2> HIDE DEF all
  <2>4. table'.patterns = all /\ table'.exact = table.exact
    BY <1>5, <2>1 DEF Tables
  <2>5. ~IsLiteral(r)
    BY <1>7 DEF IsLiteral
  <2>6. Registered(table.exact, log')
    BY <1>3, <1>4, <2>5, OthersRegistered
  <2> QED
    BY <2>3, <2>4, <2>6, Zenon DEF TableInv
<1>8. CASE r.kind # "route"
  <2> DEFINE all == Append(table.mounts, [r EXCEPT !.prefix = NormalizeMount(r.prefix)])
  <2>1. table' = [table EXCEPT !.mounts = all]
    BY <1>2, <1>8, Zenon DEF WithMount
  <2> HIDE DEF all
  <2>2. table'.patterns = table.patterns /\ table'.exact = table.exact
    BY <1>5, <2>1 DEF Tables
  <2>3. ~IsLiteral(r)
    BY <1>8 DEF IsLiteral
  <2>4. Registered(table.exact, log')
    BY <1>3, <1>4, <2>3, OthersRegistered
  <2>5. FromRoutes(table.patterns, log')
    BY <1>3, <1>4, PatternsGrow
  <2> QED
    BY <2>2, <2>4, <2>5, Zenon DEF TableInv
<1> QED
  BY <1>6, <1>7, <1>8 DEF IsLiteral

\* A key is of one path and one method only: neither holds the control character.
Keyed(named, path, method) ==
    /\ Len(named) = Len(path) + 1 + Len(method)
    /\ named[Len(path) + 1] = "US"
    /\ \A i \in 1 .. Len(path) : named[i] = path[i] /\ path[i] # "US"
    /\ \A i \in 1 .. Len(method) : named[Len(path) + 1 + i] = method[i]

LEMMA KeyParts ==
    ASSUME NEW path \in Texts, NEW method \in Texts
    PROVE  Keyed(RouteKey(path, method), path, method)
<1> DEFINE sep   == <<"US">>
           front == path \o sep
           named   == front \o method
           x     == Len(path)
           y     == Len(method)
<1>1. /\ path \in Seq(Words) /\ method \in Seq(Words) /\ x \in Nat /\ y \in Nat
      /\ \A i \in 1 .. x : path[i] # "US"
  <2>1. STRING \subseteq Words
    BY DEF Words
  <2>2. path \in Seq(STRING) /\ method \in Seq(STRING) /\ \A i \in DOMAIN path : path[i] # "US"
    BY DEF Texts
  <2>3. x \in Nat /\ y \in Nat /\ DOMAIN path = 1 .. x
    BY <2>2
  <2>4. path \in Seq(Words) /\ method \in Seq(Words)
    BY <2>1, <2>2, SeqMonotonic, Zenon
  <2> QED
    BY <2>2, <2>3, <2>4
<1>2. sep \in Seq(Words) /\ Len(sep) = 1 /\ sep[1] = "US"
  <2>1. "US" \in Words
    BY DEF Words
  <2>2. <<"US">> \in Seq(Words)
    BY <2>1
  <2>3. Len(<<"US">>) = 1 /\ <<"US">>[1] = "US"
    OBVIOUS
  <2> QED
    BY <2>2, <2>3
<1> HIDE DEF sep
<1>3. front \in Seq(Words) /\ Joined(front, path, sep)
  BY <1>1, <1>2, JoinedIs
<1>4. RouteKey(path, method) = named
  BY <1>1, <1>2, <1>3 DEF RouteKey, sep
<1> HIDE DEF front
<1>5. named \in Seq(Words) /\ Joined(named, front, method)
  BY <1>1, <1>3, JoinedIs
<1> HIDE DEF named
<1>6. Len(front) = x + 1 /\ \A i \in 1 .. x + 1 : front[i] = IF i <= x THEN path[i] ELSE sep[i - x]
  BY <1>2, <1>3 DEF Joined
<1>7. /\ Len(named) = (x + 1) + y
      /\ \A i \in 1 .. (x + 1) + y : named[i] = IF i <= x + 1 THEN front[i] ELSE method[i - (x + 1)]
  BY <1>5, <1>6 DEF Joined
<1>8. named[x + 1] = "US"
  <2>1. x + 1 \in 1 .. x + 1 /\ ~(x + 1 <= x) /\ (x + 1) - x = 1 /\ x + 1 <= x + 1 /\ x + 1 \in 1 .. (x + 1) + y
    BY <1>1
  <2> HIDE DEF x, y
  <2>2. front[x + 1] = "US"
    BY <1>2, <1>6, <2>1
  <2> QED
    BY <1>7, <2>1, <2>2
<1> HIDE DEF x, y
<1>9. ASSUME NEW i \in 1 .. x PROVE named[i] = path[i] /\ path[i] # "US"
  <2>1. i \in 1 .. x + 1 /\ i <= x /\ i <= x + 1 /\ i \in 1 .. (x + 1) + y
    BY <1>1
  <2> QED
    BY <1>1, <1>6, <1>7, <2>1
<1>10. ASSUME NEW i \in 1 .. y PROVE named[x + 1 + i] = method[i]
  <2>1. /\ (x + 1) + i \in 1 .. (x + 1) + y /\ ~((x + 1) + i <= x + 1)
        /\ ((x + 1) + i) - (x + 1) = i
    BY <1>1
  <2> QED
    BY <1>7, <2>1
<1>11. Keyed(named, path, method)
  BY <1>7, <1>8, <1>9, <1>10, Zenon DEF Keyed, x, y
<1> QED
  BY <1>4, <1>11

LEMMA KeyIsOne ==
    ASSUME NEW p \in Texts, NEW m \in Texts, NEW p2 \in Texts, NEW m2 \in Texts,
           RouteKey(p, m) = RouteKey(p2, m2)
    PROVE  p = p2 /\ m = m2
<1> DEFINE k == RouteKey(p, m)
           x == Len(p)
           y == Len(m)
           x2 == Len(p2)
           y2 == Len(m2)
<1>1. Keyed(k, p, m) /\ Keyed(k, p2, m2)
  BY KeyParts
<1>2. /\ p \in Seq(STRING) /\ m \in Seq(STRING) /\ p2 \in Seq(STRING) /\ m2 \in Seq(STRING)
      /\ x \in Nat /\ y \in Nat /\ x2 \in Nat /\ y2 \in Nat
  BY DEF Texts
<1> HIDE DEF k
<1>3. /\ Len(k) = x + 1 + y /\ k[x + 1] = "US"
      /\ \A i \in 1 .. x : k[i] = p[i] /\ p[i] # "US"
      /\ \A i \in 1 .. y : k[x + 1 + i] = m[i]
  BY <1>1, Zenon DEF Keyed
<1>4. /\ Len(k) = x2 + 1 + y2 /\ k[x2 + 1] = "US"
      /\ \A i \in 1 .. x2 : k[i] = p2[i] /\ p2[i] # "US"
      /\ \A i \in 1 .. y2 : k[x2 + 1 + i] = m2[i]
  BY <1>1, Zenon DEF Keyed
<1> HIDE DEF x, y, x2, y2
<1>5. x = x2
  <2>1. ~(x < x2)
    <3> SUFFICES ASSUME x < x2 PROVE FALSE
      OBVIOUS
    <3>1. x + 1 \in 1 .. x2
      BY <1>2
    <3> QED
      BY <1>3, <1>4, <3>1
  <2>2. ~(x2 < x)
    <3> SUFFICES ASSUME x2 < x PROVE FALSE
      OBVIOUS
    <3>1. x2 + 1 \in 1 .. x
      BY <1>2
    <3> QED
      BY <1>3, <1>4, <3>1
  <2> QED
    BY <1>2, <2>1, <2>2
<1>6. y = y2
  BY <1>2, <1>3, <1>4, <1>5
<1>7. \A i \in 1 .. x : p[i] = p2[i]
  BY <1>3, <1>4, <1>5
<1>8. \A i \in 1 .. y : m[i] = m2[i]
  BY <1>3, <1>4, <1>5, <1>6
<1>9. p = p2
  BY <1>2, <1>5, <1>7, SeqEqual DEF x, x2
<1>10. m = m2
  BY <1>2, <1>6, <1>8, SeqEqual DEF y, y2
<1> QED
  BY <1>9, <1>10

\* The path of a target holds no control character either.
LEMMA PathOfTexts ==
    ASSUME NEW target \in Texts
    PROVE  PathOf(target) \in Texts
<1> DEFINE marks == {p \in DOMAIN target : target[p] = "?"}
           at    == Min(marks) - 1
           path  == IF marks = {} THEN target ELSE SubSeq(target, 1, at)
<1>1. ASSUME NEW s \in Texts, NEW k \in 0 .. Len(s) PROVE SubSeq(s, 1, k) \in Texts
  <2> DEFINE t == SubSeq(s, 1, k)
  <2>1. s \in Seq(STRING) /\ \A i \in DOMAIN s : s[i] # "US"
    BY DEF Texts
  <2>2. k \in Nat /\ 0 <= k /\ k <= Len(s) /\ k - 0 = k /\ t = SubSeq(s, 0 + 1, k)
    BY <2>1
  <2> HIDE DEF t
  <2>3. /\ t \in Seq(STRING) /\ Len(t) = k
        /\ \A i \in 1 .. k : t[i] = s[i]
    BY <2>1, <2>2
       DEF t
  <2>4. ASSUME NEW i \in DOMAIN t PROVE t[i] # "US"
    <3>1. i \in 1 .. k /\ i \in DOMAIN s
      BY <2>1, <2>3
    <3> QED
      BY <2>1, <2>3, <3>1
  <2>5. t \in Texts
    BY <2>3, <2>4 DEF Texts
  <2> QED
    BY <2>5 DEF t
<1>2. path \in Texts
  <2>1. CASE marks = {}
    BY <2>1
  <2>2. CASE marks # {}
    <3>1. target \in Seq(STRING) /\ Len(target) \in Nat
      BY DEF Texts
    <3>2. marks \subseteq 1 .. Len(target)
      BY <3>1
    <3> HIDE DEF marks
    <3>3. Min(marks) \in 1 .. Len(target)
      BY <2>2, <3>1, <3>2, MatchedIs
    <3>4. at \in 0 .. Len(target)
      BY <3>1, <3>3
    <3> HIDE DEF at
    <3>5. SubSeq(target, 1, at) \in Texts
      BY <1>1, <3>4
    <3> QED
      BY <2>2, <3>5
  <2> QED
    BY <2>1, <2>2
<1>3. PathOf(target) = IF Len(path) > 1 /\ Last(path) = "/" THEN Front(path) ELSE path
  BY Zenon DEF PathOf
<1> HIDE DEF path
<1>4. Len(path) > 1 => Front(path) \in Texts
  <2> SUFFICES ASSUME Len(path) > 1 PROVE Front(path) \in Texts
    OBVIOUS
  <2>1. Len(path) \in Nat
    BY <1>2 DEF Texts
  <2> DEFINE k == Len(path) - 1
  <2>2. k \in 0 .. Len(path)
    BY <2>1
  <2>3. Front(path) = SubSeq(path, 1, k)
    BY Zenon DEF Front
  <2> HIDE DEF k
  <2> QED
    BY <1>1, <1>2, <2>2, <2>3
<1> QED
  BY <1>2, <1>3, <1>4

\* Of finitely many sizes one is the greatest.
LEMMA GreatestOf ==
    ASSUME NEW n \in Nat, NEW size, \A i \in 1 .. n : size[i] \in Nat,
           NEW S \in SUBSET (1 .. n), S # {}
    PROVE  \E m \in S : \A i \in S : size[i] <= size[m]
<1> DEFINE Greatest(A) == \E m \in A : \A i \in A : size[i] <= size[m]
           T == {k \in Nat : k <= n => \A A \in SUBSET (1 .. k) : A # {} => Greatest(A)}
<1>1. 0 \in T
  <2>1. 1 .. 0 = {}
    OBVIOUS
  <2>2. \A A \in SUBSET (1 .. 0) : A = {}
    BY <2>1
  <2> HIDE DEF Greatest
  <2> QED
    BY <2>2
<1>2. ASSUME NEW k \in Nat, k \in T PROVE k + 1 \in T
  <2> SUFFICES ASSUME k + 1 <= n, NEW A \in SUBSET (1 .. k + 1), A # {} PROVE Greatest(A)
    OBVIOUS
  <2> DEFINE B == A \ {k + 1}
  <2>1. B \in SUBSET (1 .. k) /\ k <= n
    OBVIOUS
  <2>2. \A i \in A : size[i] \in Nat
    OBVIOUS
  <2>3. CASE B = {}
    <3>1. A = {k + 1}
      BY <2>3
    <3> QED
      BY <2>2, <3>1
  <2>4. CASE B # {}
    <3>1. Greatest(B)
      BY <1>2, <2>1, <2>4
    <3>2. PICK m \in B : \A i \in B : size[i] <= size[m]
      BY <3>1
    <3>3. CASE k + 1 \in A /\ size[m] <= size[k + 1]
      <4>1. \A i \in A : size[i] <= size[k + 1]
        BY <2>2, <3>2, <3>3
      <4> QED
        BY <3>3, <4>1
    <3>4. CASE ~(k + 1 \in A /\ size[m] <= size[k + 1])
      <4>1. \A i \in A : size[i] <= size[m]
        BY <2>2, <3>2, <3>4
      <4> QED
        BY <4>1
    <3> QED
      BY <3>3, <3>4
  <2> QED
    BY <2>3, <2>4
<1> HIDE DEF Greatest
<1>3. n \in T
  <2> HIDE DEF T
  <2>1. Nat \subseteq T
    BY <1>1, <1>2, SetInduction
  <2> QED
    BY <2>1
<1> QED
  BY <1>3 DEF Greatest

\* No mount that covers a path has a longer prefix than the one that is taken.
LEMMA BestIsLongest ==
    ASSUME NEW mounts \in Seq(Mounts), NEW path, NEW i \in DOMAIN mounts, Covers(mounts[i], path)
    PROVE  Len(mounts[i].prefix) <= Len(mounts[BestMount(mounts, path)].prefix)
<1> DEFINE covering == {j \in DOMAIN mounts : Covers(mounts[j], path)}
           n == Len(mounts)
           size == [j \in 1 .. n |-> Len(mounts[j].prefix)]
           sizes == {Len(mounts[j].prefix) : j \in covering}
           longest == Max(sizes)
           best == {j \in covering : Len(mounts[j].prefix) = longest}
<1>1. n \in Nat /\ DOMAIN mounts = 1 .. n
  OBVIOUS
<1>2. \A j \in 1 .. n : Len(mounts[j].prefix) \in Nat
  <2>1. \A j \in 1 .. n : mounts[j] \in Mounts
    BY <1>1
  <2> QED
    BY <2>1 DEF Mounts
<1>3. BestMount(mounts, path) = Min(best)
  BY Zenon DEF BestMount
<1>4. covering \in SUBSET (1 .. n) /\ i \in covering
  BY <1>1
<1> HIDE DEF covering, n
<1>5. \A j \in 1 .. n : size[j] = Len(mounts[j].prefix) /\ size[j] \in Nat
  BY <1>2
<1> HIDE DEF size
<1>6. PICK m \in covering : \A j \in covering : size[j] <= size[m]
  BY <1>1, <1>4, <1>5, GreatestOf
<1>7. /\ size[m] \in Nat /\ size[m] \in sizes /\ sizes \subseteq 0 .. size[m]
      /\ \A j \in covering : Len(mounts[j].prefix) \in sizes
  <2>1. \A j \in covering : /\ Len(mounts[j].prefix) = size[j] /\ size[j] \in Nat
                            /\ size[j] <= size[m]
    BY <1>4, <1>5, <1>6
  <2>2. \A j \in covering : size[j] \in 0 .. size[m]
    BY <2>1
  <2>3. \A j \in covering : size[j] \in sizes
    BY <2>1
  <2>4. ASSUME NEW l \in sizes PROVE l \in 0 .. size[m]
    <3>1. PICK j \in covering : l = Len(mounts[j].prefix)
      OBVIOUS
    <3> QED
      BY <2>1, <2>2, <3>1
  <2> HIDE DEF sizes
  <2> QED
    BY <2>1, <2>3, <2>4
<1>8. longest \in sizes /\ \A l \in sizes : l <= longest
  <2> HIDE DEF sizes
  <2>1. sizes # {}
    BY <1>7
  <2> QED
    BY <1>7, <2>1, MaxIsGreatest
<1>9. best # {} /\ best \subseteq 1 .. n
  BY <1>4, <1>8
<1>10. \A j \in best : Len(mounts[j].prefix) = longest
  OBVIOUS
<1> HIDE DEF best
<1>11. Min(best) \in best
  BY <1>1, <1>9, MatchedIs
<1> HIDE DEF longest, sizes
<1>12. Len(mounts[i].prefix) <= longest
  BY <1>4, <1>7, <1>8
<1> QED
  BY <1>3, <1>10, <1>11, <1>12

\* Who may answer a request, by the registrations.
Fits(i, path, method) ==
    /\ log[i].method = method
    /\ log[i].path = path \/ MatchPattern(SplitPath(log[i].path), SplitPath(path))

LEMMA RegistrationIs ==
    ASSUME TypeInv, NEW i \in DOMAIN log
    PROVE  /\ log[i].kind = "route" => log[i].path \in Texts /\ log[i].method \in Texts
           /\ log[i] \in Registrations
<1>1. log[i] \in Registrations
  BY ElementOfSeq DEF TypeInv
<1>2. \/ log[i] \in [kind : {"route"}, path : Texts, method : Texts, handler : DOMAIN Chains]
      \/ log[i] \in [kind : {"mount"}, prefix : Seq(STRING), cache : BOOLEAN, spa : BOOLEAN]
  BY <1>1, ExchangeAssumption
<1> QED
  BY <1>1, <1>2

\* The registration behind a key is one for the path and the method.
LEMMA KeyFound ==
    ASSUME TypeInv, TableInv, NEW path \in Texts, NEW method \in Texts,
           RouteKey(path, method) \in DOMAIN table.exact
    PROVE  \E i \in DOMAIN log :
               /\ log[i].kind = "route" /\ log[i].path = path /\ log[i].method = method
               /\ log[i].handler = table.exact[RouteKey(path, method)]
               /\ \A j \in DOMAIN log : /\ log[j].kind = "route" /\ log[j].path = path
                                        /\ log[j].method = method /\ ~IsPatternRoute(path)
                                        => j <= i
<1> DEFINE named == RouteKey(path, method)
<1>1. PICK i \in DOMAIN log : LastOf(named, log, i) /\ log[i].handler = table.exact[named]
  BY Zenon DEF TableInv, Registered
<1>2. log[i].kind = "route" /\ KeyOf(log[i]) = named
  BY <1>1, Zenon DEF LastOf, IsLiteral
<1>3. log[i].path \in Texts /\ log[i].method \in Texts
  BY <1>2, RegistrationIs
<1>4. log[i].path = path /\ log[i].method = method
  <2>1. RouteKey(log[i].path, log[i].method) = RouteKey(path, method)
    BY <1>2, Zenon DEF KeyOf
  <2> QED
    BY <1>3, <2>1, KeyIsOne
<1>5. ASSUME NEW j \in DOMAIN log, log[j].kind = "route", log[j].path = path,
             log[j].method = method, ~IsPatternRoute(path)
      PROVE  j <= i
  <2>1. IsLiteral(log[j]) /\ KeyOf(log[j]) = named
    BY <1>5, Zenon DEF IsLiteral, KeyOf
  <2> QED
    BY <1>1, <2>1, Zenon DEF LastOf
<1> QED
  BY <1>1, <1>2, <1>4, <1>5, Zenon

LEMMA AskedIs ==
    ASSUME NEW q \in Asked
    PROVE  PathOf(q.target) \in Texts /\ q.method \in Texts
<1>1. q.target \in Texts /\ q.method \in Texts
  BY ExchangeAssumption
<1> QED
  BY <1>1, PathOfTexts

LEMMA RouteFits ==
    ASSUME TypeInv, TableInv, NEW path \in Texts, NEW method \in Texts,
           Resolve(table, path, method).kind = "route"
    PROVE  \E i \in DOMAIN log : /\ log[i].kind = "route"
                                 /\ log[i].handler = Resolve(table, path, method).who
                                 /\ Fits(i, path, method)
<1> DEFINE who == Resolve(table, path, method)
           named == RouteKey(path, method)
           matched == {i \in DOMAIN table.patterns :
                          /\ table.patterns[i].method = method
                          /\ MatchPattern(table.patterns[i].segments, SplitPath(path))}
           covered == \E i \in DOMAIN table.mounts : Covers(table.mounts[i], path)
           m == Min(matched)
           best == BestMount(table.mounts, path)
<1>1. who = IF named \in DOMAIN table.exact
        THEN [kind |-> "route", who |-> table.exact[named]]
        ELSE IF table.patterns # <<>>
        THEN IF matched = {} THEN Nobody ELSE [kind |-> "route", who |-> table.patterns[m].handler]
        ELSE IF covered THEN [kind |-> "mount", who |-> best]
        ELSE Nobody
  BY Zenon DEF Resolve
<1>2. matched # {} => m \in matched
  <2>1. table.patterns \in Seq(Patterns)
    BY DEF TypeInv, Tables
  <2>2. matched \subseteq 1 .. Len(table.patterns) /\ Len(table.patterns) \in Nat
    BY <2>1
  <2> HIDE DEF matched
  <2> QED
    BY <2>2, MatchedIs
<1>3. who.kind = "route"
  OBVIOUS
<1>4. CASE named \in DOMAIN table.exact
  <2>1. who.who = table.exact[named]
    BY <1>1, <1>4
  <2>2. PICK i \in DOMAIN log : /\ log[i].kind = "route" /\ log[i].path = path
                                /\ log[i].method = method /\ log[i].handler = table.exact[named]
    BY <1>4, KeyFound
  <2> HIDE DEF who
  <2>3. Fits(i, path, method)
    BY <2>2 DEF Fits
  <2> QED
    BY <2>1, <2>2, <2>3 DEF who
<1>5. CASE named \notin DOMAIN table.exact
  <2> HIDE DEF who, named, covered, m, best
  <2>1. matched # {} /\ who = [kind |-> "route", who |-> table.patterns[m].handler]
    <3> HIDE DEF matched
    <3> QED
      BY <1>1, <1>3, <1>5 DEF Nobody
  <2>2. /\ m \in DOMAIN table.patterns /\ table.patterns[m].method = method
        /\ MatchPattern(table.patterns[m].segments, SplitPath(path))
    BY <1>2, <2>1
  <2>3. PICK j \in DOMAIN log : IsPattern(table.patterns[m], log[j])
    BY <2>2, Zenon DEF TableInv, FromRoutes
  <2>4. log[j].kind = "route" /\ log[j].handler = who.who
    BY <2>1, <2>3 DEF IsPattern
  <2>5. Fits(j, path, method)
    BY <2>2, <2>3, Zenon DEF IsPattern, Fits
  <2> QED
    BY <2>4, <2>5 DEF who
<1> QED
  BY <1>4, <1>5

LEMMA LatestAnswers ==
    ASSUME TypeInv, TableInv, NEW path \in Texts, NEW method \in Texts, NEW own,
           own = {i \in DOMAIN log : /\ log[i].kind = "route" /\ log[i].path = path
                                     /\ log[i].method = method /\ ~IsPatternRoute(path)},
           own # {}
    PROVE  Resolve(table, path, method) = [kind |-> "route", who |-> log[Max(own)].handler]
<1> DEFINE named == RouteKey(path, method)
<1>1. PICK j \in own : TRUE
  OBVIOUS
<1>2. named \in DOMAIN table.exact
  <2>1. /\ j \in DOMAIN log /\ log[j].kind = "route" /\ log[j].path = path
        /\ log[j].method = method /\ ~IsPatternRoute(path)
    BY <1>1
  <2>2. IsLiteral(log[j]) /\ KeyOf(log[j]) = named
    BY <2>1, Zenon DEF IsLiteral, KeyOf
  <2>3. KeyOf(log[j]) \in DOMAIN table.exact
    BY <2>1, <2>2, Zenon DEF TableInv, Registered
  <2> QED
    BY <2>2, <2>3
<1>3. PICK i \in DOMAIN log :
          /\ log[i].kind = "route" /\ log[i].path = path /\ log[i].method = method
          /\ log[i].handler = table.exact[named]
          /\ \A k \in DOMAIN log : /\ log[k].kind = "route" /\ log[k].path = path
                                   /\ log[k].method = method /\ ~IsPatternRoute(path)
                                   => k <= i
  BY <1>2, KeyFound
<1>4. i \in own /\ \A k \in own : k <= i
  BY <1>1, <1>3
<1>5. Len(log) \in Nat /\ own \subseteq 0 .. Len(log)
  BY DEF TypeInv
<1>6. Max(own) \in own /\ \A k \in own : k <= Max(own)
  BY <1>5, MaxIsGreatest
<1>7. Max(own) = i
  <2> DEFINE m == Max(own)
  <2>1. m \in own /\ i <= m /\ m <= i /\ i \in Nat /\ m \in Nat
    BY <1>4, <1>5, <1>6
  <2> HIDE DEF m
  <2> QED
    BY <2>1 DEF m
<1>8. Resolve(table, path, method) = [kind |-> "route", who |-> table.exact[named]]
  BY <1>2, Zenon DEF Resolve
<1> QED
  BY <1>3, <1>7, <1>8, Zenon

LEMMA TableReads ==
    ASSUME TypeInv, TableInv
    PROVE  TheRightOneAnswers
<1> DEFINE routes == {i \in DOMAIN log : log[i].kind = "route"}
           literal(path, method) == {i \in routes : /\ log[i].path = path /\ log[i].method = method
                                                    /\ ~IsPatternRoute(path)}
<1> SUFFICES ASSUME NEW q \in Asked
             PROVE  LET path == PathOf(q.target)
                        who  == Resolve(table, path, q.method)
                        own  == literal(path, q.method)
                    IN  /\ who.kind = "route" =>
                              \E i \in routes : log[i].handler = who.who /\ Fits(i, path, q.method)
                        /\ who.kind = "mount" =>
                              \A i \in DOMAIN table.mounts :
                                  Covers(table.mounts[i], path) =>
                                      Len(table.mounts[i].prefix) <= Len(table.mounts[who.who].prefix)
                        /\ own # {} => who = [kind |-> "route", who |-> log[Max(own)].handler]
  BY Zenon DEF TheRightOneAnswers, Fits
<1> DEFINE path == PathOf(q.target)
           who  == Resolve(table, path, q.method)
           own  == literal(path, q.method)
<1>1. path \in Texts /\ q.method \in Texts
  BY AskedIs
<1> HIDE DEF path
<1>2. who.kind = "route" => \E i \in routes : log[i].handler = who.who /\ Fits(i, path, q.method)
  <2> SUFFICES ASSUME who.kind = "route"
               PROVE  \E i \in routes : log[i].handler = who.who /\ Fits(i, path, q.method)
    OBVIOUS
  <2>1. PICK i \in DOMAIN log : log[i].kind = "route" /\ log[i].handler = who.who /\ Fits(i, path, q.method)
    BY <1>1, RouteFits
  <2> QED
    BY <2>1
<1>3. ASSUME who.kind = "mount", NEW i \in DOMAIN table.mounts, Covers(table.mounts[i], path)
      PROVE  Len(table.mounts[i].prefix) <= Len(table.mounts[who.who].prefix)
  <2>1. who.who = BestMount(table.mounts, path)
    BY <1>3, MountIs
  <2>2. table.mounts \in Seq(Mounts)
    BY DEF TypeInv, Tables
  <2>3. Len(table.mounts[i].prefix) <= Len(table.mounts[BestMount(table.mounts, path)].prefix)
    BY <1>3, <2>2, BestIsLongest
  <2> HIDE DEF who
  <2> QED
    BY <2>1, <2>3
<1>4. own # {} => who = [kind |-> "route", who |-> log[Max(own)].handler]
  <2>1. own = {i \in DOMAIN log : /\ log[i].kind = "route" /\ log[i].path = path
                                  /\ log[i].method = q.method /\ ~IsPatternRoute(path)}
    OBVIOUS
  <2> HIDE DEF own
  <2> QED
    BY <1>1, <2>1, LatestAnswers
<1> QED
  BY <1>2, <1>3, <1>4, Zenon DEF path

\* Whoever answers a request was registered for it; a literal route answers its
\* requests whatever else is registered in whatever order, the last of those
\* for a path and a method; no other mount covers more of the path.
THEOREM RightOneAnswers == ExchangeSpec => []TheRightOneAnswers
<1>1. ExchangeInit => TableInv
  BY DEF ExchangeInit, NoRoutes, TableInv, Registered, FromRoutes
<1>2. TypeInv /\ TableInv /\ [ExchangeNext]_exchangeVars => TableInv'
  <2> SUFFICES ASSUME TypeInv, TableInv, [ExchangeNext]_exchangeVars PROVE TableInv'
    OBVIOUS
  <2>1. ASSUME UNCHANGED <<log, table>> PROVE TableInv'
    BY <2>1 DEF TableInv
  <2>2. ASSUME NEW r \in Registrations, Register(r) PROVE TableInv'
    BY <2>2, TableStep
  <2>3. ASSUME NEW q \in Asked, NEW conditional \in BOOLEAN, NEW guarded \in BOOLEAN,
               Request(q, conditional, guarded)
        PROVE  TableInv'
    <3>1. UNCHANGED <<log, table>>
      BY <2>3, Zenon DEF Request, ExecuteRoute
    <3> QED
      BY <2>1, <3>1
  <2>4. ASSUME Finish PROVE UNCHANGED <<log, table>>
    BY <2>4, Zenon DEF Finish
  <2>5. ASSUME NEW code \in {400, 408}, NEW n \in 0 .. 3, Reject(code, n)
        PROVE  UNCHANGED <<log, table>>
    BY <2>5, Zenon DEF Reject
  <2>6. CASE UNCHANGED exchangeVars
    BY <2>1, <2>6 DEF exchangeVars
  <2> QED
    BY <2>1, <2>2, <2>3, <2>4, <2>5, <2>6, ZenonT(60) DEF ExchangeNext, Listen, Deploy, WriteSome, GiveUp
<1>3. TypeInv /\ TableInv => TheRightOneAnswers
  BY TableReads
<1> QED
  BY <1>1, <1>2, <1>3, ExchangeTypes, PTL DEF ExchangeSpec

-----------------------------------------------------------------------------
(* The cooldown of a route: when every middleware that calls web.guard()     *)
(* passes the same number of seconds, what has been armed is kept, whatever  *)
(* the number of threads and requests.                                       *)

\* The route's guard state and the requests' progress keep their types: in
\* particular what is armed is one of the middlewares' keys at a time of the clock.
THEOREM TypeCorrect == Spec => []TypeOK
<1>1. Init => TypeOK
  BY RouteGuardAssumption DEF Init, TypeOK
<1>2. TypeOK /\ [Next]_vars => TypeOK'
  <2> SUFFICES ASSUME TypeOK, [Next]_vars PROVE TypeOK'
    OBVIOUS
  <2>1. ASSUME NEW r \in Requests, Refuse(r) PROVE TypeOK'
    BY <2>1 DEF TypeOK, Refuse
  <2>2. ASSUME NEW r \in Requests, Begin(r) PROVE TypeOK'
    <3>1. begun' \in Seq(Requests)
      BY <2>2 DEF TypeOK, Begin
    <3>2. start' \in [Requests -> 0 .. MaxTime]
      BY <2>2 DEF TypeOK, Begin
    <3> QED
      BY <2>2, <3>1, <3>2 DEF TypeOK, Begin
  <2>3. ASSUME NEW r \in Requests, Arm(r) PROVE TypeOK'
    <3>1. /\ time_key' \in Keys \cup {0}
          /\ time_point' \in 0 .. MaxTime
          /\ armed' \in [Requests -> 0 .. MaxTime]
      BY <2>3, RouteGuardAssumption DEF TypeOK, Arm, ArmedAt
    <3> QED
      BY <2>3, <3>1 DEF TypeOK, Arm
  <2>4. ASSUME NEW r \in Requests, NEW k \in Keys, Execute(r, k) PROVE TypeOK'
    BY <2>4 DEF TypeOK, Execute
  <2>5. CASE Tick
    BY <2>5, RouteGuardAssumption DEF TypeOK, Tick
  <2>6. CASE UNCHANGED vars
    BY <2>6 DEF TypeOK, vars
  <2> QED
    BY <2>1, <2>2, <2>3, <2>4, <2>5, <2>6 DEF Next
<1> QED
  BY <1>1, <1>2, PTL DEF Spec

-----------------------------------------------------------------------------
(* The cooldown *)

\* The clock is never behind what has been recorded of it.
ClockInv ==
    /\ time_point <= now
    /\ \A r \in Requests : start[r] <= now /\ armed[r] <= now

\* A request that armed the cooldown is answered, and while there is one the
\* route's cooldown is at least as late as that one, for the one key K.
ArmedInv(K) ==
    \A r \in Requests : armed[r] # 0 =>
        /\ status[r] = "answered"
        /\ key[r] = K /\ K > 0
        /\ time_key = K
        /\ armed[r] <= time_point

\* Only the middlewares' own keys are armed.
KeyInv == \A r \in Requests : status[r] = "arming" => key[r] > 0

\* No request began inside a cooldown that was armed before.
KeptInv ==
    \A a, b \in Requests : armed[a] # 0 =>
        start[b] <= armed[a] \/ start[b] >= armed[a] + key[a]

Inv(K) == TypeOK /\ ClockInv /\ KeyInv /\ ArmedInv(K) /\ KeptInv

\* Every step of a request and of the clock preserves the invariant.
LEMMA KeptInductive ==
    ASSUME NEW K \in Nat, Keys \subseteq {0, K}
    PROVE  Inv(K) /\ TypeOK' /\ [Next]_vars => Inv(K)'
<1> SUFFICES ASSUME Inv(K), TypeOK', [Next]_vars PROVE Inv(K)'
  OBVIOUS
<1> USE DEF Inv, TypeOK
<1>1. ASSUME NEW r \in Requests, Refuse(r) PROVE Inv(K)'
  BY <1>1 DEF Refuse, ClockInv, KeyInv, ArmedInv, KeptInv
\* A request begins: were a cooldown in force, TimeGuard would refuse it.
<1>2. ASSUME NEW r \in Requests, Begin(r) PROVE Inv(K)'
  <2>1. \A a \in Requests : armed[a] # 0 => now >= armed[a] + key[a]
    <3> SUFFICES ASSUME NEW a \in Requests, armed[a] # 0
                 PROVE  now >= armed[a] + key[a]
      OBVIOUS
    <3>1. /\ time_key = K /\ key[a] = K /\ K > 0
          /\ armed[a] <= time_point /\ time_point <= now
      BY DEF ArmedInv, ClockInv
    <3>2. armed[a] \in Nat /\ time_point \in Nat /\ now \in Nat
      BY RouteGuardAssumption
    <3>3. time_point # 0
      BY <3>1, <3>2
    <3>4. ~(now - time_point < K)
      BY <1>2, <3>1, <3>3 DEF Begin, TimeGuard
    <3> QED
      BY <3>1, <3>2, <3>4
  <2>2. ClockInv'
    BY <1>2 DEF Begin, ClockInv
  <2>3. KeyInv' /\ ArmedInv(K)'
    BY <1>2 DEF Begin, KeyInv, ArmedInv
  <2>4. KeptInv'
    BY <1>2, <2>1 DEF Begin, KeptInv
  <2> QED
    BY <2>2, <2>3, <2>4
\* The middlewares return: a running request has not armed anything yet.
<1>3. ASSUME NEW r \in Requests, NEW k \in Keys, Execute(r, k) PROVE Inv(K)'
  <2>1. armed[r] = 0
    BY <1>3 DEF Execute, ArmedInv
  <2>2. ClockInv' /\ KeyInv'
    BY <1>3 DEF Execute, ClockInv, KeyInv
  <2>3. ArmedInv(K)'
    BY <1>3, <2>1 DEF Execute, ArmedInv
  <2>4. KeptInv'
    BY <1>3, <2>1 DEF Execute, KeptInv
  <2> QED
    BY <2>2, <2>3, <2>4
\* The cooldown is armed: no request began later than now.
<1>4. ASSUME NEW r \in Requests, Arm(r) PROVE Inv(K)'
  <2>1. key[r] = K /\ K > 0
    BY <1>4 DEF Arm, KeyInv
  <2>2. ClockInv'
    BY <1>4 DEF Arm, ArmedAt, ClockInv
  <2>3. KeyInv'
    BY <1>4 DEF Arm, KeyInv
  <2>4. ArmedInv(K)'
    BY <1>4, <2>1 DEF Arm, ArmedAt, ArmedInv, ClockInv
  <2>5. KeptInv'
    BY <1>4 DEF Arm, KeptInv, ClockInv
  <2> QED
    BY <2>2, <2>3, <2>4, <2>5
<1>5. CASE Tick
  BY <1>5, RouteGuardAssumption DEF Tick, ClockInv, KeyInv, ArmedInv, KeptInv
<1>6. CASE UNCHANGED vars
  BY <1>6 DEF vars, ClockInv, KeyInv, ArmedInv, KeptInv
<1> QED
  BY <1>1, <1>2, <1>3, <1>4, <1>5, <1>6 DEF Next

\* With one key the announced cooldown is kept: after a request has armed it no
\* middleware of the route begins before it is over, for any number of threads
\* between TimeGuard's critical section and the arming one (ExecuteRoute).
THEOREM OneKeyIsKept ==
    ASSUME NEW K \in Nat, Keys \subseteq {0, K}
    PROVE  Spec => []AnnouncedCooldownIsKept
<1>1. Init => Inv(K)
  BY RouteGuardAssumption
  DEF Init, Inv, TypeOK, ClockInv, KeyInv, ArmedInv, KeptInv
<1>2. Inv(K) /\ TypeOK' /\ [Next]_vars => Inv(K)'
  BY KeptInductive
<1>3. Inv(K) => AnnouncedCooldownIsKept
  <2> SUFFICES ASSUME Inv(K), NEW i \in DOMAIN begun, NEW j \in DOMAIN begun,
                      i # j, armed[begun[i]] # 0
               PROVE  \/ start[begun[j]] <= armed[begun[i]]
                      \/ start[begun[j]] >= armed[begun[i]] + key[begun[i]]
    BY DEF AnnouncedCooldownIsKept
  <2>1. begun[i] \in Requests /\ begun[j] \in Requests
    BY DEF Inv, TypeOK
  <2> QED
    BY <2>1 DEF Inv, KeptInv
<1>4. Spec => []TypeOK
  BY TypeCorrect
<1> QED
  BY <1>1, <1>2, <1>3, <1>4, PTL DEF Spec
===============================================================================

----------------------------- MODULE HttpMessage -----------------------------
(***************************************************************************)
(* http::Message (http/message.hpp): how a buffer is framed (inspect) and  *)
(* parsed (parse), with the scans both share.                              *)
(*                                                                         *)
(* A text is a sequence of lexemes, each of size one: the line end bytes   *)
(* "CR" and "LF", the request lines "1.1" and "1.0" (method, target and    *)
(* version) and "short" (one part missing), header fields (a name with its *)
(* value), the digits and the ";" of a chunk line, and "x" for any other   *)
(* byte.  size_t is reduced to 0 .. Npos.                                  *)
(***************************************************************************)
EXTENDS Integers, Sequences, FiniteSets, FiniteSetsExt, SequencesExt

CONSTANTS
    MaxHeaders,      \* MAX_HEADERS
    MaxHeaderLine,   \* MAX_HEADER_LINE
    Npos             \* the largest size_t

ASSUME HttpAssumption == MaxHeaders \in Nat /\ MaxHeaderLine \in Nat \ {0} /\ Npos \in Nat \ {0}

\* The values of Content-Length; any other is not a number that fits a size_t.
LengthOf == [l \in {"CL1", "CL2", "CLmax"} |->
               CASE l = "CL1" -> 1 [] l = "CL2" -> 2 [] l = "CLmax" -> Npos]
Lengths == {"CL1", "CL2", "CLmax", "CLbad"}
Codings == {"chunked", "gzip"}
Fields == Lengths \cup Codings \cup {"Host", "Other"}    \* lines with a name and a colon
Hex == [d \in {"0", "1"} |-> IF d = "0" THEN 0 ELSE 1]
HttpLexemes == Fields \cup DOMAIN Hex \cup {"CR", "LF", "1.1", "1.0", "short", "fold", "nocolon", ";", "x"}

-----------------------------------------------------------------------------
(* Searching and cutting; positions count from 1, 0 is npos *)

At(s, p, pattern) == \A i \in DOMAIN pattern : s[p + i - 1] = pattern[i]

Find(s, pattern) ==
    LET found == {p \in 1 .. Len(s) - Len(pattern) + 1 : At(s, p, pattern)}
    IN  IF found = {} THEN 0 ELSE Min(found)

\* What is left of a text behind its first n bytes.
After(s, n) == SubSeq(s, n + 1, Len(s))

\* A line ends at a LF or behind the text.
Ends(s) == {p \in DOMAIN s : s[p] = "LF"}
LineEnds(s) == Ends(s) \cup {Len(s) + 1}
LineUpTo(s, p) == SubSeq(s, Max({0} \cup {q \in Ends(s) : q < p}) + 1, p - 1)
FirstLine(s) == LineUpTo(s, Min(LineEnds(s)))
HeaderEnds(s) == LineEnds(s) \ {Min(LineEnds(s))}

WithoutCR(line) ==
    IF line # <<>> /\ Last(line) = "CR" THEN Front(line) ELSE line

\* The terminator of the head that comes first, CRLFCRLF or bare LFLF: the
\* number of bytes before it and its size.
HeadBounds_PreferCrlf(raw) ==
    LET crlf == Find(raw, <<"CR", "LF", "CR", "LF">>)
        lf   == Find(raw, <<"LF", "LF">>)
    IN  IF crlf # 0 THEN [end |-> crlf - 1, separator |-> 4]
        ELSE [end |-> IF lf = 0 THEN Npos ELSE lf - 1, separator |-> 2]

HeadBounds(raw) ==
    LET crlf == Find(raw, <<"CR", "LF", "CR", "LF">>)
        lf   == Find(raw, <<"LF", "LF">>)
    IN  IF lf = 0 /\ crlf = 0 THEN [end |-> Npos, separator |-> 0]
        ELSE IF crlf = 0 \/ (lf # 0 /\ lf < crlf) THEN [end |-> lf - 1, separator |-> 2]
        ELSE [end |-> crlf - 1, separator |-> 4]

-----------------------------------------------------------------------------
(* scan_head *)

NoScan == [length |-> -1, coding |-> "none", verdict |-> "ok", count |-> 0]

Bad(scan) == [scan EXCEPT !.verdict = "bad"]

ScanLength(scan, line) ==
    IF \/ scan.coding # "none"
       \/ Len(line) # 1 \/ line[1] \notin DOMAIN LengthOf
       \/ scan.length \notin {-1, LengthOf[line[1]]}
    THEN Bad(scan)
    ELSE [scan EXCEPT !.length = LengthOf[line[1]]]

ScanCoding(scan, line) ==
    IF scan.length # -1 \/ scan.coding # "none" THEN Bad(scan)
    ELSE [scan EXCEPT !.coding = IF line = <<"chunked">> THEN "chunked" ELSE "other"]

ScanLine(scan, raw) ==
    LET line    == WithoutCR(raw)
        counted == [scan EXCEPT !.count = @ + 1]
    IN  IF scan.verdict # "ok" THEN scan
        ELSE IF Len(raw) > MaxHeaderLine THEN Bad(scan)
        ELSE IF line = <<>> THEN scan
        ELSE IF scan.count = MaxHeaders THEN [scan EXCEPT !.verdict = "many"]
        ELSE IF line[1] = "fold" THEN Bad(scan)
        ELSE IF line[1] \in Lengths THEN ScanLength(counted, line)
        ELSE IF line[1] \in Codings THEN ScanCoding(counted, line)
        ELSE counted

ScanHead(head) ==
    LET n == Len(head) + 1
        scan[p \in 0 .. n] ==
            IF p = 0 THEN NoScan
            ELSE IF p \in HeaderEnds(head) THEN ScanLine(scan[p - 1], LineUpTo(head, p))
            ELSE IF p \in Ends(head) /\ Len(FirstLine(head)) > MaxHeaderLine THEN Bad(NoScan)
            ELSE scan[p - 1]
    IN  scan[n]

-----------------------------------------------------------------------------
(* scan_chunked *)

\* The number the digits spell, -1 when a size_t does not hold it.
ChunkSize(digits) ==
    LET size[k \in 0 .. Len(digits)] ==
            IF k = 0 THEN 0
            ELSE LET n == size[k - 1]
                     d == Hex[digits[k]]
                 IN  IF n = -1 \/ n > (Npos - d) \div 16 THEN -1 ELSE n * 16 + d
    IN  size[Len(digits)]

\* The digits a chunk line starts with.
SizeDigits(line) ==
    SubSeq(line, 1, Max({0} \cup {n \in DOMAIN line : \A i \in 1 .. n : line[i] \in DOMAIN Hex}))

Chunks(state, data, consumed) == [state |-> state, data |-> data, consumed |-> consumed]

CrLf == <<"CR", "LF">>

\* The size of the trailer section: lines up to an empty one.
Trailers[s \in Seq(HttpLexemes)] ==
    LET end  == Find(s, CrLf)
        next == Trailers[After(s, end + 1)]
    IN  CASE end = 0 -> 0
          [] end = 1 -> 2
          [] OTHER -> IF next = 0 THEN 0 ELSE end + 1 + next

\* A chunk, and the ones behind it.
ScanChunks[s \in Seq(HttpLexemes)] ==
    LET end    == Find(s, CrLf)
        line   == SubSeq(s, 1, end - 1)
        digits == SizeDigits(line)
        size   == ChunkSize(digits)
        begin  == end + 1
        behind == begin + size
        last   == Trailers[After(s, begin)]
        next   == ScanChunks[After(s, behind + 2)]
    IN  CASE end = 0 -> Chunks("incomplete", <<>>, 0)
          [] end > 0 /\ (\/ digits = <<>> \/ size = -1
                         \/ Len(digits) < Len(line) /\ line[Len(digits) + 1] # ";") ->
                Chunks("malformed", <<>>, 0)
          [] OTHER ->
             CASE size = 0 -> IF last = 0 THEN Chunks("incomplete", <<>>, 0)
                              ELSE Chunks("complete", <<>>, begin + last)
               [] size > 0 /\ Len(s) < behind + 2 -> Chunks("incomplete", <<>>, 0)
               [] OTHER ->
                  IF ~At(s, behind + 1, CrLf) THEN Chunks("malformed", <<>>, 0)
                  ELSE IF next.state # "complete" THEN next
                  ELSE Chunks("complete", SubSeq(s, begin + 1, behind) \o next.data,
                              behind + 2 + next.consumed)

ScanChunked_TakesAll(body) ==
    LET r == ScanChunks[body]
    IN  [r EXCEPT !.consumed = IF r.state = "complete" THEN Len(body) ELSE 0]

ScanChunked(body) == ScanChunks[body]

-----------------------------------------------------------------------------
(* inspect *)

AtLeast11(line) == WithoutCR(line) = <<"1.1">>

\* From HTTP/1.1 on every line of the head ends in CRLF.
LineEndingsOk(head, separator) ==
    AtLeast11(FirstLine(head)) =>
        /\ separator = 4
        /\ Last(FirstLine(head)) = "CR"
        /\ \A p \in Ends(head) : LineUpTo(head, p) = <<>> \/ Last(LineUpTo(head, p)) = "CR"

Framed(framing, expected) == [framing |-> framing, expected |-> expected]

Giants(raw) == {p \in LineEnds(raw) : Len(LineUpTo(raw, p)) > MaxHeaderLine}

InspectPartial_NoRequestLine(raw) ==
    LET first == Min(Giants(raw) \cup {Len(raw) + 2})
    IN  IF Cardinality({p \in Ends(raw) : p <= first}) > MaxHeaders THEN Framed("many", 0)
        ELSE IF Giants(raw) # {} THEN Framed("bad", 0)
        ELSE Framed("incomplete", 0)

\* The head is still on its way: a flood of lines or a giant line is rejected.
InspectPartial(raw) ==
    LET first == Min(Giants(raw) \cup {Len(raw) + 2})
    IN  IF Cardinality({p \in Ends(raw) : p <= first}) > MaxHeaders + 1 THEN Framed("many", 0)
        ELSE IF Giants(raw) # {} THEN Framed("bad", 0)
        ELSE Framed("incomplete", 0)

\* content_length bytes after the head, saturated.
Total(base, length) == IF length > Npos - base THEN Npos ELSE base + length

Inspect(raw) ==
    LET bounds == HeadBounds(raw)
        head   == SubSeq(raw, 1, bounds.end)
        scan   == ScanHead(head)
        base   == bounds.end + bounds.separator
        chunks == ScanChunked(After(raw, base))
        total  == Total(base, Max({0, scan.length}))
    IN  IF bounds.end = Npos THEN InspectPartial(raw)
        ELSE IF scan.verdict # "ok" THEN Framed(scan.verdict, 0)
        ELSE IF scan.coding = "other" THEN Framed("unsupported", 0)
        ELSE IF ~LineEndingsOk(head, bounds.separator) THEN Framed("bad", 0)
        ELSE IF scan.coding = "chunked" THEN
                CASE chunks.state = "complete" -> Framed("complete", base + chunks.consumed)
                  [] chunks.state = "malformed" -> Framed("bad", 0)
                  [] OTHER -> Framed("incomplete", 0)
        ELSE Framed(IF Len(raw) >= total THEN "complete" ELSE "incomplete", total)

-----------------------------------------------------------------------------
(* parse *)

HeaderLines(head) == {p \in HeaderEnds(head) : WithoutCR(LineUpTo(head, p)) # <<>>}
Hosts(head) == {p \in HeaderLines(head) : LineUpTo(head, p)[1] = "Host"}

HostsOk(head) ==
    \/ Cardinality(Hosts(head)) = 1
    \/ Hosts(head) = {} /\ WithoutCR(FirstLine(head)) = <<"1.0">>

Unparsed == [ok |-> FALSE, body |-> <<>>]

HttpParse(raw) ==
    LET bounds == HeadBounds(raw)
        head   == SubSeq(raw, 1, bounds.end)
        scan   == ScanHead(head)
        body   == After(raw, bounds.end + bounds.separator)
        chunks == ScanChunked(body)
    IN  IF \/ bounds.end = Npos
           \/ scan.verdict # "ok" \/ scan.coding = "other"
           \/ ~LineEndingsOk(head, bounds.separator)
           \/ WithoutCR(FirstLine(head)) \notin {<<"1.1">>, <<"1.0">>}
           \/ \E p \in HeaderLines(head) : LineUpTo(head, p)[1] \notin Fields
           \/ ~HostsOk(head)
           \/ scan.length > Len(body)
           \/ scan.coding = "chunked" /\ chunks.state # "complete"
        THEN Unparsed
        ELSE [ok |-> TRUE,
              body |-> IF scan.length > 0 THEN SubSeq(body, 1, scan.length)
                       ELSE IF scan.coding = "chunked" THEN chunks.data ELSE <<>>]
=============================================================================

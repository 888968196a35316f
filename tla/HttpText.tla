------------------------------ MODULE HttpText ------------------------------
(***************************************************************************)
(* The reference for HttpMessage: a client that sends one request lexeme   *)
(* by lexeme, well-formed or not, and keeps account of what it has sent.   *)
(* The text is what a server has received so far, so that every way a      *)
(* request may be cut by the network is a state.                           *)
(***************************************************************************)
EXTENDS HttpMessage

VARIABLES
    text,     \* what has been sent
    phase,    \* what the client is sending
    head,     \* account of the head: version, hosts, length, coding, fields
    line,     \* lexemes of the current line
    left,     \* bytes of the body or of the chunk still to send, or the chunk size so far
    body,     \* the bytes of the body sent so far
    flawed,   \* a rule of RFC 9112 that the server enforces has been broken
    edge      \* a header line is exactly as long as the limit

httpVars == <<text, phase, head, line, left, body, flawed, edge>>

HttpInit ==
    /\ text = <<>> /\ phase = "start" /\ line = <<>> /\ left = 0 /\ body = <<>>
    /\ head = [version |-> "1.1", bare |-> FALSE, hosts |-> 0, length |-> -1, coding |-> "none",
               fields |-> 0]
    /\ flawed = FALSE /\ edge = FALSE

\* One lexeme more; a text is never as long as npos.
Send(l) ==
    /\ Len(text) + 1 < Npos
    /\ text' = Append(text, l)
    /\ line' = IF l = "LF" THEN <<>> ELSE Append(line, l)

\* A client breaks at most one rule (a bound on the exploration).
Flaw(p) == ~(flawed /\ p) /\ flawed' = (flawed \/ p)
Goto(p) == phase' = p
Newer == head.version # "1.0"
Returned == line # <<>> /\ Last(line) = "CR"

RequestLine(l) ==
    /\ phase = "start" /\ l \in {"1.1", "1.0", "short"}
    /\ Send(l) /\ Goto("line") /\ Flaw(l = "short")
    /\ head' = [head EXCEPT !.version = l]
    /\ UNCHANGED <<left, body, edge>>

\* A header field, at the start of a line.
FieldLine(l) ==
    /\ phase = "fields" /\ line = <<>>
    /\ l \in Fields \cup {"fold", "nocolon"}
    /\ Send(l) /\ Goto("line")
    /\ head' = [head EXCEPT !.fields = @ + 1,
                            !.hosts = IF l = "Host" THEN @ + 1 ELSE @,
                            !.length = IF l \in DOMAIN LengthOf THEN LengthOf[l] ELSE @,
                            !.coding = IF l \in Codings THEN l ELSE @]
    /\ Flaw(\/ l \in {"fold", "nocolon", "CLbad", "gzip"}
            \/ l = "Host" /\ head.hosts = 1
            \/ l \in Codings /\ (head.length # -1 \/ head.coding # "none")
            \/ l \in DOMAIN LengthOf /\ (head.coding # "none" \/ head.length \notin {-1, LengthOf[l]})
            \/ head.fields = MaxHeaders)
    /\ UNCHANGED <<left, body, edge>>

\* One byte more of the request line or of a field's value.
LineByte ==
    /\ phase = "line" /\ ~Returned
    /\ Len(line) <= MaxHeaderLine
    /\ Send("x")
    /\ Flaw(line[1] \notin {"Host", "Other", "fold", "nocolon"} \/ Len(line) = MaxHeaderLine)
    /\ UNCHANGED <<phase, head, left, body, edge>>

LineReturn ==
    /\ phase = "line" /\ ~Returned
    /\ head.bare => Newer
    /\ Send("CR")
    /\ edge' = (edge \/ Len(line) = MaxHeaderLine)
    /\ UNCHANGED <<phase, head, left, body, flawed>>

\* The line ends; an HTTP/1.0 client uses one kind of line end throughout.
LineEnd ==
    LET isBare == ~Returned
    IN  /\ phase = "line"
        /\ Newer \/ Ends(text) = {} \/ isBare = head.bare
        /\ Send("LF") /\ Goto("fields")
        /\ head' = [head EXCEPT !.bare = @ \/ isBare]
        /\ Flaw(isBare /\ Newer)
        /\ UNCHANGED <<left, body, edge>>

HeadReturn ==
    /\ phase = "fields" /\ line = <<>>
    /\ head.bare => Newer
    /\ Send("CR")
    /\ UNCHANGED <<phase, head, left, body, flawed, edge>>

HeadEnd ==
    LET isBare == line = <<>>
    IN  /\ phase = "fields" /\ line \in {<<>>, <<"CR">>}
        /\ Newer \/ isBare = head.bare
        /\ Send("LF")
        /\ Flaw(Newer /\ (isBare \/ head.hosts = 0))
        /\ left' = IF head.coding = "chunked" THEN 0 ELSE Max({0, head.length})
        /\ Goto(IF head.coding = "chunked" THEN "size" ELSE IF left' > 0 THEN "body" ELSE "done")
        /\ UNCHANGED <<head, body, edge>>

BodyByte ==
    /\ phase \in {"body", "data"}
    /\ Send("x")
    /\ body' = Append(body, "x") /\ left' = left - 1
    /\ Goto(IF left > 1 THEN phase ELSE IF phase = "body" THEN "done" ELSE "chunk end")
    /\ UNCHANGED <<head, flawed, edge>>

SizeDigit(d) ==
    /\ phase = "size" /\ ~Returned /\ d \in DOMAIN Hex
    /\ Send(d)
    /\ left' = left * 16 + Hex[d] /\ Flaw(left' > Npos)
    /\ UNCHANGED <<phase, head, body, edge>>

\* ";" and an extension, or bytes that do not belong there.
Extension(l) ==
    /\ phase = "size" /\ ~Returned /\ l \in {";", "x"}
    /\ Send(l) /\ Goto("extension") /\ Flaw(line = <<>> \/ l # ";")
    /\ UNCHANGED <<head, left, body, edge>>

\* CRLF after a size line, after the data of a chunk or in the trailer section.
ChunkReturn ==
    /\ phase \in {"size", "extension", "chunk end", "trailer"}
    /\ ~Returned
    /\ Send("CR")
    /\ Flaw(phase = "size" /\ line = <<>>)
    /\ UNCHANGED <<phase, head, left, body, edge>>

ChunkLine ==
    /\ phase \in {"size", "extension", "chunk end", "trailer"}
    /\ Returned
    /\ Send("LF")
    /\ Goto(CASE phase = "chunk end" -> "size"
              [] phase = "trailer" -> IF line = <<"CR">> THEN "done" ELSE "trailer"
              [] OTHER -> IF left = 0 THEN "trailer" ELSE "data")
    /\ UNCHANGED <<head, left, body, flawed, edge>>

ChunkJunk ==
    /\ phase = "chunk end" /\ line = <<"x">>
    /\ Send("x") /\ Flaw(TRUE)
    /\ UNCHANGED <<phase, head, left, body, edge>>

TrailerByte ==
    /\ phase = "trailer" /\ line = <<>>
    /\ Send("x")
    /\ UNCHANGED <<phase, head, left, body, flawed, edge>>

\* The beginning of the next request.
NextRequest ==
    /\ phase = "done"
    /\ \E l \in {"1.1", "LF"} : Send(l)
    /\ Goto("over")
    /\ UNCHANGED <<head, left, body, flawed, edge>>

HttpRead ==
    \/ \E l \in {"1.1", "1.0", "short"} : RequestLine(l)
    \/ \E l \in Fields \cup {"fold", "nocolon"} : FieldLine(l)
    \/ LineByte \/ LineReturn \/ LineEnd \/ HeadReturn \/ HeadEnd
    \/ BodyByte \/ \E d \in DOMAIN Hex : SizeDigit(d)
    \/ \E l \in {";", "x"} : Extension(l)
    \/ ChunkReturn \/ ChunkLine \/ ChunkJunk \/ TrailerByte
    \/ NextRequest

HttpSpec == HttpInit /\ [][HttpRead]_httpVars

-----------------------------------------------------------------------------

Accepted(t) == Inspect(t).framing = "complete" /\ HttpParse(t).ok

\* A request is accepted exactly when its client has sent all of it and broken
\* none of the rules at message.hpp:186-196, neither one byte early nor after
\* conflicting lengths, codings, hosts or line ends; the body handed to the
\* route is the one the client meant.  (A header line of exactly the limit
\* is left out: see NoFalseAlarm.)  A request line is one lexeme, so that one
\* beyond the limit, which scan_head takes if no header line follows it
\* (message.hpp:482), is not sent here; nor does a client of HTTP/1.0 mix its
\* line ends.
AcceptedIffWellFormed ==
    ~edge =>
        /\ Accepted(text) <=> phase \in {"done", "over"} /\ ~flawed
        /\ Accepted(text) => HttpParse(text).body = body

\* However the network cuts a request, no prefix of a well-formed one is
\* rejected: what is rejected early would be rejected whole.  The exception is
\* a last header line of exactly MAX_HEADER_LINE bytes: rejected if its CR is
\* the last byte received (message.hpp:285), accepted if CRLFCRLF has arrived
\* with it (500 no longer counts the CR).
NoFalseAlarm ==
    ~edge /\ Inspect(text).framing \in {"bad", "many", "unsupported"} => flawed

\* Bytes that arrive later never move the end of a request: the length the
\* read loop remembers (io.cpp:243) stays right, and the bytes of the next
\* pipelined request do not change where this one is cut.
CutIsStable ==
    [][Inspect(text).expected # 0 =>
          /\ Inspect(text').expected = Inspect(text).expected
          /\ Inspect(text).framing = "complete" => Inspect(text').framing = "complete"]_text
=============================================================================
